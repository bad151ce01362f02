------------------------ MODULE ChunkOwnershipProofs ------------------------
(***************************************************************************)
(* The boot keeps the inductive invariant of ChunkInvariant; with the      *)
(* steps of ChunkGCProofs and ChunkPGProofs it is an invariant of the      *)
(* specification, and the safety properties of ChunkOwnership follow.      *)
(***************************************************************************)
EXTENDS ChunkGCProofs, ChunkPGProofs

\* When no switched v_chunk is left, the boot rebuilds the pg_id, v_chunk_id
\* and heap it finds, from the superblks and the reserved chunks.
LEMMA RestartKeeps ==
    ASSUME IInv, NEW excluding \in [PGs -> SUBSET VChunkIds], Restart(excluding)
    PROVE  /\ UNCHANGED <<m_pg_id, m_v_chunk_id, m_heap, m_per_pg_chunks,
                          m_pg_chunks, available_blks, reset_pgs>>
           /\ reset_pgs = {}
           /\ gc_priority' = NoTask
           /\ m_state' \in [Chunks -> ChunkState]
           /\ \A c \in Chunks : m_state'[c] = "GC" <=> ReservedChunk(c)
           /\ \A p \in m_per_pg_chunks : \A v \in VChunksOf(p) :
                /\ m_pg_id[m_pg_chunks[p][v]] = p
                /\ m_v_chunk_id[m_pg_chunks[p][v]] = v
                /\ m_state'[m_pg_chunks[p][v]] =
                     IF v \in excluding[p] THEN "INUSE" ELSE "AVAILABLE"
           /\ \A c \in m_heap : m_state'[c] = "AVAILABLE"
           /\ available_num_chunks' =
                [p \in PGs |-> IF p \in m_per_pg_chunks
                                 THEN Cardinality(VChunksOf(p) \ excluding[p])
                                 ELSE 0]
           /\ DOMAIN available_blk_count' = PGs
<1> DEFINE keys == {p \in PGs : m_pg_chunks[p] # NoChunks}
           Slots(c) == {pv \in keys \X VChunkIds :
                          pv[2] \in VChunksOf(pv[1]) /\ m_pg_chunks[pv[1]][pv[2]] = c}
           slot(c) == CHOOSE pv \in Slots(c) : TRUE
           reserved == {c \in Chunks : ReservedChunk(c)}
<1>1. /\ m_per_pg_chunks' = keys
      /\ m_pg_chunks' = m_pg_chunks
      /\ m_pg_id' = [c \in Chunks |-> IF Slots(c) = {} THEN NULL ELSE slot(c)[1]]
      /\ m_v_chunk_id' =
             [c \in Chunks |-> IF Slots(c) = {} THEN NULL ELSE slot(c)[2]]
      /\ m_state' =
             [c \in Chunks |->
                 CASE c \in reserved -> "GC"
                   [] c \notin reserved /\ Slots(c) # {}
                        /\ slot(c)[2] \in excluding[slot(c)[1]] -> "INUSE"
                   [] OTHER -> "AVAILABLE"]
      /\ m_heap' = {c \in Chunks : Slots(c) = {} /\ c \notin reserved}
      /\ available_num_chunks' =
             [p \in PGs |-> IF p \in keys
                              THEN Cardinality(VChunksOf(p) \ excluding[p])
                              ELSE 0]
      /\ DOMAIN available_blk_count' = PGs
      /\ gc_priority' = NoTask /\ reset_pgs = {}
      /\ UNCHANGED <<available_blks, reset_pgs>>
  BY DEF Restart, recover
<1>2. keys = m_per_pg_chunks
  <2>1. ASSUME NEW p \in m_per_pg_chunks
        PROVE  p \in PGs /\ m_pg_chunks[p] # NoChunks
    <3>1. p \in PGs
      BY DEF IInv, TypeOK
    <3>2. 0 \in VChunksOf(p) /\ 0 \in VChunkIds
      BY <3>1, VChunkFacts
    <3>3. m_pg_chunks[p][0] \in Chunks
      BY <3>1, <3>2 DEF IInv, SlotsFilled
    <3>4. NoChunks[0] \notin Chunks
      BY <3>2, SelectorAssumption DEF NoChunks
    <3> QED BY <3>1, <3>3, <3>4
  <2>2. \A p \in PGs : p \notin m_per_pg_chunks => m_pg_chunks[p] = NoChunks
    BY DEF IInv, SlotsFilled
  <2> QED BY <2>1, <2>2
<1>3. \A c \in Chunks : m_pg_id[c] # NULL =>
         \E p \in m_per_pg_chunks : \E v \in VChunksOf(p) : m_pg_chunks[p][v] = c
  BY DEF Restart, MappedChunks, ChunksOfPG
<1>4. \A p \in m_per_pg_chunks : \A v \in VChunksOf(p) :
         /\ m_pg_chunks[p][v] \in Chunks
         /\ m_pg_id[m_pg_chunks[p][v]] = p /\ m_v_chunk_id[m_pg_chunks[p][v]] = v
  <2> SUFFICES ASSUME NEW p \in m_per_pg_chunks, NEW v \in VChunksOf(p),
                      NEW old \in Chunks, m_pg_id[old] = p,
                      m_v_chunk_id[old] = v, m_pg_id[m_pg_chunks[p][v]] = NULL
               PROVE  FALSE
    BY DEF IInv, BackPointers, SlotsFilled, TypeOK
  <2>1. p # NULL
    BY SelectorAssumption DEF IInv, TypeOK
  <2>2. PICK q \in m_per_pg_chunks : \E w \in VChunksOf(q) :
           m_pg_chunks[q][w] = old
    BY <1>3, <2>1
  <2>3. PICK w \in VChunksOf(q) : m_pg_chunks[q][w] = old
    BY <2>2
  <2>4. m_pg_id[old] = q /\ m_v_chunk_id[old] = w
    BY <2>1, <2>3 DEF IInv, BackPointers
  <2> QED BY <2>1, <2>3, <2>4
<1>5. \A c \in Chunks : \A p \in m_per_pg_chunks : \A v \in VChunksOf(p) :
         m_pg_chunks[p][v] = c => Slots(c) = {<<p, v>>}
  <2> SUFFICES ASSUME NEW c \in Chunks, NEW p \in m_per_pg_chunks,
                      NEW v \in VChunksOf(p), m_pg_chunks[p][v] = c
               PROVE  Slots(c) = {<<p, v>>}
    OBVIOUS
  <2>1. <<p, v>> \in Slots(c)
    BY <1>2, VChunkFacts DEF IInv, TypeOK
  <2>2. \A pv \in Slots(c) : pv = <<p, v>>
    BY <1>2 DEF IInv, OneSlot
  <2> QED BY <2>1, <2>2
<1>6. \A c \in Chunks : m_pg_id[c] = NULL => Slots(c) = {}
  BY <1>2, <1>4, SelectorAssumption DEF IInv, TypeOK
<1> HIDE DEF keys, Slots
<1>7. \A p \in m_per_pg_chunks : \A v \in VChunksOf(p) :
         slot(m_pg_chunks[p][v]) = <<p, v>>
  BY <1>4, <1>5
<1>8. \A c \in Chunks : Slots(c) = {} <=> m_pg_id[c] = NULL
  <2>1. ASSUME NEW c \in Chunks, m_pg_id[c] # NULL
        PROVE  Slots(c) # {}
    <3>1. PICK p \in m_per_pg_chunks :
             \E v \in VChunksOf(p) : m_pg_chunks[p][v] = c
      BY <1>3, <2>1
    <3>2. PICK v \in VChunksOf(p) : m_pg_chunks[p][v] = c
      BY <3>1
    <3>3. Slots(c) = {<<p, v>>}
      BY <1>5, <3>2
    <3> QED BY <3>3
  <2> QED BY <1>6, <2>1
<1> HIDE DEF slot
<1>9. \A c \in Chunks : m_pg_id[c] # NULL => slot(c) = <<m_pg_id[c], m_v_chunk_id[c]>>
  BY <1>3, <1>4, <1>7
<1>10. m_pg_id' = m_pg_id /\ m_v_chunk_id' = m_v_chunk_id
  BY <1>1, <1>8, <1>9 DEF IInv, TypeOK, Pointers, NullTogether
<1>11. m_heap' = m_heap
  BY <1>1, <1>8 DEF IInv, TypeOK, HeapIsFresh, ReservedChunk
<1>12. \A c \in Chunks : m_state'[c] \in ChunkState
                         /\ (m_state'[c] = "GC" <=> ReservedChunk(c))
  BY <1>1 DEF ChunkState
<1>13. \A p \in m_per_pg_chunks : \A v \in VChunksOf(p) :
         m_state'[m_pg_chunks[p][v]] =
            IF v \in excluding[p] THEN "INUSE" ELSE "AVAILABLE"
  BY <1>1, <1>4, <1>5, <1>7, SelectorAssumption DEF ReservedChunk, IInv, TypeOK
<1>14. \A c \in m_heap : m_state'[c] = "AVAILABLE"
  BY <1>1, <1>8 DEF ReservedChunk, IInv, TypeOK, HeapIsFresh
<1>15. m_state' \in [Chunks -> ChunkState]
  BY <1>1, <1>12
<1>16. available_num_chunks' =
          [p \in PGs |-> IF p \in m_per_pg_chunks
                           THEN Cardinality(VChunksOf(p) \ excluding[p]) ELSE 0]
  BY <1>1, <1>2
<1>17. /\ UNCHANGED <<m_per_pg_chunks, m_pg_chunks, available_blks, reset_pgs>>
       /\ reset_pgs = {} /\ gc_priority' = NoTask
       /\ DOMAIN available_blk_count' = PGs
  BY <1>1, <1>2
<1> QED BY <1>4, <1>10, <1>11, <1>12, <1>13, <1>14, <1>15, <1>16, <1>17

\* A restart rebuilds every selector table from the chunk lists it persisted.
LEMMA RestartIInv ==
    ASSUME IInv, NEW excluding \in [PGs -> SUBSET VChunkIds], Restart(excluding)
    PROVE  IInv'
<1>1. \A p \in PGs : Cardinality(VChunksOf(p) \ excluding[p]) \in Nat
  <2> SUFFICES ASSUME NEW p \in PGs
               PROVE  Cardinality(VChunksOf(p) \ excluding[p]) \in Nat
    OBVIOUS
  <2>1. IsFiniteSet(VChunksOf(p))
    BY SelectorAssumption, FS_Interval DEF VChunksOf
  <2> QED BY <2>1, FS_Subset, FS_CardinalityType
<1>2. /\ UNCHANGED <<m_pg_id, m_v_chunk_id, m_heap, m_per_pg_chunks,
                     m_pg_chunks, available_blks, reset_pgs>>
      /\ reset_pgs = {} /\ gc_priority' = NoTask
      /\ m_state' \in [Chunks -> ChunkState]
      /\ DOMAIN available_blk_count' = PGs
  BY RestartKeeps
<1>3. available_num_chunks' =
          [p \in PGs |-> IF p \in m_per_pg_chunks
                           THEN Cardinality(VChunksOf(p) \ excluding[p]) ELSE 0]
  BY RestartKeeps
<1>4. /\ \A c \in Chunks : m_state'[c] = "GC" <=> ReservedChunk(c)
      /\ \A c \in m_heap : m_state'[c] = "AVAILABLE"
  BY RestartKeeps
<1>5. \A p \in m_per_pg_chunks : \A v \in VChunksOf(p) :
         /\ m_pg_id[m_pg_chunks[p][v]] = p /\ m_v_chunk_id[m_pg_chunks[p][v]] = v
         /\ m_state'[m_pg_chunks[p][v]] # "GC"
  BY RestartKeeps
<1>6. TypeOK'
  <2>1. NoTask \in [PGs -> [VChunkIds -> Priority \cup {NULL}]]
    BY DEF NoTask
  <2>2. available_num_chunks' \in [PGs -> Int]
    BY <1>1, <1>3
  <2> QED BY <1>2, <2>1, <2>2 DEF IInv, TypeOK
<1>7. SlotsFilled' /\ OneSlot' /\ PGOnOnePDev'
  BY <1>2 DEF IInv, SlotsFilled, OneSlot, PGOnOnePDev
<1>8. BackPointers'
  BY <1>2, <1>5 DEF BackPointers
<1>9. HeapIsFresh'
  BY <1>2, <1>4 DEF IInv, HeapIsFresh
<1>10. Pointers'
  <2>1. NullTogether' /\ OnePointer'
    BY <1>2 DEF IInv, Pointers, NullTogether, OnePointer
  <2>2. ASSUME NEW c \in Chunks, m_pg_id[c] # NULL
        PROVE  m_pg_chunks[m_pg_id[c]][m_v_chunk_id[c]] = c /\ NamesSlot(c)
    <3>1. NamesSlot(c)
      BY <2>2 DEF IInv, Pointers, NameSlots
    <3>2. m_pg_id[m_pg_chunks[m_pg_id[c]][m_v_chunk_id[c]]] # NULL
      BY <1>5, <2>2, <3>1 DEF NamesSlot
    <3> QED BY <3>1, <3>2 DEF NamesSlot
  <2>3. NameSlots'
    BY <1>2, <2>2 DEF NameSlots, NamesSlot
  <2> QED BY <2>1, <2>3 DEF Pointers
<1>11. ReservedAreGC'
  BY <1>2, <1>4 DEF ReservedAreGC, ReservedChunk
<1>12. TasksMatch'
  <2>1. \A p \in PGs : \A v \in VChunksOf(p) : gc_priority'[p][v] = NULL
    BY <1>2, VChunkFacts DEF NoTask
  <2>2. /\ m_per_pg_chunks' = m_per_pg_chunks /\ m_pg_chunks' = m_pg_chunks
        /\ \A p \in m_per_pg_chunks : \A v \in VChunksOf(p) :
             m_state'[m_pg_chunks[p][v]] # "GC"
    BY <1>2, <1>5
  <2> QED BY <2>1, <2>2 DEF TasksMatch
<1>13. ResetClean'
  BY <1>2 DEF ResetClean
<1> QED BY <1>6, <1>7, <1>8, <1>9, <1>10, <1>11, <1>12, <1>13 DEF IInv

-----------------------------------------------------------------------------
\* IInv is inductive: every call of the selector, and a restart, preserves it.
LEMMA NextIInv == IInv /\ [Next]_vars => IInv'
<1> SUFFICES ASSUME IInv, [Next]_vars PROVE IInv'
  OBVIOUS
<1>1. CASE UNCHANGED vars
  BY <1>1, CountsOnly DEF vars, IInv, TypeOK
<1>2. ASSUME NEW p \in PGs, NEW v \in VChunkIds,
             \/ ProposeShard(p, v) \/ SelectChunk(p, v) \/ ReleaseChunk(p, v)
             \/ AllocBlk(p, v) \/ AbortGC(p, v)
      PROVE  IInv'
  BY <1>2, ProposeShardIInv, SelectChunkIInv, ReleaseChunkIInv, AllocBlkIInv,
     AbortGCIInv
<1>3. ASSUME NEW p \in PGs, NEW c \in Chunks, NEW d \in Chunks,
             \/ SwitchChunks(p, c, d)
             \/ \E v \in VChunkIds : FinishGC(c, d, p, v)
      PROVE  IInv'
  BY <1>3, SwitchChunksIInv, FinishGCIInv
<1>4. ASSUME NEW p \in PGs,
             \/ \E f \in [VChunkIds -> Chunks \cup {NULL}] : CreatePG(p, f)
             \/ ResetPG(p) \/ ReturnPG(p)
      PROVE  IInv'
  BY <1>4, CreatePGIInv, ResetPGIInv, ReturnPGIInv
<1>5. ASSUME NEW c \in Chunks,
             \/ \E priority \in Priority : MarkToGC(c, priority)
             \/ \E n \in 0 .. TotalBlks : FillReserved(c, n)
      PROVE  IInv'
  BY <1>5, MarkToGCIInv, FillReservedIInv
<1>6. ASSUME NEW excluding \in [PGs -> SUBSET VChunkIds], Restart(excluding)
      PROVE  IInv'
  BY <1>6, RestartIInv
<1> QED BY <1>1, <1>2, <1>3, <1>4, <1>5, <1>6 DEF Next

\* The strengthened invariant holds in every reachable state.
THEOREM Inductive == Spec => []IInv
<1>1. Init => IInv
  BY InitIInv
<1>2. IInv /\ [Next]_vars => IInv'
  BY NextIInv
<1> QED BY <1>1, <1>2, PTL DEF Spec

\* The variables of the selector keep their types.
THEOREM TypeCorrect == Spec => []TypeOK
<1>1. IInv => TypeOK
  BY DEF IInv
<1> QED BY <1>1, Inductive, PTL

\* No two v_chunks, of one pg or of two, are ever backed by the same chunk, and
\* no chunk of a pg is in a device heap: calls of the pg manager, the shard
\* manager and the gc in any order, and restarts, never make two owners.
THEOREM SingleOwner == Spec => []OneOwner
<1>1. IInv => OneOwner
  <2> SUFFICES ASSUME IInv PROVE OneOwner
    OBVIOUS
  <2>1. MappedChunks \cap m_heap = {}
    BY DEF IInv, TypeOK, SlotsFilled, MappedChunks, ChunksOfPG
  <2> QED BY <2>1 DEF IInv, OneSlot, OneOwner
<1> QED BY <1>1, Inductive, PTL

\* The vector of a pg and the chunks it names agree, except inside one gc task.
THEOREM PointersAgree == Spec => []BackPointers
<1>1. IInv => BackPointers
  BY DEF IInv
<1> QED BY <1>1, Inductive, PTL

\* The asserts of select_chunks_for_pg on the chunks it pops never fail.
THEOREM FreshHeap == Spec => []HeapIsFresh
<1>1. IInv => HeapIsFresh
  BY DEF IInv
<1> QED BY <1>1, Inductive, PTL

\* However often gc moves its chunks, a pg stays on the device it was created on.
THEOREM OnePDev == Spec => []PGOnOnePDev
<1>1. IInv => PGOnOnePDev
  BY DEF IInv
<1> QED BY <1>1, Inductive, PTL

-----------------------------------------------------------------------------
\* A step that changes the chunk of a v_chunk is the switch of its gc.
MovesByGC ==
    \A p \in PGs : Live(p) /\ Live(p)' =>
       \A v \in VChunksOf(p) :
          m_pg_chunks'[p][v] # m_pg_chunks[p][v] =>
             /\ m_state[m_pg_chunks[p][v]] = "GC"
             /\ ReservedChunk(m_pg_chunks'[p][v])

\* No call but switch_chunks_for_pg moves a v_chunk of a live pg.
LEMMA NextMovesByGC == IInv /\ [Next]_vars => [MovesByGC]_vars
<1> SUFFICES ASSUME IInv, Next PROVE MovesByGC
  OBVIOUS
<1>1. ASSUME NEW p \in PGs, NEW f \in [VChunkIds -> Chunks \cup {NULL}],
             CreatePG(p, f)
      PROVE  MovesByGC
  BY <1>1 DEF CreatePG, select_chunks_for_pg, MovesByGC, Live, IInv, TypeOK
<1>2. ASSUME NEW p \in PGs, ReturnPG(p)
      PROVE  MovesByGC
  BY <1>2 DEF ReturnPG, return_pg_chunks_to_dev_heap, MovesByGC, Live, IInv,
              TypeOK
<1>3. ASSUME NEW p \in PGs, NEW old \in Chunks, NEW new \in Chunks,
             SwitchChunks(p, old, new)
      PROVE  MovesByGC
  <2> DEFINE v == m_v_chunk_id[old]
  <2>1. /\ m_state[old] = "GC" /\ m_state[new] = "GC" /\ ReservedChunk(new)
        /\ m_pg_chunks[p][v] \in {old, new}
        /\ \/ m_pg_chunks' = m_pg_chunks
           \/ m_pg_chunks' = [m_pg_chunks EXCEPT ![p][v] = new]
    BY <1>3 DEF SwitchChunks, switch_chunks_for_pg, switch_chunks_for_pg_asserts
  <2>2. \A q \in PGs : \A w \in VChunksOf(q) :
           m_pg_chunks'[q][w] # m_pg_chunks[q][w] =>
              q = p /\ w = v /\ m_pg_chunks'[q][w] = new
    BY <2>1, VChunkFacts DEF IInv, TypeOK
  <2> QED BY <2>1, <2>2 DEF MovesByGC
<1>4. CASE m_pg_chunks' = m_pg_chunks
  BY <1>4 DEF MovesByGC
<1>5. ASSUME NEW p \in PGs, NEW v \in VChunkIds,
             \/ ProposeShard(p, v) \/ SelectChunk(p, v) \/ ReleaseChunk(p, v)
             \/ AllocBlk(p, v) \/ AbortGC(p, v)
             \/ \E c, d \in Chunks : FinishGC(c, d, p, v)
      PROVE  m_pg_chunks' = m_pg_chunks
  BY <1>5 DEF ProposeShard, get_most_available_blk_chunk, SelectChunk,
              select_specific_chunk, ReleaseChunk, release_chunk, AllocBlk,
              AbortGC, mark_chunk_out_of_gc_state, FinishGC,
              update_vchunk_info_after_gc, pgVars
<1>6. ASSUME NEW c \in Chunks,
             \/ \E priority \in Priority : MarkToGC(c, priority)
             \/ \E n \in 0 .. TotalBlks : FillReserved(c, n)
      PROVE  m_pg_chunks' = m_pg_chunks
  BY <1>6 DEF MarkToGC, try_mark_chunk_to_gc_state, FillReserved, pgVars
<1>7. ASSUME NEW p \in PGs, ResetPG(p)
      PROVE  m_pg_chunks' = m_pg_chunks
  BY <1>7 DEF ResetPG, reset_pg_chunks
<1>8. ASSUME NEW excluding \in [PGs -> SUBSET VChunkIds], Restart(excluding)
      PROVE  m_pg_chunks' = m_pg_chunks
  BY <1>8 DEF Restart, recover
<1> QED BY <1>1, <1>2, <1>3, <1>4, <1>5, <1>6, <1>7, <1>8 DEF Next

\* The chunk behind a v_chunk of a live pg changes only inside a gc of that
\* v_chunk and only to a reserved chunk; a restart changes none.
THEOREM MoveOnlyByGC == Spec => ChunksMoveOnlyByGC
<1>1. IInv /\ [Next]_vars => [MovesByGC]_vars
  BY NextMovesByGC
<1>2. Spec => [][MovesByGC]_vars
  BY <1>1, Inductive, PTL DEF Spec
<1> QED BY <1>2 DEF ChunksMoveOnlyByGC, MovesByGC

=============================================================================
