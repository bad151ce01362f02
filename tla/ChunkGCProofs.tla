--------------------------- MODULE ChunkGCProofs ----------------------------
(***************************************************************************)
(* The gc steps of ChunkOwnership keep the inductive invariant.            *)
(***************************************************************************)
EXTENDS ChunkInvariant

\* A chunk that is not in GC state is marked only while it backs a v_chunk.
LEMMA MarkToGCIInv ==
    ASSUME IInv, NEW c \in Chunks, NEW priority \in Priority,
           MarkToGC(c, priority)
    PROVE  IInv'
<1> DEFINE p == m_pg_id[c]
           v == m_v_chunk_id[c]
<1>1. /\ p \in m_per_pg_chunks /\ p \in PGs /\ p \notin reset_pgs
      /\ v \in VChunksOf(p) /\ v \in VChunkIds
      /\ c \notin m_heap /\ m_state[c] # "GC"
  BY VChunkFacts DEF MarkToGC, Live, can_mark_to_gc, IInv, TypeOK, Pointers,
                     NameSlots, NamesSlot
<1>2. m_pg_chunks[p][v] = c
  BY <1>1 DEF IInv, Pointers, NameSlots, NamesSlot, MarkToGC
<1>3. /\ m_state' = [m_state EXCEPT ![c] = "GC"]
      /\ gc_priority' = [gc_priority EXCEPT ![p][v] = priority]
      /\ UNCHANGED <<m_pg_id, m_v_chunk_id, available_blks, m_heap,
                     m_per_pg_chunks, m_pg_chunks, available_num_chunks,
                     available_blk_count, reset_pgs>>
  BY DEF MarkToGC, try_mark_chunk_to_gc_state, pgVars
<1> USE DEF IInv
<1>4. TypeOK'
  BY <1>1, <1>3 DEF TypeOK, ChunkState
<1>5. SlotsFilled' /\ OneSlot' /\ PGOnOnePDev'
  BY <1>3 DEF SlotsFilled, OneSlot, PGOnOnePDev
<1>6. BackPointers'
  BY <1>1, <1>3 DEF BackPointers, TypeOK, SlotsFilled
<1>7. HeapIsFresh'
  BY <1>1, <1>3 DEF HeapIsFresh, TypeOK
<1>8. Pointers' /\ ReservedAreGC'
  BY <1>1, <1>3 DEF Pointers, NullTogether, NameSlots, NamesSlot, OnePointer,
                    ReservedAreGC, ReservedChunk, TypeOK
<1>9. TasksMatch'
  <2> SUFFICES ASSUME NEW q \in PGs, NEW w \in VChunksOf(q)
               PROVE  IF q \in m_per_pg_chunks
                        THEN m_state'[m_pg_chunks[q][w]] = "GC"
                               <=> gc_priority'[q][w] # NULL
                        ELSE gc_priority'[q][w] = NULL
    BY <1>3 DEF TasksMatch
  <2>1. w \in VChunkIds /\ priority # NULL
    BY VChunkFacts, PriorityAssumption
  <2>2. CASE q = p /\ w = v
    BY <1>1, <1>2, <1>3, <2>1, <2>2 DEF TypeOK
  <2>3. CASE ~(q = p /\ w = v)
    <3>1. gc_priority'[q][w] = gc_priority[q][w]
      BY <1>1, <1>3, <2>1, <2>3 DEF TypeOK
    <3>2. q \in m_per_pg_chunks => /\ m_pg_chunks[q][w] # c
                                   /\ m_pg_chunks[q][w] \in Chunks
      BY <1>1, <1>2, <2>3 DEF OneSlot, SlotsFilled
    <3> QED BY <1>1, <1>3, <3>1, <3>2 DEF TasksMatch, TypeOK
  <2> QED BY <2>2, <2>3
<1>10. ResetClean'
  BY <1>1, <1>3, VChunkFacts DEF ResetClean, TypeOK
<1> QED BY <1>4, <1>5, <1>6, <1>7, <1>8, <1>9, <1>10

\* The target of a switch backs no v_chunk, is in no heap and carries no pg_id.
LEMMA SwitchChunksIInv ==
    ASSUME IInv, NEW p \in PGs, NEW old \in Chunks, NEW new \in Chunks,
           SwitchChunks(p, old, new)
    PROVE  IInv'
<1> DEFINE v == m_v_chunk_id[old]
<1>1. /\ p \in m_per_pg_chunks /\ p \notin reset_pgs
      /\ m_pg_id[old] = p /\ v \in VChunksOf(p) /\ v \in VChunkIds
      /\ m_state[old] = "GC" /\ m_state[new] = "GC"
      /\ m_pg_id[new] = NULL /\ new \notin m_heap
      /\ pdev_id[new] = pdev_id[old]
      /\ p # NULL
  BY VChunkFacts, SelectorAssumption
     DEF SwitchChunks, Live, switch_chunks_for_pg_asserts, ReservedChunk,
         IInv, TypeOK, Pointers, NameSlots, NamesSlot
<1>2. /\ UNCHANGED <<m_state, m_pg_id, m_v_chunk_id, available_blks, m_heap,
                     m_per_pg_chunks, available_num_chunks, gc_priority,
                     reset_pgs>>
      /\ DOMAIN available_blk_count' = PGs
      /\ m_pg_chunks' = [m_pg_chunks EXCEPT ![p][v] = new]
  BY <1>1 DEF SwitchChunks, switch_chunks_for_pg, chunkVars, IInv, TypeOK
<1>3. CASE m_pg_chunks[p][v] = new
  <2>1. m_pg_chunks' = m_pg_chunks
    BY <1>1, <1>2, <1>3 DEF IInv, TypeOK
  <2> QED BY <1>1, <1>2, <2>1, CountsOnly DEF IInv, TypeOK
<1>4. CASE m_pg_chunks[p][v] # new
  <2> USE DEF IInv
  <2>1. \A q \in m_per_pg_chunks : \A w \in VChunksOf(q) :
           m_pg_chunks[q][w] # new
    BY <1>1, <1>4 DEF SwitchChunks, MappedChunks, ChunksOfPG
  <2>2. \A q \in PGs : \A w \in VChunksOf(q) :
           m_pg_chunks'[q][w] = IF q = p /\ w = v THEN new ELSE m_pg_chunks[q][w]
    BY <1>1, <1>2, VChunkFacts DEF TypeOK
  <2>3. TypeOK'
    BY <1>1, <1>2 DEF TypeOK
  <2>4. SlotsFilled'
    BY <1>1, <1>2, <2>2 DEF SlotsFilled, TypeOK
  <2>5. OneSlot'
    BY <1>2, <2>1, <2>2 DEF OneSlot, TypeOK
  <2>6. BackPointers'
    BY <1>1, <1>2, <2>2 DEF BackPointers, TypeOK
  <2>7. HeapIsFresh' /\ ReservedAreGC'
    BY <1>2 DEF HeapIsFresh, ReservedAreGC, ReservedChunk
  <2>8. \A w \in VChunksOf(p) : pdev_id[m_pg_chunks[p][w]] = pdev_id[new]
    BY <1>1 DEF PGOnOnePDev, Pointers, NameSlots, NamesSlot
  <2>9. PGOnOnePDev'
    BY <1>2, <2>2, <2>8 DEF PGOnOnePDev, TypeOK
  <2>10. Pointers'
    BY <1>1, <1>2, <2>2, SMTT(30) DEF Pointers, NullTogether, NameSlots, NamesSlot,
                            OnePointer, TypeOK
  <2>11. TasksMatch'
    BY <1>1, <1>2, <2>2 DEF TasksMatch, BackPointers, Pointers, NameSlots,
                            NamesSlot
  <2>12. ResetClean'
    BY <1>1, <1>2, <2>2 DEF ResetClean, TypeOK
  <2> QED BY <2>3, <2>4, <2>5, <2>6, <2>7, <2>9, <2>10, <2>11, <2>12
<1> QED BY <1>3, <1>4

\* The chunk that carried the v_chunk hands it to the one that backs it.
LEMMA FinishGCIInv ==
    ASSUME IInv, NEW from \in Chunks, NEW to \in Chunks, NEW p \in PGs,
           NEW v \in VChunkIds, FinishGC(from, to, p, v)
    PROVE  IInv'
<1> DEFINE final == final_state(gc_priority[p][v])
<1>1. /\ p \in m_per_pg_chunks /\ v \in VChunksOf(p) /\ p # NULL /\ v # NULL
      /\ m_pg_id[from] = p /\ m_v_chunk_id[from] = v
      /\ m_pg_chunks[p][v] = to /\ m_pg_id[to] = NULL /\ from # to
      /\ m_state[from] = "GC" /\ m_state[to] = "GC"
      /\ from \notin m_heap /\ to \notin m_heap
      /\ p \notin reset_pgs
  BY SelectorAssumption
     DEF FinishGC, HasVChunk, update_vchunk_info_after_gc_asserts, IInv,
         SlotsFilled, Pointers, NameSlots, NamesSlot, TasksMatch, ResetClean
<1>2. /\ m_pg_id' = [m_pg_id EXCEPT ![to] = p, ![from] = NULL]
      /\ m_v_chunk_id' = [m_v_chunk_id EXCEPT ![to] = v, ![from] = NULL]
      /\ m_state' = [m_state EXCEPT ![to] = final]
      /\ gc_priority' = [gc_priority EXCEPT ![p][v] = NULL]
      /\ UNCHANGED <<available_blks, m_heap, m_per_pg_chunks, m_pg_chunks,
                     available_num_chunks, available_blk_count, reset_pgs>>
  BY DEF FinishGC, update_vchunk_info_after_gc, pgVars
<1>3. final \in ChunkState /\ final # "GC"
  BY DEF final_state, ChunkState
<1> HIDE DEF final
<1>4. \A q \in m_per_pg_chunks : \A w \in VChunksOf(q) :
         /\ m_pg_chunks[q][w] # from
         /\ m_pg_chunks[q][w] = to => q = p /\ w = v
         /\ m_pg_chunks[q][w] \in Chunks
  BY <1>1 DEF IInv, OneSlot, BackPointers, SlotsFilled, TypeOK
<1>5. \A c \in Chunks :
         /\ m_pg_id'[c] = IF c = to THEN p ELSE IF c = from THEN NULL
                                                ELSE m_pg_id[c]
         /\ m_v_chunk_id'[c] = IF c = to THEN v ELSE IF c = from THEN NULL
                                                     ELSE m_v_chunk_id[c]
         /\ m_state'[c] = IF c = to THEN final ELSE m_state[c]
  BY <1>1, <1>2 DEF IInv, TypeOK
<1>6. \A q \in PGs : \A w \in VChunksOf(q) :
         gc_priority'[q][w] = IF q = p /\ w = v THEN NULL ELSE gc_priority[q][w]
  BY <1>1, <1>2, VChunkFacts DEF IInv, TypeOK
<1> USE DEF IInv
<1>7. TypeOK'
  <2>1. /\ m_pg_id' \in [Chunks -> PGs \cup {NULL}]
        /\ m_v_chunk_id' \in [Chunks -> VChunkIds \cup {NULL}]
    BY <1>2 DEF TypeOK
  <2>2. m_state' \in [Chunks -> ChunkState]
    BY <1>2, <1>3 DEF TypeOK
  <2>3. gc_priority' \in [PGs -> [VChunkIds -> Priority \cup {NULL}]]
    BY <1>2 DEF TypeOK
  <2> QED BY <1>2, <2>1, <2>2, <2>3 DEF TypeOK
<1>8. SlotsFilled' /\ OneSlot' /\ PGOnOnePDev'
  BY <1>2 DEF SlotsFilled, OneSlot, PGOnOnePDev
<1>9. BackPointers'
  <2> SUFFICES ASSUME NEW q \in m_per_pg_chunks', NEW w \in VChunksOf(q)
               PROVE  PointsBack(q, w)'
    BY DEF BackPointers, PointsBack
  <2>1. CASE q = p /\ w = v
    <3>1. m_pg_chunks'[p][v] = to
      BY <1>1, <1>2
    <3>2. m_pg_id'[to] = p /\ m_v_chunk_id'[to] = v
      BY <1>5
    <3> QED BY <2>1, <3>1, <3>2 DEF PointsBack
  <2>2. CASE ~(q = p /\ w = v)
    <3>1. /\ m_pg_chunks[q][w] \in Chunks
          /\ m_pg_chunks[q][w] # from /\ m_pg_chunks[q][w] # to
      BY <1>2, <1>4, <2>2
    <3>2. PointsBack(q, w)
      BY <1>2 DEF BackPointers, PointsBack
    <3>3. \A c \in Chunks : m_pg_id[c] = q /\ m_v_chunk_id[c] = w =>
             /\ m_pg_id'[c] = q /\ m_v_chunk_id'[c] = w
             /\ m_state'[c] = m_state[c]
      BY <1>1, <1>2, <1>5, <2>2, SelectorAssumption DEF TypeOK
    <3>4. m_pg_chunks' = m_pg_chunks
      BY <1>2
    <3>5. CASE /\ m_pg_id[m_pg_chunks[q][w]] = q
               /\ m_v_chunk_id[m_pg_chunks[q][w]] = w
      BY <3>1, <3>3, <3>4, <3>5 DEF PointsBack
    <3>6. ASSUME NEW old \in Chunks, m_pg_id[old] = q, m_v_chunk_id[old] = w,
                 m_state[old] = "GC", m_state[m_pg_chunks[q][w]] = "GC",
                 m_pg_id[m_pg_chunks[q][w]] = NULL
          PROVE  PointsBack(q, w)'
      <4>1. /\ m_pg_id'[old] = q /\ m_v_chunk_id'[old] = w
            /\ m_state'[old] = "GC"
        BY <3>3, <3>6
      <4>2. /\ m_state'[m_pg_chunks[q][w]] = "GC"
            /\ m_pg_id'[m_pg_chunks[q][w]] = NULL
        BY <1>5, <3>1, <3>6
      <4> QED BY <3>4, <4>1, <4>2 DEF PointsBack
    <3> QED BY <3>2, <3>5, <3>6 DEF PointsBack
  <2> QED BY <2>1, <2>2
<1>10. HeapIsFresh'
  BY <1>1, <1>2, <1>5 DEF HeapIsFresh, TypeOK
<1>11. Pointers'
  <2>1. \A c \in Chunks : c # from /\ c # to /\ m_pg_id[c] # NULL =>
           ~(m_pg_id[c] = p /\ m_v_chunk_id[c] = v)
    BY <1>1 DEF Pointers, OnePointer
  <2>2. \A c \in Chunks : m_pg_id'[c] = NULL <=> m_v_chunk_id'[c] = NULL
    BY <1>1, <1>5 DEF Pointers, NullTogether
  <2>3. \A c, d \in Chunks :
           m_pg_id'[c] # NULL /\ m_pg_id'[c] = m_pg_id'[d]
             /\ m_v_chunk_id'[c] = m_v_chunk_id'[d] => c = d
    BY <1>1, <1>5, <2>1 DEF Pointers, OnePointer
  <2>4. ASSUME NEW c \in Chunks, m_pg_id'[c] # NULL
        PROVE  /\ c \notin m_heap
               /\ m_pg_id'[c] \in m_per_pg_chunks
               /\ m_v_chunk_id'[c] \in VChunksOf(m_pg_id'[c])
               /\ pdev_id[m_pg_chunks[m_pg_id'[c]][m_v_chunk_id'[c]]] = pdev_id[c]
               /\ \/ m_pg_chunks[m_pg_id'[c]][m_v_chunk_id'[c]] = c
                  \/ /\ m_state'[c] = "GC"
                     /\ m_pg_id'[m_pg_chunks[m_pg_id'[c]][m_v_chunk_id'[c]]] = NULL
    <3>1. CASE c = to
      BY <1>1, <1>5, <3>1
    <3>2. CASE c # to
      <4>1. /\ c # from /\ m_pg_id'[c] = m_pg_id[c]
            /\ m_v_chunk_id'[c] = m_v_chunk_id[c] /\ m_state'[c] = m_state[c]
        BY <1>5, <2>4, <3>2
      <4>2. LET d == m_pg_chunks[m_pg_id[c]][m_v_chunk_id[c]] IN
               d \in Chunks /\ d # to /\ d # from
        BY <1>4, <2>1, <2>4, <3>2, <4>1 DEF Pointers, NameSlots, NamesSlot
      <4> QED BY <1>5, <2>4, <4>1, <4>2, ZenonT(60) DEF Pointers, NameSlots, NamesSlot
    <3> QED BY <3>1, <3>2
  <2>5. NameSlots'
    <3>1. m_heap' = m_heap /\ m_per_pg_chunks' = m_per_pg_chunks
          /\ m_pg_chunks' = m_pg_chunks
      BY <1>2
    <3> QED BY <2>4, <3>1 DEF NameSlots, NamesSlot
  <2>6. NullTogether' /\ OnePointer'
    BY <2>2, <2>3 DEF NullTogether, OnePointer
  <2> QED BY <2>5, <2>6 DEF Pointers
<1>12. ReservedAreGC'
  BY <1>1, <1>2, <1>5 DEF ReservedAreGC, ReservedChunk
<1>13. TasksMatch'
  BY <1>1, <1>2, <1>3, <1>4, <1>5, <1>6 DEF TasksMatch
<1>14. ResetClean'
  BY <1>1, <1>2, <1>6 DEF ResetClean, TypeOK
<1> QED BY <1>7, <1>8, <1>9, <1>10, <1>11, <1>12, <1>13, <1>14

\* A task that gives up before its switch: the chunk still backs the v_chunk.
LEMMA AbortGCIInv ==
    ASSUME IInv, NEW p \in PGs, NEW v \in VChunkIds, AbortGC(p, v)
    PROVE  IInv'
<1> DEFINE c == m_pg_chunks[p][v]
           final == final_state(gc_priority[p][v])
<1>1. /\ p \in m_per_pg_chunks /\ v \in VChunksOf(p) /\ p # NULL
      /\ c \in Chunks /\ c \notin m_heap
      /\ m_pg_id[c] = p /\ m_v_chunk_id[c] = v /\ m_state[c] = "GC"
  BY SelectorAssumption
     DEF AbortGC, HasVChunk, get_pg_vchunk, mark_chunk_out_of_gc_state_asserts,
         IInv, SlotsFilled, BackPointers
<1>2. /\ m_state' = [m_state EXCEPT ![c] = final]
      /\ gc_priority' = [gc_priority EXCEPT ![p][v] = NULL]
      /\ UNCHANGED <<m_pg_id, m_v_chunk_id, available_blks, m_heap,
                     m_per_pg_chunks, m_pg_chunks, available_num_chunks,
                     available_blk_count, reset_pgs>>
  BY DEF AbortGC, mark_chunk_out_of_gc_state, get_pg_vchunk, pgVars
<1>3. final \in ChunkState /\ final # "GC"
  BY DEF final_state, ChunkState
<1> HIDE DEF final
<1>4. \A q \in PGs : \A w \in VChunksOf(q) :
         gc_priority'[q][w] = IF q = p /\ w = v THEN NULL ELSE gc_priority[q][w]
  BY <1>1, <1>2, VChunkFacts DEF IInv, TypeOK
<1>5. \A q \in m_per_pg_chunks : \A w \in VChunksOf(q) :
         /\ m_pg_chunks[q][w] \in Chunks
         /\ m_pg_chunks[q][w] = c => q = p /\ w = v
  BY <1>1 DEF IInv, OneSlot, SlotsFilled, TypeOK
<1>6. \A d \in Chunks : m_state'[d] = IF d = c THEN final ELSE m_state[d]
  BY <1>1, <1>2 DEF IInv, TypeOK
<1> HIDE DEF c
<1> USE DEF IInv
<1>7. TypeOK'
  BY <1>1, <1>2, <1>3 DEF TypeOK
<1>8. SlotsFilled' /\ OneSlot' /\ PGOnOnePDev'
  BY <1>2 DEF SlotsFilled, OneSlot, PGOnOnePDev
<1>9. BackPointers'
  <2> SUFFICES ASSUME NEW q \in m_per_pg_chunks', NEW w \in VChunksOf(q)
               PROVE  PointsBack(q, w)'
    BY DEF BackPointers, PointsBack
  <2>1. PointsBack(q, w)
    BY <1>2 DEF BackPointers, PointsBack
  <2>2. CASE m_pg_id[m_pg_chunks[q][w]] = q /\ m_v_chunk_id[m_pg_chunks[q][w]] = w
    BY <1>2, <2>2 DEF PointsBack
  <2>3. CASE m_pg_id[m_pg_chunks[q][w]] = NULL
    <3>1. m_pg_chunks[q][w] # c /\ ~(q = p /\ w = v)
      BY <1>1, <2>3 DEF c
    <3>2. \A d \in Chunks : m_pg_id[d] = q /\ m_v_chunk_id[d] = w => d # c
      BY <1>1, <3>1
    <3> QED BY <1>2, <1>5, <1>6, <2>1, <3>1, <3>2 DEF PointsBack
  <2> QED BY <2>1, <2>2, <2>3 DEF PointsBack
<1>10. HeapIsFresh'
  BY <1>1, <1>2, <1>6 DEF HeapIsFresh, TypeOK
<1>11. Pointers'
  BY <1>1, <1>2, <1>6, ZenonT(60) DEF Pointers, NullTogether, NameSlots, NamesSlot,
                          OnePointer, c
<1>12. ReservedAreGC'
  BY <1>1, <1>2, <1>6 DEF ReservedAreGC, ReservedChunk
<1>13. TasksMatch'
  BY <1>1, <1>2, <1>3, <1>4, <1>5, <1>6 DEF TasksMatch, c
<1>14. ResetClean'
  BY <1>2, <1>4 DEF ResetClean, TypeOK
<1> QED BY <1>7, <1>8, <1>9, <1>10, <1>11, <1>12, <1>13, <1>14
=============================================================================
