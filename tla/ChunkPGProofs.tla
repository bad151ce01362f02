--------------------------- MODULE ChunkPGProofs ----------------------------
(***************************************************************************)
(* Creating and destroying a pg keep the inductive invariant.              *)
(***************************************************************************)
EXTENDS ChunkInvariant

\* reset_pg_chunks empties the chunks of the pg and of no other.
LEMMA ResetPGIInv ==
    ASSUME IInv, NEW p \in PGs, ResetPG(p)
    PROVE  IInv'
<1>1. /\ p \in m_per_pg_chunks
      /\ \A v \in VChunksOf(p) : gc_priority[p][v] = NULL
      /\ available_blks' = [c \in Chunks |-> IF c \in ChunksOfPG(p)
                                               THEN TotalBlks
                                               ELSE available_blks[c]]
      /\ reset_pgs' = reset_pgs \cup {p}
      /\ UNCHANGED <<m_state, m_pg_id, m_v_chunk_id, m_heap, m_per_pg_chunks,
                     m_pg_chunks, available_num_chunks, available_blk_count,
                     gc_priority>>
  BY DEF ResetPG, Live, reset_pg_chunks
<1>2. UNCHANGED <<m_state, m_pg_id, m_v_chunk_id, m_heap, m_per_pg_chunks,
                 m_pg_chunks, gc_priority>>
  BY <1>1
<1> USE DEF IInv
<1>3. TypeOK'
  BY <1>1, SelectorAssumption DEF TypeOK
<1>4. /\ SlotsFilled' /\ OneSlot' /\ BackPointers' /\ PGOnOnePDev'
      /\ Pointers' /\ ReservedAreGC' /\ TasksMatch'
  <2>1. SlotsFilled' /\ OneSlot'
    BY <1>2 DEF SlotsFilled, OneSlot
  <2>2. BackPointers' /\ PGOnOnePDev'
    BY <1>2 DEF BackPointers, PGOnOnePDev
  <2>3. Pointers'
    BY <1>2 DEF Pointers, NullTogether, NameSlots, NamesSlot, OnePointer
  <2>4. ReservedAreGC' /\ TasksMatch'
    BY <1>2 DEF ReservedAreGC, ReservedChunk, TasksMatch
  <2> QED BY <2>1, <2>2, <2>3, <2>4
<1>5. \A c \in Chunks :
         available_blks'[c] = IF c \in ChunksOfPG(p) THEN TotalBlks
                                                     ELSE available_blks[c]
  BY <1>1
<1>6. HeapIsFresh'
  <2>1. m_heap \subseteq Chunks /\ HeapIsFresh
    BY DEF TypeOK
  <2> QED BY <1>1, <1>5, <2>1 DEF HeapIsFresh
<1>7. ResetClean'
  <2> SUFFICES ASSUME NEW q \in reset_pgs \cup {p}, NEW w \in VChunksOf(q)
               PROVE  /\ available_blks'[m_pg_chunks[q][w]] = TotalBlks
                      /\ gc_priority[q][w] = NULL
    BY <1>1 DEF ResetClean
  <2>1. m_pg_chunks[q][w] \in Chunks
    BY <1>1 DEF SlotsFilled, TypeOK
  <2>2. CASE q = p
    BY <1>1, <1>5, <2>1, <2>2 DEF ChunksOfPG
  <2>3. CASE q \in reset_pgs
    BY <1>5, <2>1, <2>3 DEF ResetClean
  <2> QED BY <2>2, <2>3
<1> QED BY <1>3, <1>4, <1>6, <1>7

\* A pg that was reset has no task, so each of its chunks carries its pg_id
\* and no other chunk does.
LEMMA ReturnPGIInv ==
    ASSUME IInv, NEW p \in PGs, ReturnPG(p)
    PROVE  IInv'
<1> DEFINE mine == ChunksOfPG(p)
<1>1. /\ p \in m_per_pg_chunks /\ p \in reset_pgs /\ p # NULL
      /\ mine \subseteq Chunks
  BY SelectorAssumption
     DEF ReturnPG, IInv, TypeOK, SlotsFilled, ChunksOfPG
<1>2. /\ m_state' = [c \in Chunks |-> IF c \in mine /\ m_state[c] = "INUSE"
                                        THEN "AVAILABLE" ELSE m_state[c]]
      /\ m_pg_id' = [c \in Chunks |-> IF c \in mine THEN NULL ELSE m_pg_id[c]]
      /\ m_v_chunk_id' =
             [c \in Chunks |-> IF c \in mine THEN NULL ELSE m_v_chunk_id[c]]
      /\ m_heap' = m_heap \cup mine
      /\ m_per_pg_chunks' = m_per_pg_chunks \ {p}
      /\ m_pg_chunks' = [m_pg_chunks EXCEPT ![p] = NoChunks]
      /\ available_num_chunks' = [available_num_chunks EXCEPT ![p] = 0]
      /\ available_blk_count' = [available_blk_count EXCEPT ![p] = 0]
      /\ reset_pgs' = reset_pgs \ {p}
      /\ UNCHANGED <<available_blks, gc_priority>>
  BY DEF ReturnPG, return_pg_chunks_to_dev_heap
<1>3. \A v \in VChunksOf(p) : /\ gc_priority[p][v] = NULL
                              /\ m_state[m_pg_chunks[p][v]] # "GC"
                              /\ available_blks[m_pg_chunks[p][v]] = TotalBlks
                              /\ m_pg_id[m_pg_chunks[p][v]] = p
  BY <1>1 DEF IInv, ResetClean, TasksMatch, BackPointers
<1>4. \A c \in mine : /\ m_state[c] # "GC" /\ m_pg_id[c] = p
                      /\ available_blks[c] = TotalBlks
  BY <1>3 DEF ChunksOfPG
<1>5. \A c \in Chunks : m_pg_id[c] = p => c \in mine
  BY <1>1, <1>3 DEF IInv, Pointers, NameSlots, NamesSlot, ChunksOfPG
<1>6. \A q \in m_per_pg_chunks' : /\ q \in m_per_pg_chunks /\ q \in PGs /\ q # p
                                  /\ m_pg_chunks'[q] = m_pg_chunks[q]
  BY <1>2 DEF IInv, TypeOK
<1>7. \A q \in m_per_pg_chunks' : \A w \in VChunksOf(q) :
         m_pg_chunks[q][w] \in Chunks /\ m_pg_chunks[q][w] \notin mine
  BY <1>1, <1>6 DEF IInv, OneSlot, SlotsFilled, ChunksOfPG
<1> HIDE DEF mine
<1> USE DEF IInv
<1>8. TypeOK'
  <2>1. NoChunks \in [VChunkIds -> Chunks \cup {NULL}]
    BY DEF NoChunks
  <2>2. m_state' \in [Chunks -> ChunkState]
    BY <1>2 DEF TypeOK, ChunkState
  <2> QED BY <1>1, <1>2, <2>1, <2>2 DEF TypeOK
<1>9. SlotsFilled'
  BY <1>2, <1>6, <1>7 DEF SlotsFilled, TypeOK
<1>10. OneSlot' /\ PGOnOnePDev'
  BY <1>6 DEF OneSlot, PGOnOnePDev
<1>11. BackPointers'
  <2> SUFFICES ASSUME NEW q \in m_per_pg_chunks', NEW w \in VChunksOf(q)
               PROVE  PointsBack(q, w)'
    BY DEF BackPointers, PointsBack
  <2>1. PointsBack(q, w)
    BY <1>6 DEF BackPointers, PointsBack
  <2>2. \A c \in Chunks : c \notin mine => /\ m_pg_id'[c] = m_pg_id[c]
                                           /\ m_v_chunk_id'[c] = m_v_chunk_id[c]
                                           /\ m_state'[c] = m_state[c]
    BY <1>2
  <2>3. \A c \in Chunks : m_pg_id[c] = q => c \notin mine
    BY <1>4, <1>6
  <2> QED BY <1>6, <1>7, <2>1, <2>2, <2>3 DEF PointsBack
<1>12. HeapIsFresh'
  BY <1>1, <1>2, <1>4 DEF HeapIsFresh, TypeOK, ChunkState
<1>13. Pointers'
  <2>1. \A c \in Chunks : m_pg_id'[c] # NULL =>
           /\ c \notin mine /\ m_pg_id[c] # p
           /\ m_pg_id'[c] = m_pg_id[c] /\ m_v_chunk_id'[c] = m_v_chunk_id[c]
           /\ m_state'[c] = m_state[c]
           /\ m_pg_id[c] \in m_per_pg_chunks'
           /\ m_v_chunk_id[c] \in VChunksOf(m_pg_id[c])
    BY <1>2, <1>5 DEF Pointers, NameSlots, NamesSlot
  <2>2. \A c \in Chunks : m_pg_id'[c] = NULL <=> m_v_chunk_id'[c] = NULL
    BY <1>2 DEF Pointers, NullTogether
  <2>3. \A c, d \in Chunks :
           m_pg_id'[c] # NULL /\ m_pg_id'[c] = m_pg_id'[d]
             /\ m_v_chunk_id'[c] = m_v_chunk_id'[d] => c = d
    BY <2>1 DEF Pointers, OnePointer
  <2>4. ASSUME NEW c \in Chunks, m_pg_id'[c] # NULL
        PROVE  LET d == m_pg_chunks'[m_pg_id'[c]][m_v_chunk_id'[c]]
               IN  /\ d = m_pg_chunks[m_pg_id[c]][m_v_chunk_id[c]]
                   /\ d \in Chunks /\ d \notin mine /\ m_pg_id'[d] = m_pg_id[d]
    <3> DEFINE q == m_pg_id[c]
               w == m_v_chunk_id[c]
    <3>1. /\ q \in m_per_pg_chunks' /\ w \in VChunksOf(q)
          /\ m_pg_id'[c] = q /\ m_v_chunk_id'[c] = w
      BY <2>1, <2>4
    <3> HIDE DEF q, w
    <3>2. /\ m_pg_chunks'[q][w] = m_pg_chunks[q][w]
          /\ m_pg_chunks[q][w] \in Chunks /\ m_pg_chunks[q][w] \notin mine
      BY <1>6, <1>7, <3>1
    <3>3. m_pg_id'[m_pg_chunks[q][w]] = m_pg_id[m_pg_chunks[q][w]]
      BY <1>2, <3>2
    <3> QED BY <3>1, <3>2, <3>3 DEF q, w
  <2>5. ASSUME NEW c \in Chunks, m_pg_id'[c] # NULL
        PROVE  NamesSlot(c)'
    <3>1. NamesSlot(c) /\ c \notin mine
      BY <2>1, <2>5 DEF Pointers, NameSlots
    <3>2. c \notin m_heap'
      BY <1>2, <3>1 DEF NamesSlot
    <3> QED BY <2>1, <2>4, <2>5, <3>1, <3>2 DEF NamesSlot
  <2>6. NullTogether' /\ OnePointer' /\ NameSlots'
    BY <2>2, <2>3, <2>5 DEF NullTogether, OnePointer, NameSlots
  <2> QED BY <2>6 DEF Pointers
<1>14. ReservedAreGC'
  BY <1>2 DEF ReservedAreGC, ReservedChunk
<1>15. TasksMatch'
  BY <1>2, <1>3, <1>6, <1>7 DEF TasksMatch
<1>16. ResetClean'
  BY <1>2, <1>6 DEF ResetClean, TypeOK
<1> QED BY <1>8, <1>9, <1>10, <1>11, <1>12, <1>13, <1>14, <1>15, <1>16

\* The chunks popped from a heap carry no pg_id, so no other pg has them.
LEMMA CreatePGIInv ==
    ASSUME IInv, NEW p \in PGs, NEW f \in [VChunkIds -> Chunks \cup {NULL}],
           CreatePG(p, f)
    PROVE  IInv'
<1> DEFINE got == {f[v] : v \in VChunksOf(p)}
           slot(c) == CHOOSE v \in VChunksOf(p) : f[v] = c
<1>1. /\ p \notin m_per_pg_chunks /\ p # NULL
      /\ m_per_pg_chunks' = m_per_pg_chunks \cup {p}
      /\ m_pg_chunks' = [m_pg_chunks EXCEPT ![p] = f]
      /\ m_heap' = m_heap \ got
      /\ m_pg_id' = [c \in Chunks |-> IF c \in got THEN p ELSE m_pg_id[c]]
      /\ m_v_chunk_id' =
             [c \in Chunks |-> IF c \in got THEN slot(c) ELSE m_v_chunk_id[c]]
      /\ available_num_chunks' =
             [available_num_chunks EXCEPT ![p] = num_chunk[p]]
      /\ DOMAIN available_blk_count' = DOMAIN available_blk_count
      /\ UNCHANGED <<m_state, available_blks, gc_priority, reset_pgs>>
  BY SelectorAssumption DEF CreatePG, select_chunks_for_pg
<1>2. PICK d \in PDevs : PopsFrom(d, p, f)
  BY DEF CreatePG, select_chunks_for_pg
<1>3. /\ \A v \in VChunksOf(p) : f[v] \in m_heap /\ pdev_id[f[v]] = d
      /\ \A v, w \in VChunksOf(p) : f[v] = f[w] => v = w
  BY <1>2 DEF PopsFrom, PDevHeap
<1>4. got \subseteq m_heap /\ got \subseteq Chunks
  BY <1>3 DEF IInv, TypeOK
<1>5. \A v \in VChunksOf(p) : f[v] \in got /\ slot(f[v]) = v
  BY <1>3
<1>6. \A c \in got : slot(c) \in VChunksOf(p) /\ f[slot(c)] = c
  BY <1>5
<1>7. \A q \in PGs : m_pg_chunks'[q] = IF q = p THEN f ELSE m_pg_chunks[q]
  BY <1>1 DEF IInv, TypeOK
<1>8. \A q \in m_per_pg_chunks : /\ q \in PGs /\ q # p
                                 /\ \A w \in VChunksOf(q) :
                                      /\ m_pg_chunks[q][w] \in Chunks
                                      /\ m_pg_chunks[q][w] \notin got
  BY <1>1, <1>4 DEF IInv, TypeOK, SlotsFilled
<1>9. \A c \in Chunks : c \notin got =>
         m_pg_id'[c] = m_pg_id[c] /\ m_v_chunk_id'[c] = m_v_chunk_id[c]
  BY <1>1
<1>10. \A c \in got : /\ m_pg_id'[c] = p /\ m_v_chunk_id'[c] = slot(c)
                      /\ m_pg_id[c] = NULL /\ m_state[c] = "AVAILABLE"
  BY <1>1, <1>4 DEF IInv, HeapIsFresh
<1>11. \A c \in Chunks : m_pg_id[c] # p
  BY <1>1 DEF IInv, Pointers, NameSlots, NamesSlot
<1> HIDE DEF got, slot
<1> USE DEF IInv
<1>12. TypeOK'
  <2>1. m_v_chunk_id' \in [Chunks -> VChunkIds \cup {NULL}]
    BY <1>1, <1>6, VChunkFacts DEF TypeOK
  <2>2. available_num_chunks' \in [PGs -> Int]
    <3>1. num_chunk[p] \in Int
      BY SelectorAssumption
    <3> QED BY <1>1, <3>1 DEF TypeOK
  <2> QED BY <1>1, <2>1, <2>2 DEF TypeOK
<1>13. SlotsFilled'
  BY <1>1, <1>4, <1>5, <1>7, <1>8 DEF SlotsFilled, TypeOK
<1>14. OneSlot'
  <2> SUFFICES ASSUME NEW q \in m_per_pg_chunks', NEW r \in m_per_pg_chunks',
                      NEW w \in VChunksOf(q), NEW x \in VChunksOf(r),
                      m_pg_chunks'[q][w] = m_pg_chunks'[r][x]
               PROVE  q = r /\ w = x
    BY DEF OneSlot
  <2>1. q \in m_per_pg_chunks \cup {p} /\ r \in m_per_pg_chunks \cup {p}
    BY <1>1
  <2>2. CASE q = p /\ r = p
    BY <1>3, <1>7, <2>2
  <2>3. CASE q = p /\ r # p
    BY <1>5, <1>7, <1>8, <2>1, <2>3
  <2>4. CASE q # p /\ r = p
    BY <1>5, <1>7, <1>8, <2>1, <2>4
  <2>5. CASE q # p /\ r # p
    <3>1. q \in m_per_pg_chunks /\ r \in m_per_pg_chunks
      BY <2>1, <2>5
    <3>2. m_pg_chunks[q][w] = m_pg_chunks[r][x]
      BY <1>7, <1>8, <3>1
    <3> QED BY <3>1, <3>2 DEF OneSlot
  <2> QED BY <2>2, <2>3, <2>4, <2>5
<1>15. PGOnOnePDev'
  <2> SUFFICES ASSUME NEW q \in m_per_pg_chunks',
                      NEW w \in VChunksOf(q), NEW x \in VChunksOf(q)
               PROVE  pdev_id[m_pg_chunks'[q][w]] = pdev_id[m_pg_chunks'[q][x]]
    BY DEF PGOnOnePDev
  <2>1. CASE q = p
    BY <1>3, <1>7, <2>1
  <2>2. CASE q # p
    <3>1. q \in m_per_pg_chunks /\ m_pg_chunks'[q] = m_pg_chunks[q]
      BY <1>1, <1>7, <1>8, <2>2
    <3> QED BY <3>1 DEF PGOnOnePDev
  <2> QED BY <2>1, <2>2
<1>16. BackPointers'
  <2> SUFFICES ASSUME NEW q \in m_per_pg_chunks', NEW w \in VChunksOf(q)
               PROVE  PointsBack(q, w)'
    BY DEF BackPointers, PointsBack
  <2>1. CASE q = p
    BY <1>5, <1>7, <1>10, <2>1 DEF PointsBack
  <2>2. CASE q # p
    <3>1. q \in m_per_pg_chunks
      BY <1>1, <2>2
    <3>2. PointsBack(q, w)
      BY <3>1 DEF BackPointers, PointsBack
    <3>3. \A c \in Chunks : m_pg_id[c] = q => c \notin got
      BY <1>8, <1>10, <3>1, SelectorAssumption
    <3>4. /\ m_pg_chunks'[q][w] = m_pg_chunks[q][w]
          /\ m_pg_chunks[q][w] \in Chunks /\ m_pg_chunks[q][w] \notin got
          /\ m_state' = m_state
      BY <1>1, <1>7, <1>8, <3>1
    <3>5. /\ m_pg_id'[m_pg_chunks[q][w]] = m_pg_id[m_pg_chunks[q][w]]
          /\ m_v_chunk_id'[m_pg_chunks[q][w]] = m_v_chunk_id[m_pg_chunks[q][w]]
      BY <1>9, <3>4
    <3>6. \A c \in Chunks : m_pg_id[c] = q =>
             m_pg_id'[c] = q /\ m_v_chunk_id'[c] = m_v_chunk_id[c]
      BY <1>9, <3>3
    <3> QED BY <3>2, <3>4, <3>5, <3>6 DEF PointsBack
  <2> QED BY <2>1, <2>2
<1>17. HeapIsFresh'
  BY <1>1, <1>9 DEF HeapIsFresh, TypeOK
<1>18. Pointers'
  <2>1. \A c \in Chunks : m_pg_id'[c] = NULL <=> m_v_chunk_id'[c] = NULL
    BY <1>1, <1>6, <1>9, <1>10, VChunkFacts DEF Pointers, NullTogether
  <2>2. \A c, e \in Chunks :
           m_pg_id'[c] # NULL /\ m_pg_id'[c] = m_pg_id'[e]
             /\ m_v_chunk_id'[c] = m_v_chunk_id'[e] => c = e
    BY <1>6, <1>9, <1>10, <1>11 DEF Pointers, OnePointer
  <2>3. ASSUME NEW c \in Chunks, m_pg_id'[c] # NULL
        PROVE  LET e == m_pg_chunks'[m_pg_id'[c]][m_v_chunk_id'[c]]
               IN  /\ c \notin m_heap'
                   /\ m_pg_id'[c] \in m_per_pg_chunks'
                   /\ m_v_chunk_id'[c] \in VChunksOf(m_pg_id'[c])
                   /\ pdev_id[e] = pdev_id[c]
                   /\ \/ e = c
                      \/ m_state'[c] = "GC" /\ m_pg_id'[e] = NULL
    <3>1. CASE c \in got
      BY <1>1, <1>6, <1>7, <1>10, <3>1
    <3>2. CASE c \notin got
      <4>1. /\ m_pg_id'[c] = m_pg_id[c] /\ m_v_chunk_id'[c] = m_v_chunk_id[c]
            /\ m_pg_id[c] \in m_per_pg_chunks
            /\ m_v_chunk_id[c] \in VChunksOf(m_pg_id[c])
        BY <1>9, <2>3, <3>2 DEF Pointers, NameSlots, NamesSlot
      <4>2. /\ m_pg_chunks'[m_pg_id[c]] = m_pg_chunks[m_pg_id[c]]
            /\ m_pg_chunks[m_pg_id[c]][m_v_chunk_id[c]] \in Chunks
            /\ m_pg_chunks[m_pg_id[c]][m_v_chunk_id[c]] \notin got
        BY <1>7, <1>8, <4>1
      <4>3. NamesSlot(c) /\ m_state' = m_state /\ m_heap' \subseteq m_heap
            /\ m_per_pg_chunks \subseteq m_per_pg_chunks'
        BY <1>1, <2>3, <4>1 DEF Pointers, NameSlots
      <4>4. LET e == m_pg_chunks[m_pg_id[c]][m_v_chunk_id[c]]
            IN  m_pg_id'[e] = m_pg_id[e]
        BY <1>9, <4>2
      <4> QED BY <4>1, <4>2, <4>3, <4>4 DEF NamesSlot
    <3> QED BY <3>1, <3>2
  <2> QED BY <2>1, <2>2, <2>3 DEF Pointers, NullTogether, NameSlots,
                                  NamesSlot, OnePointer
<1>19. ReservedAreGC'
  BY <1>1, <1>9, <1>10 DEF ReservedAreGC, ReservedChunk
<1>20. TasksMatch'
  <2> SUFFICES ASSUME NEW q \in PGs, NEW w \in VChunksOf(q)
               PROVE  IF q \in m_per_pg_chunks'
                        THEN m_state[m_pg_chunks'[q][w]] = "GC"
                               <=> gc_priority[q][w] # NULL
                        ELSE gc_priority[q][w] = NULL
    BY <1>1 DEF TasksMatch
  <2>1. CASE q = p
    <3>1. gc_priority[q][w] = NULL
      BY <1>1, <2>1 DEF TasksMatch
    <3>2. m_state[m_pg_chunks'[q][w]] = "AVAILABLE"
      BY <1>5, <1>7, <1>10, <2>1
    <3> QED BY <3>1, <3>2
  <2>2. CASE q # p
    BY <1>1, <1>7, <2>2 DEF TasksMatch
  <2> QED BY <2>1, <2>2
<1>21. ResetClean'
  BY <1>1, <1>7, <1>8 DEF ResetClean, TypeOK
<1> QED BY <1>12, <1>13, <1>14, <1>15, <1>16, <1>17, <1>18, <1>19, <1>20, <1>21
=============================================================================
