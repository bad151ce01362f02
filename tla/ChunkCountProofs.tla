-------------------------- MODULE ChunkCountProofs --------------------------
(***************************************************************************)
(* Proofs about the counting properties of ChunkOwnership, which rest on   *)
(* the inductive invariant of ChunkOwnershipProofs: a gc exchanges one     *)
(* reserved chunk for another on the same device, and the counter          *)
(* available_num_chunks never falls below the number of v_chunks that can  *)
(* still be taken from it.                                                 *)
(***************************************************************************)
EXTENDS ChunkOwnershipProofs

\* The reserved chunks of a device.
ReservedOn(d) == {c \in Chunks : ReservedChunk(c) /\ pdev_id[c] = d}

\* A subset of the chunks is finite.
LEMMA ReservedFinite ==
    ASSUME NEW d PROVE IsFiniteSet(ReservedOn(d))
BY SelectorAssumption, FS_Subset DEF ReservedOn

\* The gc that ends hands its reserved chunk to the pg and keeps the old one.
LEMMA FinishGCReserved ==
    ASSUME IInv, NEW from \in Chunks, NEW to \in Chunks, NEW p \in PGs,
           NEW v \in VChunkIds, FinishGC(from, to, p, v), NEW d \in PDevs
    PROVE  Cardinality(ReservedOn(d))' = Cardinality(ReservedOn(d))
<1>1. /\ p \in m_per_pg_chunks /\ v \in VChunksOf(p) /\ p # NULL
      /\ m_pg_id[from] = p /\ m_v_chunk_id[from] = v
      /\ m_pg_chunks[p][v] = to /\ m_pg_id[to] = NULL /\ from # to
      /\ from \notin m_heap /\ to \notin m_heap
      /\ pdev_id[from] = pdev_id[to]
  BY SelectorAssumption
     DEF FinishGC, HasVChunk, update_vchunk_info_after_gc_asserts, IInv,
         SlotsFilled, Pointers, NameSlots, NamesSlot
<1>2. m_heap' = m_heap /\ m_pg_id' = [m_pg_id EXCEPT ![to] = p, ![from] = NULL]
  BY DEF FinishGC, update_vchunk_info_after_gc
<1>3. CASE pdev_id[from] # d
  <2>1. ReservedOn(d)' = ReservedOn(d)
    BY <1>1, <1>2, <1>3 DEF ReservedOn, ReservedChunk, IInv, TypeOK
  <2> QED BY <2>1
<1>4. CASE pdev_id[from] = d
  <2>1. to \in ReservedOn(d) /\ from \notin ReservedOn(d)
    BY <1>1, <1>4 DEF ReservedOn, ReservedChunk
  <2>2. ReservedOn(d)' = (ReservedOn(d) \ {to}) \cup {from}
    BY <1>1, <1>2, <1>4 DEF ReservedOn, ReservedChunk, IInv, TypeOK
  <2> DEFINE R == ReservedOn(d)
  <2> HIDE DEF R
  <2>3. IsFiniteSet(R) /\ Cardinality(R) \in Nat /\ to \in R /\ from \notin R
    BY <2>1, ReservedFinite, FS_CardinalityType DEF R
  <2>4. IsFiniteSet(R \ {to}) /\ Cardinality(R \ {to}) = Cardinality(R) - 1
    BY <2>3, FS_RemoveElement
  <2>5. Cardinality((R \ {to}) \cup {from}) = Cardinality(R \ {to}) + 1
    BY <2>3, <2>4, FS_AddElement
  <2> QED BY <2>2, <2>3, <2>4, <2>5 DEF R
<1> QED BY <1>3, <1>4

\* Every other step leaves the set of reserved chunks as it is.
LEMMA NextReserved ==
    ASSUME IInv, [Next]_vars, NEW d \in PDevs
    PROVE  Cardinality(ReservedOn(d))' = Cardinality(ReservedOn(d))
<1>1. ASSUME NEW p \in PGs, NEW f \in [VChunkIds -> Chunks \cup {NULL}],
             CreatePG(p, f)
      PROVE  ReservedOn(d)' = ReservedOn(d)
  <2> DEFINE got == {f[v] : v \in VChunksOf(p)}
  <2>1. /\ m_heap' = m_heap \ got
        /\ m_pg_id' = [c \in Chunks |-> IF c \in got THEN p ELSE m_pg_id[c]]
        /\ got \subseteq m_heap
    BY <1>1 DEF CreatePG, select_chunks_for_pg, PopsFrom, PDevHeap
  <2> QED BY <2>1, SelectorAssumption DEF ReservedOn, ReservedChunk
<1>2. ASSUME NEW p \in PGs, ReturnPG(p)
      PROVE  ReservedOn(d)' = ReservedOn(d)
  <2>1. /\ m_heap' = m_heap \cup ChunksOfPG(p)
        /\ m_pg_id' = [c \in Chunks |-> IF c \in ChunksOfPG(p) THEN NULL
                                                               ELSE m_pg_id[c]]
    BY <1>2 DEF ReturnPG, return_pg_chunks_to_dev_heap
  <2>2. \A v \in VChunksOf(p) : m_pg_id[m_pg_chunks[p][v]] = p
    BY <1>2 DEF ReturnPG, IInv, TypeOK, ResetClean, TasksMatch, BackPointers
  <2>3. \A c \in ChunksOfPG(p) : m_pg_id[c] # NULL
    BY <2>2, SelectorAssumption DEF ChunksOfPG
  <2> QED BY <2>1, <2>3 DEF ReservedOn, ReservedChunk
<1>3. CASE UNCHANGED <<m_heap, m_pg_id>>
  <2>1. ReservedOn(d)' = ReservedOn(d)
    BY <1>3 DEF ReservedOn, ReservedChunk
  <2> QED BY <2>1
<1>4. ASSUME NEW p \in PGs, NEW v \in VChunkIds,
             \/ ProposeShard(p, v) \/ SelectChunk(p, v) \/ ReleaseChunk(p, v)
             \/ AllocBlk(p, v) \/ AbortGC(p, v)
      PROVE  UNCHANGED <<m_heap, m_pg_id>>
  BY <1>4 DEF ProposeShard, get_most_available_blk_chunk, SelectChunk,
              select_specific_chunk, ReleaseChunk, release_chunk, AllocBlk,
              AbortGC, mark_chunk_out_of_gc_state
<1>5. ASSUME NEW p \in PGs, NEW c \in Chunks, NEW e \in Chunks,
             SwitchChunks(p, c, e)
      PROVE  UNCHANGED <<m_heap, m_pg_id>>
  BY <1>5 DEF SwitchChunks, switch_chunks_for_pg, chunkVars
<1>6. ASSUME NEW p \in PGs, ResetPG(p)
      PROVE  UNCHANGED <<m_heap, m_pg_id>>
  BY <1>6 DEF ResetPG, reset_pg_chunks
<1>7. ASSUME NEW c \in Chunks,
             \/ \E priority \in Priority : MarkToGC(c, priority)
             \/ \E n \in 0 .. TotalBlks : FillReserved(c, n)
      PROVE  UNCHANGED <<m_heap, m_pg_id>>
  BY <1>7 DEF MarkToGC, try_mark_chunk_to_gc_state, FillReserved
<1>8. ASSUME NEW excluding \in [PGs -> SUBSET VChunkIds], Restart(excluding)
      PROVE  UNCHANGED <<m_heap, m_pg_id>>
  BY <1>8, RestartKeeps
<1>9. CASE UNCHANGED vars
  BY <1>3, <1>9 DEF vars
<1> QED
  BY <1>1, <1>2, <1>3, <1>4, <1>5, <1>6, <1>7, <1>8, <1>9, FinishGCReserved
     DEF Next

\* Every gc task gives back a reserved chunk for the one it takes, on the
\* device it took it from, so a device never runs out of reserved chunks.
THEOREM ReservedKept == Spec => []ReservedConserved
<1> DEFINE R == \A d \in PDevs :
                   Cardinality(ReservedOn(d))
                     = Cardinality({c \in Reserved : pdev_id[c] = d})
<1>1. Init => R
  <2>1. ASSUME Init, NEW d \in PDevs
        PROVE  ReservedOn(d) = {c \in Reserved : pdev_id[c] = d}
    BY <2>1, SelectorAssumption DEF Init, ReservedOn, ReservedChunk
  <2> QED BY <2>1
<1>2. IInv /\ [Next]_vars /\ R => R'
  BY NextReserved
<1>3. R <=> ReservedConserved
  BY DEF ReservedConserved, ReservedOn
<1> HIDE DEF R
<1> QED BY <1>1, <1>2, <1>3, Inductive, PTL DEF Spec

-----------------------------------------------------------------------------
\* A pg has num_chunk v_chunks.
LEMMA VChunksFinite ==
    ASSUME NEW p \in PGs
    PROVE  IsFiniteSet(VChunksOf(p)) /\ Cardinality(VChunksOf(p)) = num_chunk[p]
<1>1. num_chunk[p] \in Int /\ num_chunk[p] > 0
  BY SelectorAssumption
<1> DEFINE n == num_chunk[p] - 1
<1>2. n \in Int /\ ~(0 > n) /\ n - 0 + 1 = num_chunk[p]
  BY <1>1
<1>3. VChunksOf(p) = 0 .. n
  BY DEF VChunksOf
<1> HIDE DEF n
<1>4. IsFiniteSet(0 .. n) /\ Cardinality(0 .. n) = n - 0 + 1
  BY <1>2, FS_Interval
<1> QED BY <1>2, <1>3, <1>4

\* Counted(p) is finite, at most the v_chunks of the pg.
LEMMA CountedFinite ==
    ASSUME NEW p \in PGs
    PROVE  /\ IsFiniteSet(Counted(p)) /\ Cardinality(Counted(p)) \in Nat
           /\ Cardinality(Counted(p)) <= num_chunk[p]
<1>1. Counted(p) \in SUBSET VChunksOf(p)
  BY DEF Counted
<1> QED BY <1>1, VChunksFinite, FS_Subset, FS_CardinalityType

\* The v_chunks counted get fewer and the counter of no pg falls.
LEMMA CountedShrinks ==
    ASSUME IInv, NumChunksCovered,
           available_num_chunks' = available_num_chunks,
           \A p \in m_per_pg_chunks' : /\ p \in m_per_pg_chunks
                                       /\ Counted(p)' \subseteq Counted(p)
    PROVE  NumChunksCovered'
<1> SUFFICES ASSUME NEW p \in m_per_pg_chunks'
             PROVE  Cardinality(Counted(p)') <= available_num_chunks[p]
  BY DEF NumChunksCovered
<1>1. p \in m_per_pg_chunks /\ p \in PGs /\ available_num_chunks[p] \in Int
  BY DEF IInv, TypeOK
<1> DEFINE C == Counted(p)
           D == Counted(p)'
<1>2. IsFiniteSet(C) /\ Cardinality(C) \in Nat /\ D \in SUBSET C
  BY <1>1, CountedFinite
<1>3. Cardinality(C) <= available_num_chunks[p]
  BY <1>1 DEF NumChunksCovered
<1> HIDE DEF C, D
<1>4. Cardinality(D) <= Cardinality(C) /\ Cardinality(D) \in Nat
  BY <1>2, FS_Subset, FS_CardinalityType
<1> QED BY <1>1, <1>2, <1>3, <1>4 DEF D

\* Taking a chunk: one v_chunk fewer is counted, by the set and the counter.
LEMMA TakeCovered ==
    ASSUME IInv, NumChunksCovered,
           NEW p \in m_per_pg_chunks, NEW v \in VChunksOf(p),
           is_chunk_available(p, v), TakeChunk(p, v),
           UNCHANGED <<m_per_pg_chunks, m_pg_chunks, gc_priority>>
    PROVE  NumChunksCovered'
<1> DEFINE c == m_pg_chunks[p][v]
<1>1. /\ p \in PGs /\ c \in Chunks /\ m_state[c] = "AVAILABLE"
      /\ gc_priority[p][v] = NULL
      /\ m_state' = [m_state EXCEPT ![c] = "INUSE"]
      /\ available_num_chunks' = [available_num_chunks EXCEPT ![p] = @ - 1]
  BY DEF TakeChunk, is_chunk_available, get_pg_vchunk, IInv, TypeOK, SlotsFilled,
         TasksMatch
<1>2. \A q \in m_per_pg_chunks : \A w \in VChunksOf(q) :
         /\ m_pg_chunks[q][w] \in Chunks
         /\ m_pg_chunks[q][w] = c => q = p /\ w = v
  BY DEF IInv, OneSlot, SlotsFilled, TypeOK
<1> SUFFICES ASSUME NEW q \in m_per_pg_chunks
             PROVE  Cardinality(Counted(q)') <= available_num_chunks'[q]
  BY DEF NumChunksCovered
<1>3. /\ q \in PGs /\ available_num_chunks[q] \in Int
      /\ Cardinality(Counted(q)) <= available_num_chunks[q]
      /\ available_num_chunks'[q] =
           available_num_chunks[q] - (IF q = p THEN 1 ELSE 0)
  BY <1>1 DEF IInv, TypeOK, NumChunksCovered
<1>4. CASE q # p
  <2>1. Counted(q)' = Counted(q)
    BY <1>1, <1>2, <1>4 DEF Counted, IInv, TypeOK
  <2> QED BY <1>3, <1>4, <2>1
<1>5. CASE q = p
  <2>1. v \in Counted(p) /\ Counted(p)' = Counted(p) \ {v}
    BY <1>1, <1>2, PriorityAssumption DEF Counted, IInv, TypeOK, Priority
  <2>2. Cardinality(Counted(p) \ {v}) = Cardinality(Counted(p)) - 1
    BY <1>1, <2>1, CountedFinite, FS_RemoveElement
  <2>3. Cardinality(Counted(p)) \in Nat
    BY <1>1, CountedFinite
  <2> QED BY <1>3, <1>5, <2>1, <2>2, <2>3
<1> QED BY <1>4, <1>5

\* Releasing a chunk: the counter grows by one, the set by at most one.
LEMMA ReleaseCovered ==
    ASSUME IInv, NumChunksCovered, NEW p \in PGs, NEW v \in VChunkIds,
           ReleaseChunk(p, v)
    PROVE  NumChunksCovered'
<1> DEFINE c == m_pg_chunks[p][v]
<1>1. /\ p \in m_per_pg_chunks /\ v \in VChunksOf(p) /\ c \in Chunks
      /\ UNCHANGED <<m_per_pg_chunks, m_pg_chunks, gc_priority>>
  BY DEF ReleaseChunk, release_chunk, HasVChunk, IInv, SlotsFilled
<1>2. CASE m_state[c] # "INUSE"
  <2>1. UNCHANGED <<m_state, available_num_chunks>>
    BY <1>2 DEF ReleaseChunk, release_chunk, get_pg_vchunk
  <2> QED BY <1>1, <2>1 DEF NumChunksCovered, Counted
<1>3. CASE m_state[c] = "INUSE"
  <2>1. /\ m_state' = [m_state EXCEPT ![c] = "AVAILABLE"]
        /\ available_num_chunks' = [available_num_chunks EXCEPT ![p] = @ + 1]
    BY <1>3 DEF ReleaseChunk, release_chunk, get_pg_vchunk
  <2>2. \A q \in m_per_pg_chunks : \A w \in VChunksOf(q) :
           /\ m_pg_chunks[q][w] \in Chunks
           /\ m_pg_chunks[q][w] = c => q = p /\ w = v
    BY <1>1 DEF IInv, OneSlot, SlotsFilled, TypeOK
  <2> SUFFICES ASSUME NEW q \in m_per_pg_chunks
               PROVE  Cardinality(Counted(q)') <= available_num_chunks'[q]
    BY <1>1 DEF NumChunksCovered
  <2>3. /\ q \in PGs /\ available_num_chunks[q] \in Int
        /\ Cardinality(Counted(q)) <= available_num_chunks[q]
        /\ available_num_chunks'[q] =
             available_num_chunks[q] + (IF q = p THEN 1 ELSE 0)
    BY <2>1 DEF IInv, TypeOK, NumChunksCovered
  <2>4. CASE q # p
    <3>1. Counted(q)' = Counted(q)
      BY <1>1, <2>1, <2>2, <2>4 DEF Counted, IInv, TypeOK
    <3> QED BY <2>3, <2>4, <3>1
  <2>5. CASE q = p
    <3>1. Counted(p)' = Counted(p) \cup {v}
      BY <1>1, <2>1, <2>2 DEF Counted, IInv, TypeOK
    <3>2. IsFiniteSet(Counted(p)) /\ Cardinality(Counted(p)) \in Nat
      BY CountedFinite
    <3>3. Cardinality(Counted(p) \cup {v}) =
            IF v \in Counted(p) THEN Cardinality(Counted(p))
                                ELSE Cardinality(Counted(p)) + 1
      BY <3>2, FS_AddElement
    <3> QED BY <2>3, <2>5, <3>1, <3>2, <3>3
  <2> QED BY <2>4, <2>5
<1> QED BY <1>2, <1>3

\* The gc never adds a v_chunk to those counted: a normal gc leaves its
\* v_chunk in, an emergent one leaves it out or takes it out.
LEMMA GCCovered ==
    ASSUME IInv, NumChunksCovered,
           \/ \E c \in Chunks, priority \in Priority : MarkToGC(c, priority)
           \/ \E p \in PGs, c, d \in Chunks : SwitchChunks(p, c, d)
           \/ \E p \in PGs, c, d \in Chunks, v \in VChunkIds :
                 FinishGC(c, d, p, v)
           \/ \E p \in PGs, v \in VChunkIds : AbortGC(p, v)
    PROVE  NumChunksCovered'
<1>0. \A q \in m_per_pg_chunks : q \in PGs /\ \A w \in VChunksOf(q) :
         w \in VChunkIds /\ m_pg_chunks[q][w] \in Chunks
  BY VChunkFacts DEF IInv, SlotsFilled, TypeOK
<1>1. ASSUME NEW c \in Chunks, NEW priority \in Priority, MarkToGC(c, priority)
      PROVE  NumChunksCovered'
  <2> DEFINE p == m_pg_id[c]
             v == m_v_chunk_id[c]
  <2>1. /\ p \in m_per_pg_chunks /\ p \in PGs /\ v \in VChunksOf(p)
        /\ m_state[c] # "GC" /\ m_pg_chunks[p][v] = c
        /\ m_state[c] = "INUSE" => priority = "emergent"
    BY <1>1 DEF MarkToGC, Live, can_mark_to_gc, IInv, TypeOK, Pointers,
           NameSlots, NamesSlot
  <2>2. /\ m_state' = [m_state EXCEPT ![c] = "GC"]
        /\ gc_priority' = [gc_priority EXCEPT ![p][v] = priority]
        /\ UNCHANGED <<m_per_pg_chunks, m_pg_chunks, available_num_chunks>>
    BY <1>1 DEF MarkToGC, try_mark_chunk_to_gc_state, pgVars
  <2>3. m_state[c] = "AVAILABLE" \/ priority = "emergent"
    BY <2>1 DEF IInv, TypeOK, ChunkState
  <2>4. \A q \in m_per_pg_chunks : \A w \in VChunksOf(q) :
           /\ m_state'[m_pg_chunks[q][w]] = "AVAILABLE" =>
                m_state[m_pg_chunks[q][w]] = "AVAILABLE"
           /\ gc_priority'[q][w] = "normal" =>
                gc_priority[q][w] = "normal" \/ m_state[m_pg_chunks[q][w]] = "AVAILABLE"
    BY <1>0, <2>1, <2>2, <2>3 DEF IInv, TypeOK
  <2> QED BY <2>2, <2>4, CountedShrinks DEF Counted
<1>2. ASSUME NEW p \in PGs, NEW old \in Chunks, NEW new \in Chunks,
             SwitchChunks(p, old, new)
      PROVE  NumChunksCovered'
  <2> DEFINE v == m_v_chunk_id[old]
  <2>1. /\ m_state[new] = "GC"
        /\ \/ m_pg_chunks' = m_pg_chunks
           \/ m_pg_chunks' = [m_pg_chunks EXCEPT ![p][v] = new]
        /\ UNCHANGED <<m_state, m_per_pg_chunks, available_num_chunks,
                       gc_priority>>
    BY <1>2 DEF SwitchChunks, switch_chunks_for_pg, chunkVars
  <2>2. \A q \in m_per_pg_chunks : \A w \in VChunksOf(q) :
           m_state[m_pg_chunks'[q][w]] = "AVAILABLE" =>
              m_state[m_pg_chunks[q][w]] = "AVAILABLE"
    <3>1. \A q \in m_per_pg_chunks : \A w \in VChunksOf(q) :
             m_pg_chunks'[q][w] = m_pg_chunks[q][w] \/ m_pg_chunks'[q][w] = new
      BY <1>0, <2>1 DEF IInv, TypeOK
    <3> QED BY <2>1, <3>1
  <2> QED BY <2>1, <2>2, CountedShrinks DEF Counted
<1>3. ASSUME NEW p \in PGs, NEW v \in VChunksOf(p), p \in m_per_pg_chunks,
             m_state[m_pg_chunks[p][v]] = "GC",
             m_state' = [m_state EXCEPT ![m_pg_chunks[p][v]] =
                                            final_state(gc_priority[p][v])],
             gc_priority' = [gc_priority EXCEPT ![p][v] = NULL],
             UNCHANGED <<m_per_pg_chunks, m_pg_chunks, available_num_chunks>>
      PROVE  NumChunksCovered'
  <2>1. \A q \in m_per_pg_chunks : \A w \in VChunksOf(q) :
           m_pg_chunks[q][w] = m_pg_chunks[p][v] => q = p /\ w = v
    BY <1>3 DEF IInv, OneSlot
  <2>2. \A q \in m_per_pg_chunks : \A w \in VChunksOf(q) :
           /\ m_state'[m_pg_chunks[q][w]] = "AVAILABLE" =>
                \/ m_state[m_pg_chunks[q][w]] = "AVAILABLE"
                \/ gc_priority[q][w] = "normal"
           /\ gc_priority'[q][w] = "normal" => gc_priority[q][w] = "normal"
    BY <1>0, <1>3, <2>1, PriorityAssumption
       DEF IInv, TypeOK, final_state, Priority
  <2> QED BY <1>3, <2>2, CountedShrinks DEF Counted
<1>4. ASSUME NEW p \in PGs, NEW c \in Chunks, NEW d \in Chunks,
             NEW v \in VChunkIds, FinishGC(c, d, p, v)
      PROVE  NumChunksCovered'
  BY <1>3, <1>4 DEF FinishGC, HasVChunk, update_vchunk_info_after_gc_asserts,
                    update_vchunk_info_after_gc, pgVars
<1>5. ASSUME NEW p \in PGs, NEW v \in VChunkIds, AbortGC(p, v)
      PROVE  NumChunksCovered'
  BY <1>3, <1>5 DEF AbortGC, HasVChunk, get_pg_vchunk,
                    mark_chunk_out_of_gc_state_asserts,
                    mark_chunk_out_of_gc_state, pgVars
<1> QED BY <1>1, <1>2, <1>4, <1>5

\* A pg starts with all its v_chunks counted.
LEMMA CreatePGCovered ==
    ASSUME IInv, NumChunksCovered, NEW p \in PGs,
           NEW f \in [VChunkIds -> Chunks \cup {NULL}], CreatePG(p, f)
    PROVE  NumChunksCovered'
<1>1. /\ p \notin m_per_pg_chunks
      /\ m_per_pg_chunks' = m_per_pg_chunks \cup {p}
      /\ m_pg_chunks' = [m_pg_chunks EXCEPT ![p] = f]
      /\ available_num_chunks' = [available_num_chunks EXCEPT ![p] = num_chunk[p]]
      /\ UNCHANGED <<m_state, gc_priority>>
  BY DEF CreatePG, select_chunks_for_pg
<1>2. ASSUME NEW q \in m_per_pg_chunks
      PROVE  Counted(q)' = Counted(q)
                /\ available_num_chunks'[q] = available_num_chunks[q]
  BY <1>1 DEF IInv, TypeOK, Counted
<1>3. Cardinality(Counted(p)') <= available_num_chunks'[p]
  <2>1. Counted(p)' \in SUBSET VChunksOf(p)
    BY DEF Counted
  <2>2. Cardinality(Counted(p)') <= num_chunk[p]
    BY <2>1, VChunksFinite, FS_Subset
  <2> QED BY <1>1, <2>2 DEF IInv, TypeOK
<1> QED BY <1>1, <1>2, <1>3 DEF NumChunksCovered

\* A restart counts exactly the v_chunks without an open shard.
LEMMA RestartCovered ==
    ASSUME IInv, NEW excluding \in [PGs -> SUBSET VChunkIds], Restart(excluding)
    PROVE  NumChunksCovered'
<1> SUFFICES ASSUME NEW p \in m_per_pg_chunks
             PROVE  Cardinality(Counted(p)') <= available_num_chunks'[p]
  BY RestartKeeps DEF NumChunksCovered
<1>1. p \in PGs
  BY DEF IInv, TypeOK
<1>2. /\ m_pg_chunks' = m_pg_chunks
      /\ gc_priority' = NoTask
      /\ \A v \in VChunksOf(p) :
           m_state'[m_pg_chunks[p][v]] =
              IF v \in excluding[p] THEN "INUSE" ELSE "AVAILABLE"
  BY RestartKeeps
<1>3. available_num_chunks'[p] = Cardinality(VChunksOf(p) \ excluding[p])
  BY <1>1, RestartKeeps
<1>4. \A v \in VChunksOf(p) : gc_priority'[p][v] = NULL
  BY <1>1, <1>2, VChunkFacts DEF NoTask
<1>5. Counted(p)' = VChunksOf(p) \ excluding[p]
  BY <1>2, <1>4, PriorityAssumption DEF Counted, Priority
<1>6. Cardinality(VChunksOf(p) \ excluding[p]) \in Nat
  BY <1>1, VChunksFinite, FS_Subset, FS_CardinalityType
<1> QED BY <1>3, <1>5, <1>6

\* Every step keeps the counter of every pg at or above the v_chunks counted.
LEMMA NextCovered == IInv /\ NumChunksCovered /\ [Next]_vars => NumChunksCovered'
<1> SUFFICES ASSUME IInv, NumChunksCovered, [Next]_vars PROVE NumChunksCovered'
  OBVIOUS
<1>1. CASE /\ m_per_pg_chunks' \subseteq m_per_pg_chunks
           /\ UNCHANGED <<m_state, gc_priority, m_pg_chunks,
                          available_num_chunks>>
  BY <1>1, CountedShrinks DEF Counted
<1>2. ASSUME NEW p \in PGs, NEW v \in VChunkIds,
             ProposeShard(p, v) \/ SelectChunk(p, v)
      PROVE  NumChunksCovered'
  <2>1. /\ p \in m_per_pg_chunks /\ v \in VChunksOf(p)
        /\ UNCHANGED <<m_per_pg_chunks, m_pg_chunks, gc_priority>>
    BY <1>2 DEF ProposeShard, get_most_available_blk_chunk, MostAvailable,
                SelectChunk, select_specific_chunk, HasVChunk
  <2>2. \/ is_chunk_available(p, v) /\ TakeChunk(p, v)
        \/ UNCHANGED <<m_state, available_num_chunks>>
    BY <1>2 DEF ProposeShard, get_most_available_blk_chunk, MostAvailable,
                SelectChunk, select_specific_chunk
  <2> QED BY <1>1, <2>1, <2>2, TakeCovered
<1>3. ASSUME NEW p \in PGs, NEW v \in VChunkIds, AllocBlk(p, v)
      PROVE  NumChunksCovered'
  BY <1>1, <1>3 DEF AllocBlk, pgVars
<1>4. ASSUME NEW c \in Chunks, NEW n \in 0 .. TotalBlks, FillReserved(c, n)
      PROVE  NumChunksCovered'
  BY <1>1, <1>4 DEF FillReserved, pgVars
<1>5. ASSUME NEW p \in PGs, ResetPG(p)
      PROVE  NumChunksCovered'
  BY <1>1, <1>5 DEF ResetPG, reset_pg_chunks
<1>6. ASSUME NEW p \in PGs, ReturnPG(p)
      PROVE  NumChunksCovered'
  <2>1. /\ m_per_pg_chunks' = m_per_pg_chunks \ {p}
        /\ m_pg_chunks' = [m_pg_chunks EXCEPT ![p] = NoChunks]
        /\ m_state' = [c \in Chunks |->
                          IF c \in ChunksOfPG(p) /\ m_state[c] = "INUSE"
                            THEN "AVAILABLE" ELSE m_state[c]]
        /\ available_num_chunks' = [available_num_chunks EXCEPT ![p] = 0]
        /\ UNCHANGED gc_priority
        /\ p \in m_per_pg_chunks
    BY <1>6 DEF ReturnPG, return_pg_chunks_to_dev_heap
  <2>2. ASSUME NEW q \in m_per_pg_chunks'
        PROVE  Counted(q)' = Counted(q)
    <3>1. q \in m_per_pg_chunks /\ q # p /\ q \in PGs /\ m_pg_chunks'[q] = m_pg_chunks[q]
      BY <2>1, <2>2 DEF IInv, TypeOK
    <3>2. \A w \in VChunksOf(q) : /\ m_pg_chunks[q][w] \in Chunks
                                  /\ m_pg_chunks[q][w] \notin ChunksOfPG(p)
      BY <2>1, <3>1 DEF IInv, OneSlot, SlotsFilled, ChunksOfPG
    <3> QED BY <2>1, <3>1, <3>2 DEF Counted
  <2>3. \A q \in m_per_pg_chunks' : /\ q \in m_per_pg_chunks
                                    /\ available_num_chunks'[q] = available_num_chunks[q]
    BY <2>1 DEF IInv, TypeOK
  <2> QED BY <2>2, <2>3 DEF NumChunksCovered
<1>7. CASE UNCHANGED vars
  BY <1>1, <1>7 DEF vars
<1> QED
  BY <1>2, <1>3, <1>4, <1>5, <1>6, <1>7, ReleaseCovered, GCCovered,
     CreatePGCovered, RestartCovered
     DEF Next

\* available_num_chunks of a pg never falls below the number of v_chunks that
\* can be taken from it: the unsigned counter does not wrap.
THEOREM NumChunksNeverShort == Spec => []NumChunksCovered
<1>1. Init => NumChunksCovered
  BY DEF Init, NumChunksCovered
<1>2. IInv /\ NumChunksCovered /\ [Next]_vars => NumChunksCovered'
  BY NextCovered
<1> QED BY <1>1, <1>2, Inductive, PTL DEF Spec

=============================================================================
