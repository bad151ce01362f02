------------------------- MODULE MCChunkOwnership -------------------------
(***************************************************************************)
(* ChunkOwnership on two devices: c1, c2 and the reserved chunk r on the   *)
(* first, c3 on the second.  A pg of two v_chunks fits only the first, a   *)
(* pg of one v_chunk fits both.                                            *)
(***************************************************************************)
EXTENDS ChunkOwnership, TLC

CONSTANTS c1, c2, c3, r, d1, d2, pg1, pg2

MCChunks == {c1, c2, c3, r}
MCPDevs == {d1, d2}
MCpdev_id == [c \in MCChunks |-> IF c = c3 THEN d2 ELSE d1]
MCPGs == {pg1, pg2}
MCnum_chunk == [p \in MCPGs |-> IF p = pg1 THEN 2 ELSE 1]
MCReserved == {r}

\* c1 and c2 start out alike and no definition orders the chunks.
ChunkSymmetry == Permutations({c1, c2})

\* Emergent gc lets the counters of a pg drift upwards without end.  The bound
\* still lets them drift while part of the pg is in use.
CountBound ==
    \A p \in PGs : /\ available_num_chunks[p] <= num_chunk[p]
                   /\ available_blk_count[p] <= num_chunk[p] * TotalBlks

=============================================================================
