---------------------------- MODULE MCGCManager ----------------------------
(***************************************************************************)
(* GCManager with one pg on one device, two reserved chunks, one thread    *)
(* for normal and one for emergent gc.                                     *)
(***************************************************************************)
EXTENDS GCManager, TLC

CONSTANTS c1, c2, r1, r2, d1, pg1

MCPGs == {pg1}
MCPDevs == {d1}
MCReserved == {r1, r2}
MCpdev_id == [c \in Chunks |-> d1]

\* The pg has two v_chunks, or, to check liveness, one.
MCChunks == {c1, c2, r1, r2}
LiveChunks == {c1, r1, r2}
MCnum_chunk == [p \in PGs |-> Cardinality(Chunks \ Reserved)]

\* Chunks, reserved chunks and tasks start out alike and nothing orders them.
GCSymmetry == Permutations({c1, c2}) \cup Permutations({r1, r2})
                \cup Permutations(Tasks)

=============================================================================
