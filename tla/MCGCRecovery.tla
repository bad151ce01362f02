---------------------------- MODULE MCGCRecovery ----------------------------
(***************************************************************************)
(* GCRecovery with the chunk c1 of pg1 and the reserved chunks r1 and      *)
(* r2.  Shard s1 is sealed and holds b1, shard s2 is open and gets b2.     *)
(***************************************************************************)
EXTENDS GCRecovery, TLC

CONSTANTS c1, r1, r2, d1, pg1, s1, s2, b1, b2

MCChunks == {c1, r1, r2}
MCpdev_id == [k \in Chunks |-> d1]
MCPGs == {pg1}
MCnum_chunk == [p \in MCPGs |-> 1]
MCReserved == {r1, r2}
MCBlobs == {b1, b2}
MCShards == {s1, s2}
MCshard_of == [b \in MCBlobs |-> IF b = b1 THEN s1 ELSE s2]
MCOldBlobs == {b1}
MCOldShards == {s1}

\* The reserved chunks start out alike.
ReservedSymmetry == Permutations({r1, r2})

=============================================================================
