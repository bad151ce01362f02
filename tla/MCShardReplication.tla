-------------------------- MODULE MCShardReplication --------------------------
(***************************************************************************)
(* Instances of ShardReplication for TLC.                                  *)
(***************************************************************************)
EXTENDS ShardReplication, TLC

CONSTANTS n1, n2, r1, r2, r3

MCNodes == {n1, n2}
MCReqs == {r1, r2, r3}
MCVChunks == {0}
MCSymmetry == Permutations(MCNodes) \cup Permutations(Reqs)
==============================================================================
