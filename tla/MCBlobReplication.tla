-------------------------- MODULE MCBlobReplication --------------------------
(***************************************************************************)
(* Instances of BlobReplication for TLC.                                   *)
(***************************************************************************)
EXTENDS BlobReplication, TLC

CONSTANTS n1, n2, r1, r2

MCNodes == {n1, n2}
MCReqs == {r1, r2}
MCSymmetry == Permutations(MCNodes) \cup Permutations(Reqs)
==============================================================================
