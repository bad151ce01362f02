---------------------------- MODULE MCPGLifecycle ----------------------------
(***************************************************************************)
(* Instances of PGLifecycle for TLC.                                       *)
(***************************************************************************)
EXTENDS PGLifecycle, TLC

CONSTANTS p1, p2, g1, g2, c1

MCPGs == {p1, p2}
MCGroups == {g1, g2}
MCChunks == {c1}

\* Two operations on one PG at a time are noted and not followed further; of the
\* states that differ in the names of PGs and groups only, one is followed.
Explored ==
    /\ hard = {}
    /\ pg_of[g1] \in {p1, NULL}
    /\ pg_of[g2] # NULL => pg_of[g1] # NULL
=============================================================================
