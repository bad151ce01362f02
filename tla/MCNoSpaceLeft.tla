---------------------------- MODULE MCNoSpaceLeft ----------------------------
(***************************************************************************)
(* Instances of NoSpaceLeft for TLC.                                       *)
(***************************************************************************)
EXTENDS NoSpaceLeft, TLC

CONSTANTS n1, n2, c1, c2

MCNodes == {n1, n2}
MCChunks == {c1, c2}

\* Nothing is claimed once a leader is elected while a replica waits; and of two
\* full chunks, a failed collection, a restart and an election at most three
\* come together.
Explored == ~stale /\ fills + gcfails + crashes + elections <= 3
==============================================================================
