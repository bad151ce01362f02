----------------------------- MODULE NoSpaceLeft -----------------------------
(***************************************************************************)
(* A replica that has no space for an entry of the log.  It remembers the  *)
(* error, applies everything below the entry, and then stops taking        *)
(* requests while an emergent garbage collection makes room                *)
(* (ReplicationStateMachine's no_space_left_error_info).                   *)
(*                                                                         *)
(* An entry that writes (a put, or the create or the seal of a shard) is   *)
(* known by the chunk it writes to.  Which chunks are full on a replica is *)
(* full[n]; only an emergent garbage collection makes room in the chunk of *)
(* an open shard.                                                          *)
(***************************************************************************)
EXTENDS ReplLog

CONSTANTS
    Chunks,     \* the chunks that are written to
    MaxFull,    \* bound: how often a chunk runs full
    MaxGCFail   \* bound: emergent garbage collections that fail

ASSUME NoSpaceAssumption == {MaxFull, MaxGCFail} \subseteq Nat /\ NULL \notin Chunks

VARIABLES
    node,     \* per replica: its no_space_left_error_info, and the chunk it is
              \* collecting while it refuses requests
    full,     \* per replica: the chunks that are full
    fills,    \* how often a chunk ran full
    gcfails,  \* how many emergent garbage collections failed
    ok,       \* did the assertions of the handlers hold
    stale     \* was a leader elected while a replica waited

ownVars == <<node, full, fills, gcfails, ok, stale>>
vars == <<replVars, ownVars>>

\* The largest lsn stands for int64_max: no error is pending.
MaxLsn == MaxLog + 1

Entries ==
    [type : {"DATA"}, chunk : Chunks, no : 0 .. MaxElect]
        \cup [type : {"CONFIG"}, by : Nodes, no : 1 .. MaxElect]

\* Every variable holds a value of its kind; in particular a replica waits for
\* an lsn of its log.
TypeOK ==
    /\ log \in [Nodes -> Seq(Entries)] /\ chosen \in Seq(Entries) /\ leader \in Nodes \cup {NULL}
    /\ commit_lsn \in [Nodes -> 0 .. MaxLog] /\ dc_lsn \in [Nodes -> 0 .. MaxLog]
    /\ node \in [Nodes -> [wait_commit_lsn : 0 .. MaxLsn, chunk_id : Chunks \cup {NULL},
                           quiesced : Chunks \cup {NULL}]]
    /\ full \in [Nodes -> SUBSET Chunks]
    /\ fills \in 0 .. MaxFull /\ gcfails \in 0 .. MaxGCFail
    /\ {ok, stale} \subseteq BOOLEAN

Clean == [wait_commit_lsn |-> MaxLsn, chunk_id |-> NULL, quiesced |-> NULL]

Init ==
    /\ ReplInit
    /\ node = [n \in Nodes |-> Clean]
    /\ full = [n \in Nodes |-> {}]
    /\ fills = 0
    /\ gcfails = 0
    /\ ok = TRUE
    /\ stale = FALSE

-------------------------------------------------------------------------------
set_no_space_left_error_info(h, lsn, c) == [h EXCEPT !.wait_commit_lsn = lsn, !.chunk_id = c]

reset_no_space_left_error_info(h) == [h EXCEPT !.wait_commit_lsn = MaxLsn, !.chunk_id = NULL]

Waits(n) == node[n].wait_commit_lsn # MaxLsn

\* n has room for entry e.
Fits(n, e) == e.type = "DATA" => e.chunk \notin full[n]

\* The leader takes a write it has room for.
Propose(n, c) ==
    /\ node[n].quiesced = NULL
    /\ c \notin full[n]
    /\ is_ready_for_traffic(n)
    /\ AppendAtLeader(n, [type |-> "DATA", chunk |-> c, no |-> elections])
    /\ UNCHANGED ownVars

\* A chunk runs full: what was written to it took the space.
FillUp(n, c) ==
    /\ fills < MaxFull
    /\ c \notin full[n]
    /\ full' = [full EXCEPT ![n] = @ \cup {c}]
    /\ fills' = fills + 1
    /\ UNCHANGED <<replVars, node, gcfails, ok, stale>>

\* A follower appends the next entry of its leader, if it has room for it.
Follow(f) ==
    /\ AppendAtFollower(f)
    /\ node[f].quiesced = NULL
    /\ Fits(f, NextEntry(f))
    /\ UNCHANGED ownVars

\* The leader sends the entries up to lsn; entry lsn is the first the follower
\* has no room for, and all of them are refused.
NoRoomAt(f, lsn) ==
    /\ HasNext(f)
    /\ node[f].quiesced = NULL
    /\ lsn \in Len(log[f]) + 1 .. Len(log[leader])
    /\ ~Fits(f, log[leader][lsn])
    /\ \A i \in Len(log[f]) + 1 .. lsn - 1 : Fits(f, log[leader][i])

\* Mutant: the lsn before the last one the replica can append.
WaitsOneLess(f, lsn) ==
    /\ NoRoomAt(f, lsn)
    /\ ok' = (ok /\ lsn - 2 <= node[f].wait_commit_lsn)
    /\ node' = [node EXCEPT ![f] = set_no_space_left_error_info(@, lsn - 2, log[leader][lsn].chunk)]
    /\ UNCHANGED <<replVars, full, fills, gcfails, stale>>

on_no_space_left(f, lsn) ==
    /\ NoRoomAt(f, lsn)
    /\ ok' = (ok /\ lsn - 1 <= node[f].wait_commit_lsn)
    /\ node' = [node EXCEPT ![f] = set_no_space_left_error_info(@, lsn - 1, log[leader][lsn].chunk)]
    /\ UNCHANGED <<replVars, full, fills, gcfails, stale>>

\* An entry, or a configuration entry, is rolled back: the error is void.
on_rollback(f) ==
    /\ RollbackLast(f)
    /\ ok' = (ok /\ node[f].wait_commit_lsn >= Len(log[f]))
    /\ node' = [node EXCEPT ![f] = reset_no_space_left_error_info(@)]
    /\ UNCHANGED <<full, fills, gcfails, stale>>

\* The commit lsn is durable at once: what a restart applies again does not
\* matter here.
Commit(n) ==
    /\ CommitNext(n, commit_lsn[n] + 1)
    /\ UNCHANGED ownVars

\* Requests are refused from here until the garbage collection is over.
handle_no_space_left(h) == [h EXCEPT !.quiesced = h.chunk_id]

\* Mutant: the error is dropped before it is handled.
Forgets(n) ==
    /\ Waits(n)
    /\ ok' = (ok /\ node[n].wait_commit_lsn >= commit_lsn[n])
    /\ node' = [node EXCEPT ![n] =
         IF is_leader(n) \/ @.wait_commit_lsn = commit_lsn[n]
         THEN handle_no_space_left(reset_no_space_left_error_info(@)) ELSE @]
    /\ UNCHANGED <<replVars, full, fills, gcfails, stale>>

\* Mutant: the error is handled without waiting for the lsn.
HandlesAtOnce(n) ==
    /\ Waits(n)
    /\ ok' = (ok /\ node[n].wait_commit_lsn >= commit_lsn[n])
    /\ node' = [node EXCEPT ![n] = reset_no_space_left_error_info(handle_no_space_left(@))]
    /\ UNCHANGED <<replVars, full, fills, gcfails, stale>>

\* A replica is told how far its log is committed.
notify_committed_lsn(n) ==
    /\ Waits(n)
    /\ ok' = (ok /\ node[n].wait_commit_lsn >= commit_lsn[n])
    /\ node' = [node EXCEPT ![n] =
         CASE is_leader(n) -> reset_no_space_left_error_info(@)
           [] ~is_leader(n) /\ @.wait_commit_lsn = commit_lsn[n] ->
                reset_no_space_left_error_info(handle_no_space_left(@))
           [] OTHER -> @]
    /\ UNCHANGED <<replVars, full, fills, gcfails, stale>>

\* The emergent garbage collection ends, with room in the chunk or without;
\* requests are accepted again.
EmergentGCEnds(n) ==
    /\ node[n].quiesced # NULL
    /\ node' = [node EXCEPT ![n].quiesced = NULL]
    /\ \/ full' = [full EXCEPT ![n] = @ \ {node[n].quiesced}] /\ UNCHANGED gcfails
       \/ gcfails < MaxGCFail /\ gcfails' = gcfails + 1 /\ UNCHANGED full
    /\ UNCHANGED <<replVars, fills, ok, stale>>

ElectLeader(n) ==
    /\ Elect(n)
    /\ stale' = (stale \/ \E m \in Nodes : Waits(m))
    /\ UNCHANGED <<node, full, fills, gcfails, ok>>

RaftStep ==
    /\ \E k \in 1 .. MaxLog : Choose(k)
    /\ UNCHANGED ownVars

\* What the state machine remembers is lost; the chunks stay full.
Restart(n) ==
    /\ RestartNode(n)
    /\ node' = [node EXCEPT ![n] = Clean]
    /\ UNCHANGED <<full, fills, gcfails, ok, stale>>

Next ==
    \/ \E n \in Nodes, c \in Chunks : Propose(n, c) \/ FillUp(n, c)
    \/ \E n \in Nodes, lsn \in 1 .. MaxLog : on_no_space_left(n, lsn)
    \/ \E n \in Nodes :
         \/ Follow(n) \/ on_rollback(n) \/ Commit(n) \/ notify_committed_lsn(n)
         \/ EmergentGCEnds(n) \/ ElectLeader(n) \/ Restart(n)
    \/ RaftStep

Spec == Init /\ [][Next]_vars

\* The leader sends what a follower lacks again and again, a replica applies
\* what is chosen and is told of it, and every garbage collection ends.
Fairness ==
    /\ WF_vars(RaftStep)
    /\ \A n \in Nodes :
          /\ WF_vars(Follow(n))
          /\ WF_vars(\E lsn \in 1 .. MaxLog : on_no_space_left(n, lsn))
          /\ WF_vars(on_rollback(n))
          /\ WF_vars(Commit(n))
          /\ WF_vars(notify_committed_lsn(n))
          /\ WF_vars(EmergentGCEnds(n))

FairSpec == Spec /\ Fairness

-------------------------------------------------------------------------------
\* Properties.

\* Every variable keeps its kind (TypeOK), and
\* the assertions of on_no_space_left, on_rollback and notify_committed_lsn
\* hold, whatever the order of refused batches, elections, roll backs,
\* restarts and late notices of commits, as long as no leader is elected while a
\* replica waits: its log may then grow past the lsn it waits for.
AssertsHold == TypeOK /\ (~stale => ok)

\* A replica collects a chunk only when it has applied every entry of its log
\* that writes to it: no blks are allocated for an entry yet to be applied in
\* a chunk whose contents move (notify_committed_lsn, handle_no_space_left).
CollectsOnlyApplied ==
    ~stale => \A n \in Nodes : \A i \in commit_lsn[n] + 1 .. Len(log[n]) :
        log[n][i].type = "DATA" => log[n][i].chunk # node[n].quiesced

StuckOnSpace(n) == HasNext(n) /\ ~Fits(n, NextEntry(n))

\* A follower that has no room for the next entry gets room in the end, or no
\* longer has to append it, unless a leader is elected while it waits
\* (on_no_space_left, notify_committed_lsn, handle_no_space_left, on_rollback).
NoSpaceHandled ==
    \A n \in Nodes : StuckOnSpace(n) ~> ~StuckOnSpace(n) \/ stale
==============================================================================
