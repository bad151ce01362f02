----------------------------- MODULE PGLifecycle -----------------------------
(***************************************************************************)
(* The PGs of one node: how a PG comes to be (by a client at the leader,   *)
(* by the log at a follower, by a baseline resync), how it is destroyed    *)
(* step by step, and what a crash between two of the steps leaves for the  *)
(* next start of the process.                                              *)
(*                                                                         *)
(* On disk a PG is its group (the repl_dev), a superblk that names its     *)
(* chunks, an index table that the superblk names, and the superblks of    *)
(* its shards.  An operation changes them one at a time.  One shard stands *)
(* for all the shards of a PG.                                             *)
(***************************************************************************)
EXTENDS Naturals, FiniteSets

CONSTANTS
    PGs, Groups, Chunks, NULL,
    NumChunk,   \* the size of a PG in chunks
    MaxCrash,   \* bound: crashes
    MaxResync   \* bound: baseline resyncs

ASSUME PGAssumption ==
    /\ IsFiniteSet(Chunks) /\ NumChunk \in Nat \ {0} /\ {MaxCrash, MaxResync} \subseteq Nat
    /\ NULL \notin PGs /\ NULL \notin Groups

VARIABLES
    pg_map,           \* _pg_map: PG -> its group, and whether it has an index table
    m_per_pg_chunks,  \* PG -> the chunks selected for it
    heap,             \* m_per_dev_heap: the chunks no PG has
    used,             \* the chunks that hold blks
    pg_sb,            \* on disk: the superblks of the PGs
    shard_sb,         \* on disk: the PGs that have superblks of shards
    used_cp,          \* on disk: the chunks that held blks at the last checkpoint
    rdevs,            \* on disk: the groups
    unflushed,        \* on disk: per group, the kinds of entries committed since the last checkpoint
    pg_of,            \* the PG a group is created for
    create,           \* per group: how far the creation of its PG is
    destroy,          \* per group and caller: how far its destruction is
    state,            \* of the process: "up", "down", "replay" or "dead"
    replayed,         \* the groups that have replayed their log
    leaving,          \* the groups this node was told to leave
    crashes, resyncs, \* how many there were
    ok,               \* did the assertions of the code hold
    hard              \* the overlaps of two operations on one PG that happened

memVars == <<pg_map, m_per_pg_chunks, heap, used>>
diskVars == <<pg_sb, shard_sb, used_cp, rdevs, unflushed>>
opVars == <<pg_of, create, destroy>>
lifeVars == <<state, replayed, leaving, crashes, resyncs>>
vars == <<memVars, diskVars, opVars, lifeVars, ok, hard>>

Callers == {"leave", "resync"}
CreateSteps == {"none", "selected", "proposed", "joined", "failed", "reclaimed", "done"}
DestroySteps == {"none", "mark", "shards", "reset", "index", "superblk", "return", "last"}
PGChunks == {C \in SUBSET Chunks : Cardinality(C) = NumChunk}
Superblks == [group : Groups, alive : BOOLEAN, index : BOOLEAN, chunks : PGChunks]

\* Every variable holds a value of its kind; a PG always has NumChunk chunks.
TypeOK ==
    /\ pg_map \in [PGs -> [group : Groups, index : BOOLEAN] \cup {NULL}]
    /\ m_per_pg_chunks \in [PGs -> PGChunks \cup {NULL}]
    /\ heap \subseteq Chunks /\ used \subseteq Chunks /\ used_cp \subseteq Chunks
    /\ pg_sb \in [PGs -> Superblks \cup {NULL}] /\ shard_sb \subseteq PGs
    /\ unflushed \in [Groups -> SUBSET {"CREATE_PG", "WRITE"}]
    /\ \A G \in {rdevs, replayed, leaving} : G \subseteq Groups
    /\ pg_of \in [Groups -> PGs \cup {NULL}]
    /\ create \in [Groups -> CreateSteps]
    /\ destroy \in [Groups -> [Callers -> DestroySteps]]
    /\ state \in {"up", "down", "replay", "dead"}
    /\ crashes \in 0 .. MaxCrash /\ resyncs \in 0 .. MaxResync
    /\ ok \in BOOLEAN
    /\ hard \subseteq {"second_destroy", "shared_chunks"}

Idle == [g \in Groups |-> [c \in Callers |-> "none"]]

Init ==
    /\ pg_map = [p \in PGs |-> NULL] /\ m_per_pg_chunks = [p \in PGs |-> NULL]
    /\ heap = Chunks /\ used = {}
    /\ pg_sb = [p \in PGs |-> NULL] /\ shard_sb = {} /\ used_cp = {}
    /\ rdevs = {} /\ unflushed = [g \in Groups |-> {}]
    /\ pg_of = [g \in Groups |-> NULL] /\ create = [g \in Groups |-> "none"] /\ destroy = Idle
    /\ state = "up" /\ replayed = {} /\ leaving = {}
    /\ crashes = 0 /\ resyncs = 0
    /\ ok = TRUE /\ hard = {}

release_assert(cond) == ok' = (ok /\ cond)

pg_exists(p) == pg_map[p] # NULL

\* The PG in the map whose repl_dev is that of group g.
get_pg_id_with_group_id(g) == {p \in PGs : pg_exists(p) /\ pg_map[p].group = g}

ChunksOf(p) == IF m_per_pg_chunks[p] = NULL THEN {} ELSE m_per_pg_chunks[p]

-------------------------------------------------------------------------------
\* There are chunks for p: it has some already, or the heap has enough.
HasSpace(p) == m_per_pg_chunks[p] # NULL \/ Cardinality(heap) >= NumChunk

select_chunks_for_pg(p) ==
    \/ /\ m_per_pg_chunks[p] # NULL
       /\ release_assert(Cardinality(m_per_pg_chunks[p]) = NumChunk)
       /\ UNCHANGED <<m_per_pg_chunks, heap>>
    \/ /\ m_per_pg_chunks[p] = NULL
       /\ \E C \in SUBSET heap :
             /\ Cardinality(C) = NumChunk
             /\ m_per_pg_chunks' = [m_per_pg_chunks EXCEPT ![p] = C]
             /\ heap' = heap \ C
             /\ release_assert(C \cap used = {})

return_pg_chunks_to_dev_heap(p) ==
    /\ release_assert(m_per_pg_chunks[p] # NULL)
    /\ heap' = heap \cup ChunksOf(p)
    /\ m_per_pg_chunks' = [m_per_pg_chunks EXCEPT ![p] = NULL]

\* Notes that p's chunks are selected although another creation of p, or a
\* destruction of p that is about to return them, has them.
NoteShared(p, own) ==
    hard' = IF m_per_pg_chunks[p] # NULL /\ ~own THEN hard \cup {"shared_chunks"} ELSE hard

-------------------------------------------------------------------------------
\* A client creates PG p at this node; g is the fresh replica_set_uuid.
_create_pg(g, p) ==
    /\ state = "up" /\ pg_of[g] = NULL
    /\ ~pg_exists(p)
    /\ HasSpace(p)
    /\ select_chunks_for_pg(p)
    /\ NoteShared(p, FALSE)
    /\ pg_of' = [pg_of EXCEPT ![g] = p]
    /\ create' = [create EXCEPT ![g] = "selected"]
    /\ UNCHANGED <<pg_map, used, diskVars, destroy, lifeVars>>

\* create_repl_dev ends: the group exists and CREATE_PG is proposed, or it failed.
\* (A failure that leaves the repl_dev behind looks like a proposal that failed.)
create_repl_dev(g) ==
    /\ state = "up" /\ create[g] = "selected"
    /\ \/ rdevs' = rdevs \cup {g} /\ create' = [create EXCEPT ![g] = "proposed"]
       \/ rdevs' = rdevs /\ create' = [create EXCEPT ![g] = "failed"]
    /\ UNCHANGED <<memVars, pg_sb, shard_sb, used_cp, unflushed, pg_of, destroy, lifeVars, ok, hard>>

\* The proposal ends with an error: on_error, or a rollback of the entry.
on_create_pg_message_rollback(g) ==
    /\ state = "up" /\ create[g] = "proposed"
    /\ create' = [create EXCEPT ![g] = "failed"]
    /\ UNCHANGED <<memVars, diskVars, pg_of, destroy, lifeVars, ok, hard>>

\* Mutant: the chunks of a failed creation are kept.
KeepsChunks(g) ==
    /\ state = "up" /\ create[g] = "failed"
    /\ create' = [create EXCEPT ![g] = "reclaimed"]
    /\ UNCHANGED <<memVars, diskVars, pg_of, destroy, lifeVars, ok, hard>>

\* A failed creation gives back the chunks, ...
ReclaimChunks(g) ==
    /\ state = "up" /\ create[g] = "failed"
    /\ return_pg_chunks_to_dev_heap(pg_of[g])
    /\ create' = [create EXCEPT ![g] = "reclaimed"]
    /\ UNCHANGED <<pg_map, used, diskVars, pg_of, destroy, lifeVars, hard>>

\* ... and then removes the repl_dev.
remove_repl_dev(g) ==
    /\ state = "up" /\ create[g] = "reclaimed"
    /\ rdevs' = rdevs \ {g}
    /\ create' = [create EXCEPT ![g] = "done"]
    /\ UNCHANGED <<memVars, pg_sb, shard_sb, used_cp, unflushed, pg_of, destroy, lifeVars, ok, hard>>

\* Another node creates PG p, and this node becomes a member of its group.
JoinGroup(g, p) ==
    /\ state = "up" /\ pg_of[g] = NULL
    /\ pg_of' = [pg_of EXCEPT ![g] = p]
    /\ rdevs' = rdevs \cup {g}
    /\ create' = [create EXCEPT ![g] = "joined"]
    /\ UNCHANGED <<memVars, pg_sb, shard_sb, used_cp, unflushed, destroy, lifeVars, ok, hard>>

\* Does nothing when the PG is there.  Otherwise it takes chunks, makes the index
\* table, writes the superblk that names both, and puts the PG into the map.
local_create_pg(g, own) ==
    LET p == pg_of[g] IN
    \/ /\ pg_exists(p) \/ ~HasSpace(p)
       /\ UNCHANGED <<memVars, pg_sb, ok, hard>>
    \/ /\ ~pg_exists(p) /\ HasSpace(p)
       /\ select_chunks_for_pg(p)
       /\ NoteShared(p, own)
       /\ pg_map' = [pg_map EXCEPT ![p] = [group |-> g, index |-> TRUE]]
       /\ pg_sb' = [pg_sb EXCEPT ![p] = [group |-> g, alive |-> TRUE, index |-> TRUE,
                                         chunks |-> m_per_pg_chunks'[p]]]
       /\ UNCHANGED used

\* CREATE_PG is committed.  A follower that has no space goes on without the PG.
on_create_pg_message_commit(g) ==
    /\ state = "up" /\ g \in rdevs
    /\ create[g] \in {"proposed", "joined"}
    /\ local_create_pg(g, create[g] = "proposed")
    /\ unflushed' = [unflushed EXCEPT ![g] = @ \cup {"CREATE_PG"}]
    /\ create' = [create EXCEPT ![g] = "done"]
    /\ UNCHANGED <<shard_sb, used_cp, rdevs, pg_of, destroy, lifeVars>>

\* A shard is created in p and a blob is put into it.  Both are commits of its
\* group, which has left the raft group, or is paused, while p is destroyed.
CommitWrite(p) ==
    /\ state = "up" /\ pg_exists(p)
    /\ LET g == pg_map[p].group IN
          /\ g \in rdevs
          /\ \A h \in Groups, c \in Callers : pg_of[h] = p => destroy[h][c] = "none"
          /\ unflushed' = [unflushed EXCEPT ![g] = @ \cup {"WRITE"}]
    /\ shard_sb' = shard_sb \cup {p}
    /\ \E c \in ChunksOf(p) : used' = used \cup {c}
    /\ UNCHANGED <<pg_map, m_per_pg_chunks, heap, pg_sb, used_cp, rdevs, opVars, lifeVars, ok, hard>>

\* Mutant: nothing is made durable.
FlushesNothing == UNCHANGED <<used_cp, unflushed>>

\* A checkpoint makes the blk allocators, the index tables and the lsn from which
\* a group replays its log durable.
Flush == used_cp' = used /\ unflushed' = [g \in Groups |-> {}]

Checkpoint ==
    /\ state = "up"
    /\ used_cp # used \/ \E g \in Groups : unflushed[g] # {}
    /\ Flush
    /\ UNCHANGED <<memVars, pg_sb, shard_sb, rdevs, opVars, lifeVars, ok, hard>>

-------------------------------------------------------------------------------
\* pg_destroy(p) is called while another caller is in it for the same PG.
NoteSecond(p) ==
    hard' = IF \E g \in Groups, c \in Callers : pg_of[g] = p /\ destroy[g][c] \notin {"none", "last"}
            THEN hard \cup {"second_destroy"} ELSE hard

Step(g, c, from, to) == destroy[g][c] = from /\ destroy' = [destroy EXCEPT ![g][c] = to]

\* Mutant: a repl_dev that has no PG is taken to be gone.
GivesUp(g) ==
    /\ state = "up" /\ get_pg_id_with_group_id(g) # {}
    /\ leaving' = leaving \cup {g}
    /\ Step(g, "leave", "none", "mark") /\ NoteSecond(pg_of[g])
    /\ UNCHANGED <<memVars, diskVars, pg_of, create, state, replayed, crashes, resyncs, ok>>

\* The node leaves group g: by _exit_pg, which the control plane calls and repeats,
\* or by on_destroy, when the node is removed from the group.  Both destroy the PG
\* of the group if there is one, and then the repl_dev.
Leave(g) ==
    /\ state = "up" /\ g \in rdevs
    /\ leaving' = leaving \cup {g}
    /\ IF get_pg_id_with_group_id(g) = {}
       THEN Step(g, "leave", "none", "last") /\ UNCHANGED hard
       ELSE Step(g, "leave", "none", "mark") /\ NoteSecond(pg_of[g])
    /\ UNCHANGED <<memVars, diskVars, pg_of, create, state, replayed, crashes, resyncs, ok>>

\* The first message of a baseline resync: the state machine is paused, and the
\* PG of that id, if there is one, is destroyed.
write_snapshot_data(g) ==
    /\ state = "up" /\ g \in rdevs \ leaving
    /\ create[g] \in {"joined", "done"}
    /\ resyncs < MaxResync
    /\ resyncs' = resyncs + 1
    /\ IF pg_exists(pg_of[g])
       THEN Step(g, "resync", "none", "mark") /\ NoteSecond(pg_of[g])
       ELSE Step(g, "resync", "none", "last") /\ UNCHANGED hard
    /\ UNCHANGED <<memVars, diskVars, pg_of, create, state, replayed, leaving, crashes, ok>>

mark_pg_destroyed(g, c) ==
    /\ state = "up" /\ Step(g, c, "mark", "shards")
    /\ pg_sb' = IF pg_exists(pg_of[g]) THEN [pg_sb EXCEPT ![pg_of[g]].alive = FALSE] ELSE pg_sb
    /\ UNCHANGED <<memVars, shard_sb, used_cp, rdevs, unflushed, pg_of, create, lifeVars, ok, hard>>

destroy_shards(g, c) ==
    /\ state = "up" /\ Step(g, c, "shards", "reset")
    /\ shard_sb' = IF pg_exists(pg_of[g]) THEN shard_sb \ {pg_of[g]} ELSE shard_sb
    /\ UNCHANGED <<memVars, pg_sb, used_cp, rdevs, unflushed, pg_of, create, lifeVars, ok, hard>>

\* Mutant: the chunks are returned while the superblk still names them.
ReturnsAtReset(g, c) ==
    /\ state = "up" /\ Step(g, c, "reset", "index")
    /\ used' = used \ ChunksOf(pg_of[g])
    /\ return_pg_chunks_to_dev_heap(pg_of[g])
    /\ UNCHANGED <<pg_map, diskVars, pg_of, create, lifeVars, hard>>

\* destroy_hs_resources
reset_pg_chunks(g, c) ==
    /\ state = "up" /\ Step(g, c, "reset", "index")
    /\ used' = used \ ChunksOf(pg_of[g])
    /\ UNCHANGED <<pg_map, m_per_pg_chunks, heap, diskVars, pg_of, create, lifeVars, ok, hard>>

\* The destruction of the index table triggers a checkpoint.
destroy_pg_index_table(g, c) ==
    /\ state = "up" /\ Step(g, c, "index", "superblk")
    /\ Flush
    /\ pg_sb' = IF pg_exists(pg_of[g]) THEN [pg_sb EXCEPT ![pg_of[g]].index = FALSE] ELSE pg_sb
    /\ UNCHANGED <<memVars, shard_sb, rdevs, pg_of, create, lifeVars, ok, hard>>

\* A forced checkpoint comes first.
destroy_pg_superblk(g, c) ==
    /\ state = "up" /\ Step(g, c, "superblk", "return")
    /\ Flush
    /\ pg_sb' = [pg_sb EXCEPT ![pg_of[g]] = NULL]
    /\ pg_map' = [pg_map EXCEPT ![pg_of[g]] = NULL]
    /\ UNCHANGED <<m_per_pg_chunks, heap, used, shard_sb, rdevs, pg_of, create, lifeVars, ok, hard>>

\* The last step of pg_destroy.
ReturnChunks(g, c) ==
    /\ state = "up" /\ Step(g, c, "return", "last")
    /\ return_pg_chunks_to_dev_heap(pg_of[g])
    /\ UNCHANGED <<pg_map, used, diskVars, pg_of, create, lifeVars, hard>>

\* destroy_repl_dev leaves the group once its state machine is idle, which calls
\* on_destroy for a PG that came into being since, and removes the repl_dev.
destroy_repl_dev(g) ==
    /\ state = "up" /\ destroy[g]["resync"] = "none"
    /\ IF get_pg_id_with_group_id(g) = {}
       THEN Step(g, "leave", "last", "none") /\ rdevs' = rdevs \ {g} /\ UNCHANGED hard
       ELSE Step(g, "leave", "last", "mark") /\ NoteSecond(pg_of[g]) /\ UNCHANGED rdevs
    /\ UNCHANGED <<memVars, pg_sb, shard_sb, used_cp, unflushed, pg_of, create, lifeVars, ok>>

\* The baseline resync goes on: the PG is created anew.
process_pg_snapshot_data(g) ==
    /\ state = "up" /\ Step(g, "resync", "last", "none")
    /\ local_create_pg(g, FALSE)
    /\ create' = [create EXCEPT ![g] = "done"]
    /\ UNCHANGED <<shard_sb, used_cp, rdevs, unflushed, pg_of, lifeVars>>

-------------------------------------------------------------------------------
\* The process dies.  An entry that was proposed may still be committed by the
\* rest of the group; the clients of the other operations are gone.
Crash ==
    /\ state \in {"up", "replay"} /\ crashes < MaxCrash
    /\ crashes' = crashes + 1
    /\ state' = "down"
    /\ pg_map' = [p \in PGs |-> NULL] /\ m_per_pg_chunks' = [p \in PGs |-> NULL]
    /\ heap' = {} /\ used' = {}
    /\ create' = [g \in Groups |-> IF create[g] \in {"proposed", "joined"} THEN "joined"
                                   ELSE IF create[g] = "none" THEN "none" ELSE "done"]
    /\ destroy' = Idle
    /\ replayed' = {}
    /\ UNCHANGED <<diskVars, pg_of, leaving, resyncs, ok, hard>>

\* The PGs that on_pg_meta_blk_found puts into the map: those with a repl_dev.
Recovered == {p \in PGs : pg_sb[p] # NULL /\ pg_sb[p].group \in rdevs}

\* The metablks are read: the index tables, then the PGs, then the shards; the
\* chunks no PG has make the heap.
Boot ==
    /\ state = "down"
    /\ pg_map' = [p \in PGs |-> IF p \in Recovered
                                THEN [group |-> pg_sb[p].group, index |-> pg_sb[p].index] ELSE NULL]
    /\ m_per_pg_chunks' = [p \in PGs |-> IF p \in Recovered THEN pg_sb[p].chunks ELSE NULL]
    /\ heap' = Chunks \ UNION {pg_sb[p].chunks : p \in Recovered}
    /\ used' = used_cp
    /\ release_assert(/\ \A p \in Recovered : pg_sb[p].index \/ ~pg_sb[p].alive
                      /\ shard_sb \subseteq Recovered)
    /\ state' = "replay"
    /\ UNCHANGED <<diskVars, opVars, replayed, leaving, crashes, resyncs, hard>>

\* A group replays its log from the lsn of the last checkpoint.
ReplayLog(g) ==
    /\ state = "replay" /\ g \in rdevs \ replayed
    /\ \/ "CREATE_PG" \in unflushed[g] /\ local_create_pg(g, FALSE)
       \/ unflushed[g] = {} /\ UNCHANGED <<memVars, pg_sb, ok, hard>>
       \/ /\ unflushed[g] = {"WRITE"}
          /\ release_assert(pg_exists(pg_of[g]) /\ pg_map[pg_of[g]].index)
          /\ used' = used \cup ChunksOf(pg_of[g])
          /\ UNCHANGED <<pg_map, m_per_pg_chunks, heap, pg_sb, hard>>
    /\ replayed' = replayed \cup {g}
    /\ UNCHANGED <<shard_sb, used_cp, rdevs, unflushed, opVars, state, leaving, crashes, resyncs>>

\* The log is replayed: the statistics are read from the index table.  A PG
\* without one makes the process crash here, at this and at every later start.
on_log_replay_done ==
    /\ state = "replay" /\ rdevs = replayed
    /\ state' = IF \E p \in PGs : pg_exists(p) /\ ~pg_map[p].index THEN "dead" ELSE "up"
    /\ UNCHANGED <<memVars, diskVars, opVars, replayed, leaving, crashes, resyncs, ok, hard>>

-------------------------------------------------------------------------------
CreateStep(g) ==
    \/ create_repl_dev(g) \/ on_create_pg_message_rollback(g) \/ ReclaimChunks(g) \/ remove_repl_dev(g)
    \/ on_create_pg_message_commit(g)

DestroyStep(g, c) ==
    \/ mark_pg_destroyed(g, c) \/ destroy_shards(g, c) \/ reset_pg_chunks(g, c)
    \/ destroy_pg_index_table(g, c) \/ destroy_pg_superblk(g, c) \/ ReturnChunks(g, c)

Next ==
    \/ \E g \in Groups, p \in PGs : _create_pg(g, p) \/ JoinGroup(g, p)
    \/ \E g \in Groups :
          \/ CreateStep(g) \/ Leave(g) \/ destroy_repl_dev(g)
          \/ write_snapshot_data(g) \/ process_pg_snapshot_data(g) \/ ReplayLog(g)
    \/ \E g \in Groups, c \in Callers : DestroyStep(g, c)
    \/ \E p \in PGs : CommitWrite(p)
    \/ Checkpoint \/ Crash \/ Boot \/ on_log_replay_done

Spec == Init /\ [][Next]_vars

\* Steps that were begun go on, a process that died is started again, and a group
\* that is to be left is left by calling exit_pg until it is gone.
Fairness ==
    /\ \A g \in Groups, c \in Callers : WF_vars(DestroyStep(g, c))
    /\ \A g \in Groups : /\ WF_vars(destroy_repl_dev(g)) /\ WF_vars(process_pg_snapshot_data(g))
                         /\ WF_vars(ReplayLog(g)) /\ WF_vars(g \in leaving /\ Leave(g))
    /\ WF_vars(Boot) /\ WF_vars(on_log_replay_done)

FairSpec == Spec /\ Fairness

-------------------------------------------------------------------------------
\* Every variable keeps its kind (TypeOK), and
\* no RELEASE_ASSERT fails: chunks are empty when a PG takes them and are there
\* when it returns them, a start finds the index table of every PG that is not
\* destroyed and the PG of every shard, and a replayed write finds its PG.
AssertsHold == TypeOK /\ (hard = {} => ok)

\* A chunk belongs to one PG: no other superblk names it, and the heap does not
\* offer it ("to avoid multiple pg use same chunks").
OneOwner ==
    hard = {} =>
        \A p \in PGs : pg_sb[p] # NULL =>
            /\ pg_sb[p].chunks \cap heap = {}
            /\ \A q \in PGs \ {p} : pg_sb[q] # NULL => pg_sb[p].chunks \cap pg_sb[q].chunks = {}

Quiet ==
    /\ state = "up" /\ destroy = Idle
    /\ \A g \in Groups : create[g] \in {"none", "joined", "done"}

\* Once no operation is under way the map, the superblks and the chunk selector
\* agree: whatever failed or was interrupted, no chunk is lost to a PG that does
\* not exist.
NothingLeaks ==
    Quiet /\ hard = {} =>
        /\ \A p \in PGs : /\ pg_exists(p) <=> m_per_pg_chunks[p] # NULL
                          /\ pg_exists(p) <=> pg_sb[p] # NULL
                          /\ pg_exists(p) => pg_sb[p].chunks = m_per_pg_chunks[p]
        /\ heap = Chunks \ UNION {ChunksOf(p) : p \in PGs}

\* A group that is left is gone in the end, with its PG, whatever crashes come
\* between: exit_pg can be repeated until nothing is left.
ExitEnds ==
    \A g \in Groups :
        g \in leaving ~> \/ g \notin rdevs /\ \A p \in PGs : pg_sb[p] = NULL \/ pg_sb[p].group # g
                         \/ state = "dead" \/ hard # {}

\* A PG that was being destroyed when the process died is no obstacle to its
\* start ("Index table not found for destroyed pg").
StartsAgain == state # "dead"

=============================================================================
