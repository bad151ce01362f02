--------------------------- MODULE ShardReplication ---------------------------
(***************************************************************************)
(* Shards of one PG on its replicas: creating and sealing a shard on the   *)
(* leader, the four callbacks with which the replicated log drives each    *)
(* replica (append, pre-commit, commit, rollback), the error callback of   *)
(* the proposer, and the restart of a replica (HSHomeObject's shard        *)
(* manager and ReplicationStateMachine).                                   *)
(*                                                                         *)
(* What every replica keeps is node[n]: the shard map with the state held  *)
(* in memory and the one in the superblk, the state of every v_chunk in    *)
(* the chunk selector, which of its two physical chunks is behind a        *)
(* v_chunk (garbage collection, modelled in GCManager, exchanges them in   *)
(* one step here), and the shard sequence number.                          *)
(***************************************************************************)
EXTENDS ReplLog, SequencesExt

CONSTANTS
    VChunks,   \* the v_chunks of the PG
    Reqs,      \* client requests
    MaxShard,  \* bound: shard ids
    MaxGC      \* bound: garbage collections

ASSUME ShardAssumption == {MaxShard, MaxGC} \subseteq Nat

VARIABLES
    node,   \* per replica: what it keeps
    reqs,   \* per client request: where it is
    gcs,    \* how many garbage collections there were
    seen    \* per replica: which of the Hardships it has been through

vars == <<replVars, node, reqs, gcs, seen>>

ShardIds == 1 .. MaxShard

\* What a replica may go through that the shard manager is not proof against.
\*   cut_create      a create of its own failed, or lost the leader before it
\*                   was in the log
\*   second_seal     a shard was sealed by two requests at once
\*   redo_commit     it restarted before its commit lsn was durable
\*   lost_select     it restarted with a create in its log not yet committed
\*   overtaken       it appended a create before it committed the seal of the
\*                   shard that was in the chunk
Hardships == {"cut_create", "second_seal", "redo_commit", "lost_select", "overtaken"}

NoShard == [state |-> NULL, sb |-> NULL, v |-> NULL, p |-> NULL]

ShardRecs ==
    {NoShard} \cup [state : {"OPEN", "SEALED"}, sb : {"OPEN", "SEALED"}, v : VChunks, p : {0, 1}]

NodeRecs ==
    [shard : [ShardIds -> ShardRecs], m_state : [VChunks -> {"AVAILABLE", "INUSE"}],
     p_chunk : [VChunks -> {0, 1}], seq : 0 .. MaxShard, blk : Seq({0, 1, NULL}), ok : BOOLEAN]

ReqRecs ==
    [pc : {"idle", "create", "seal", "logged", "failed", "done"},
     node : Nodes \cup {NULL}, shard : ShardIds \cup {NULL}, v : VChunks \cup {NULL}]

Entries ==
    [type : {"CREATE", "SEAL"}, shard : ShardIds, v : VChunks \cup {NULL}, req : Reqs]
        \cup [type : {"CONFIG"}, by : Nodes, no : 1 .. MaxElect]

\* Every variable holds a value of its kind.
TypeOK ==
    /\ log \in [Nodes -> Seq(Entries)] /\ chosen \in Seq(Entries) /\ leader \in Nodes \cup {NULL}
    /\ gate \in Nat /\ commit_lsn \in [Nodes -> Nat] /\ dc_lsn \in [Nodes -> Nat]
    /\ node \in [Nodes -> NodeRecs]
    /\ reqs \in [Reqs -> ReqRecs]
    /\ gcs \in 0 .. MaxGC
    /\ seen \in [Nodes -> SUBSET Hardships]

Idle == [pc |-> "idle", node |-> NULL, shard |-> NULL, v |-> NULL]
Done == [Idle EXCEPT !.pc = "done"]

Init ==
    /\ ReplInit
    /\ node = [n \in Nodes |->
                 [shard |-> [s \in ShardIds |-> NoShard], m_state |-> [v \in VChunks |-> "AVAILABLE"],
                  p_chunk |-> [v \in VChunks |-> 0], seq |-> 0, blk |-> <<>>, ok |-> TRUE]]
    /\ reqs = [r \in Reqs |-> Idle]
    /\ gcs = 0
    /\ seen = [n \in Nodes |-> {}]

-------------------------------------------------------------------------------
\* What the callbacks do to a replica h.

shard_exists(h, s) == h.shard[s] # NoShard

release_assert(h, p) == [h EXCEPT !.ok = @ /\ p]

select_specific_chunk(h, v) == [h EXCEPT !.m_state[v] = "INUSE"]

release_chunk(h, v) == [h EXCEPT !.m_state[v] = "AVAILABLE"]

\* A shard found by a commit or in a superblk: the sequence number catches up.
add_new_shard_to_map(h, s, rec) ==
    [h EXCEPT !.shard[s] = rec, !.seq = IF s > @ THEN s ELSE @]

local_create_shard(h, e, p) ==
    IF shard_exists(h, e.shard)
    THEN h
    ELSE add_new_shard_to_map(select_specific_chunk(h, e.v), e.shard,
                              [state |-> "OPEN", sb |-> "OPEN", v |-> e.v, p |-> p])

\* Mutant: a create does not select its chunk before the commit.
AllocatesOnly(h, e) == [h EXCEPT !.blk = Append(@, IF e.type = "CREATE" THEN h.p_chunk[e.v] ELSE NULL)]

\* The entry lands in the log: blks are allocated (for a create, in the chunk
\* selected for its v_chunk) and the entry is pre-committed.
get_blk_alloc_hints(h, e) ==
    IF e.type = "CREATE"
    THEN [select_specific_chunk(h, e.v) EXCEPT !.blk = Append(@, h.p_chunk[e.v])]
    ELSE [h EXCEPT !.blk = Append(@, NULL)]

on_pre_commit(h, e) ==
    IF e.type = "SEAL"
    THEN IF shard_exists(h, e.shard) THEN [h EXCEPT !.shard[e.shard].state = "SEALED"]
         ELSE release_assert(h, FALSE)
    ELSE h

OnAppend(h, e) == on_pre_commit(get_blk_alloc_hints(h, e), e)

\* Mutant: the superblk is not written.
SealsInMemory(h, e) ==
    IF shard_exists(h, e.shard)
    THEN release_chunk(release_assert(h, h.shard[e.shard].state = "SEALED"), h.shard[e.shard].v)
    ELSE release_assert(h, FALSE)

\* The superblk is written SEALED, and the chunk is released.
CommitSeal(h, e) ==
    IF shard_exists(h, e.shard)
    THEN release_chunk([release_assert(h, h.shard[e.shard].state = "SEALED")
                            EXCEPT !.shard[e.shard].state = "SEALED", !.shard[e.shard].sb = "SEALED"],
                       h.shard[e.shard].v)
    ELSE release_assert(h, FALSE)

on_shard_message_commit(h, e, p) ==
    CASE e.type = "CREATE" -> local_create_shard(h, e, p)
      [] e.type = "SEAL"   -> CommitSeal(h, e)
      [] OTHER             -> h

\* Mutant: a seal that is rolled back leaves the shard SEALED in memory.
KeepsSealed(h, e, proposer) ==
    LET g == [h EXCEPT !.blk = SubSeq(@, 1, Len(@) - 1)]
    IN  IF e.type = "CREATE" /\ ~proposer THEN release_chunk(g, e.v) ELSE g

\* The last entry of h's log is rolled back.  The proposer of a create leaves
\* the release to the continuation of its request.
on_shard_message_rollback(h, e, proposer) ==
    LET g == [h EXCEPT !.blk = SubSeq(@, 1, Len(@) - 1)]
    IN  CASE e.type = "CREATE" /\ ~proposer -> release_chunk(g, e.v)
          [] e.type = "SEAL" /\ shard_exists(g, e.shard) -> [g EXCEPT !.shard[e.shard].state = "OPEN"]
          [] e.type = "SEAL" /\ ~shard_exists(g, e.shard) -> release_assert(g, FALSE)
          [] OTHER -> g

IsProposer(n, e) == e.type # "CONFIG" /\ reqs[e.req].node = n /\ reqs[e.req].pc = "logged"

-------------------------------------------------------------------------------
\* Client requests on the leader.

\* Mutant: a new leader does not wait until it is ready.
AcceptsUnready(n) == is_leader(n)

Accepts(n) == is_leader(n) /\ is_ready_for_traffic(n)

\* _create_shard up to the proposal: a new shard id and a chunk, or no space.
CreateShard(n, r) ==
    /\ reqs[r].pc = "idle"
    /\ Accepts(n)
    /\ node[n].seq < MaxShard
    /\ LET h == [node[n] EXCEPT !.seq = @ + 1]
           free == {v \in VChunks : h.m_state[v] = "AVAILABLE"}
       IN  \/ \E v \in free :
                /\ node' = [node EXCEPT ![n] = select_specific_chunk(h, v)]
                /\ reqs' = [reqs EXCEPT ![r] = [pc |-> "create", node |-> n, shard |-> h.seq, v |-> v]]
           \/ /\ free = {}
              /\ node' = [node EXCEPT ![n] = h]
              /\ reqs' = [reqs EXCEPT ![r] = Done]
    /\ UNCHANGED <<replVars, gcs, seen>>

EntryOf(r) ==
    [type |-> IF reqs[r].pc = "create" THEN "CREATE" ELSE "SEAL",
     shard |-> reqs[r].shard, v |-> reqs[r].v, req |-> r]

\* The v_chunks in which a shard is open on n.
OpenChunks(n) == {node[n].shard[s].v : s \in {t \in ShardIds : node[n].shard[t].sb = "OPEN"}}

\* What n goes through when e reaches its log.
AppendHardships(n, e) ==
    {"second_seal" : i \in {j \in DOMAIN log[n] : e.type = "SEAL" /\ log[n][j].type = "SEAL"
                                                     /\ log[n][j].shard = e.shard}}
        \cup {"overtaken" : v \in {w \in OpenChunks(n) : e.type = "CREATE" /\ e.v = w}}

\* async_alloc_write of a create or a seal reaches the leader's log.
Propose(n, r) ==
    /\ reqs[r].node = n
    /\ reqs[r].pc \in {"create", "seal"}
    /\ AppendAtLeader(n, EntryOf(r))
    /\ node' = [node EXCEPT ![n] = OnAppend(@, EntryOf(r))]
    /\ reqs' = [reqs EXCEPT ![r].pc = "logged"]
    /\ seen' = [seen EXCEPT ![n] = @ \cup AppendHardships(n, EntryOf(r))]
    /\ UNCHANGED gcs

\* async_alloc_write fails to start: for a create the chunk is released here
\* and again by the continuation.
on_error(n, r) ==
    /\ reqs[r].node = n
    /\ \/ /\ reqs[r].pc = "create"
          /\ node' = [node EXCEPT ![n] = release_chunk(@, reqs[r].v)]
          /\ reqs' = [reqs EXCEPT ![r].pc = "failed"]
          /\ seen' = [seen EXCEPT ![n] = @ \cup {"cut_create"}]
       \/ /\ reqs[r].pc = "seal"
          /\ reqs' = [reqs EXCEPT ![r] = Done]
          /\ UNCHANGED <<node, seen>>
    /\ UNCHANGED <<replVars, gcs>>

\* The continuation of a create that failed.
FailedCreate(n, r) ==
    /\ reqs[r].node = n
    /\ reqs[r].pc = "failed"
    /\ node' = [node EXCEPT ![n] = release_chunk(@, reqs[r].v)]
    /\ reqs' = [reqs EXCEPT ![r] = Done]
    /\ UNCHANGED <<replVars, gcs, seen>>

\* seal_shard: a shard whose state in memory is OPEN is to be sealed.
SealShard(n, r, s) ==
    /\ reqs[r].pc = "idle"
    /\ Accepts(n)
    /\ node[n].shard[s].state = "OPEN"
    /\ reqs' = [reqs EXCEPT ![r] = [pc |-> "seal", node |-> n, shard |-> s, v |-> NULL]]
    /\ UNCHANGED <<replVars, node, gcs, seen>>

-------------------------------------------------------------------------------
\* What the log makes the replicas do.

\* A follower appends the leader's next entry.  A seal waits for the shard.
Follow(f) ==
    /\ AppendAtFollower(f)
    /\ LET e == NextEntry(f)
       IN  /\ e.type = "SEAL" => shard_exists(node[f], e.shard)
           /\ node' = [node EXCEPT ![f] = OnAppend(@, e)]
           /\ seen' = [seen EXCEPT ![f] = @ \cup AppendHardships(f, e)]
    /\ UNCHANGED <<reqs, gcs>>

Rollback(f) ==
    /\ RollbackLast(f)
    /\ LET e == LastEntry(f)
           mine == IsProposer(f, e)
       IN  /\ node' = [node EXCEPT ![f] = on_shard_message_rollback(@, e, mine)]
           /\ reqs' = IF mine
                      THEN [reqs EXCEPT ![e.req] = IF e.type = "CREATE" THEN [@ EXCEPT !.pc = "failed"]
                                                   ELSE Done]
                      ELSE reqs
           /\ seen' = IF mine /\ e.type = "CREATE"
                      THEN [seen EXCEPT ![f] = @ \cup {"cut_create"}] ELSE seen
    /\ UNCHANGED gcs

\* A seal makes the commit lsn durable before it writes the superblk.
Commit(n) ==
    /\ HasCommit(n)
    /\ LET e == CommitEntry(n)
       IN  /\ CommitNext(n, IF e.type = "SEAL" THEN commit_lsn[n] ELSE dc_lsn[n])
           /\ node' = [node EXCEPT ![n] = on_shard_message_commit(@, e, @.blk[commit_lsn[n] + 1])]
           /\ reqs' = IF IsProposer(n, e) THEN [reqs EXCEPT ![e.req] = Done] ELSE reqs
    /\ UNCHANGED <<gcs, seen>>

ElectLeader(n) ==
    /\ Elect(n)
    /\ node' = [node EXCEPT ![n].blk = Append(@, NULL)]
    /\ seen' = [m \in Nodes |-> seen[m] \cup
                  {"cut_create" : r \in {q \in Reqs : reqs[q].node = m /\ reqs[q].pc = "create"}}]
    /\ UNCHANGED <<reqs, gcs>>

RaftStep ==
    /\ \/ \E k \in 1 .. MaxLog : Choose(k)
       \/ \E n \in Nodes : FlushDCLsn(n)
    /\ UNCHANGED <<node, reqs, gcs, seen>>

\* Garbage collection exchanges the chunk behind a v_chunk nobody writes to
\* and moves the shards it holds.
GC(n, v) ==
    /\ gcs < MaxGC
    /\ node[n].m_state[v] = "AVAILABLE"
    /\ LET p == node[n].p_chunk[v]
       IN  node' = [node EXCEPT ![n].p_chunk[v] = 1 - p,
                                ![n].shard = [s \in ShardIds |->
                                   IF @[s].v = v /\ @[s].p = p THEN [@[s] EXCEPT !.p = 1 - p] ELSE @[s]]]
    /\ gcs' = gcs + 1
    /\ UNCHANGED <<replVars, reqs, seen>>

-------------------------------------------------------------------------------
\* A restart.

\* Shards and chunk states as the superblks give them.
on_shard_meta_blk_recover_completed(h) ==
    LET found == {s \in ShardIds : shard_exists(h, s)}
        open == {h.shard[s].v : s \in {t \in found : h.shard[t].sb = "OPEN"}}
    IN  [h EXCEPT !.shard = [s \in ShardIds |-> [@[s] EXCEPT !.state = h.shard[s].sb]],
                  !.seq = IF found = {} THEN 0 ELSE CHOOSE s \in found : \A t \in found : t <= s,
                  !.m_state = [v \in VChunks |-> IF v \in open THEN "INUSE" ELSE "AVAILABLE"]]

\* Mutant: the replay does not pre-commit.
ReplaysCommits(h, n, i, dc) ==
    IF i <= dc THEN on_shard_message_commit(h, log[n][i], h.blk[i]) ELSE h

\* Entry i of the log is replayed: pre-committed, and committed up to dc.
ReplayEntry(h, n, i, dc) ==
    LET g == on_pre_commit(h, log[n][i])
    IN  IF i <= dc THEN on_shard_message_commit(g, log[n][i], g.blk[i]) ELSE g

\* Mutant: chunk states are left as the replay leaves them.
TrustsReplay(h) == h

\* Chunks of the shards that are open after the replay are in use.
on_log_replay_done(h) ==
    [h EXCEPT !.m_state = [v \in VChunks |->
        IF \E s \in ShardIds : h.shard[s].v = v /\ h.shard[s].sb = "OPEN" THEN "INUSE" ELSE @[v]]]

\* The log is replayed from entry from + 1, the first one still in it.
Recovered(n, from) ==
    on_log_replay_done(
        FoldLeft(LAMBDA h, i : ReplayEntry(h, n, i, dc_lsn[n]),
                 on_shard_meta_blk_recover_completed(node[n]),
                 [i \in 1 .. Len(log[n]) - from |-> from + i]))

Restart(n) ==
    /\ RestartNode(n)
    /\ \E from \in 0 .. dc_lsn[n] : node' = [node EXCEPT ![n] = Recovered(n, from)]
    /\ reqs' = [r \in Reqs |-> IF reqs[r].node = n THEN Done ELSE reqs[r]]
    /\ seen' = [seen EXCEPT ![n] = @
          \cup (IF dc_lsn[n] < commit_lsn[n] THEN {"redo_commit"} ELSE {})
          \cup (IF \E i \in dc_lsn[n] + 1 .. Len(log[n]) :
                     log[n][i].type = "CREATE" /\ ~shard_exists(node[n], log[n][i].shard)
                THEN {"lost_select"} ELSE {})]
    /\ UNCHANGED gcs

Next ==
    \/ \E n \in Nodes, r \in Reqs :
         \/ CreateShard(n, r) \/ Propose(n, r) \/ on_error(n, r) \/ FailedCreate(n, r)
         \/ \E s \in ShardIds : SealShard(n, r, s)
    \/ \E n \in Nodes :
         \/ Follow(n) \/ Rollback(n) \/ Commit(n) \/ ElectLeader(n) \/ Restart(n)
         \/ \E v \in VChunks : GC(n, v)
    \/ RaftStep

Spec == Init /\ [][Next]_vars

-------------------------------------------------------------------------------
\* Properties.

\* The hardships some replica has been through.
Been == UNION {seen[n] : n \in Nodes}

\* Every variable keeps its kind (TypeOK), and
\* the assertions of the callbacks hold: a seal that is pre-committed, rolled
\* back or committed finds its shard, and finds it SEALED when it commits
\* (on_shard_message_pre_commit, _rollback, _commit), whatever the leader
\* changes and restarts, as long as a shard is sealed by one request.
AssertsHold == TypeOK /\ ("second_seal" \notin Been => \A n \in Nodes : node[n].ok)

\* No log ever holds two creates of one shard id: a leader hands out ids only
\* when it has applied all it found in its log, and the sequence number has
\* then caught up (generate_new_shard_id, add_new_shard_to_map).  Creates that
\* were cut short are left out: one that is held up across two elections of its
\* leader is appended with the id it was given before the first.
UniqueShardIds ==
    "cut_create" \notin Been => \A n \in Nodes : \A i, j \in DOMAIN log[n] :
        log[n][i].type = "CREATE" /\ log[n][j].type = "CREATE" /\ log[n][i].shard = log[n][j].shard => i = j

ChosenEntries(type, s) ==
    {i \in DOMAIN chosen : chosen[i].type = type /\ chosen[i].shard = s}

\* A replica that has applied all chosen entries holds exactly the shards they
\* create, in the v_chunks they name, and its superblks say SEALED exactly for
\* the shards they seal, also after restarts that repeat part of the log
\* (local_create_shard, update_shard_in_map).
SuperblksAreTheLog ==
    "cut_create" \notin Been => \A n \in Nodes : commit_lsn[n] = Len(chosen) =>
        \A s \in ShardIds :
            /\ shard_exists(node[n], s) <=> ChosenEntries("CREATE", s) # {}
            /\ \A i \in ChosenEntries("CREATE", s) : node[n].shard[s].v = chosen[i].v
            /\ node[n].shard[s].sb = "SEALED" <=> ChosenEntries("SEAL", s) # {}

\* A shard is SEALED in memory exactly when its seal is in the log: later puts
\* fail from the moment the seal is appended, are accepted again when it is
\* rolled back, and never after it has committed (on_shard_message_pre_commit,
\* on_shard_message_rollback and the replay of a restart), as long as a shard is
\* sealed by one request.
SealedIffLogged ==
    "second_seal" \notin Been =>
        \A n \in Nodes, s \in ShardIds : shard_exists(node[n], s) =>
            (node[n].shard[s].state = "SEALED"
                <=> \E i \in DOMAIN log[n] : log[n][i].type = "SEAL" /\ log[n][i].shard = s)

\* The v_chunks in which a shard is to be created by an entry of n's log or a
\* request of its clients.
PendingChunks(n) ==
    {log[n][i].v : i \in {j \in commit_lsn[n] + 1 .. Len(log[n]) : log[n][j].type = "CREATE"}}
        \cup {reqs[r].v : r \in {q \in Reqs : reqs[q].node = n /\ reqs[q].pc = "create"}}

OpenShards(n, v) == {s \in ShardIds : node[n].shard[s].sb = "OPEN" /\ node[n].shard[s].v = v}

\* The chunk of a shard that is open, or is being created, is INUSE on every
\* replica, so that neither garbage collection nor another create can take it,
\* through leader changes, roll backs at followers and restarts; and no two
\* open shards share a chunk (select_specific_chunk, release_chunk,
\* get_most_available_blk_chunk, on_log_replay_done).
OpenChunkInUse ==
    /\ Been = {} =>
         \A n \in Nodes : \A v \in OpenChunks(n) \cup PendingChunks(n) : node[n].m_state[v] = "INUSE"
    /\ Been \subseteq {"lost_select", "overtaken"} =>
         \A n \in Nodes : /\ \A v \in OpenChunks(n) : node[n].m_state[v] = "INUSE"
                          /\ \A v \in VChunks : Cardinality(OpenShards(n, v)) <= 1

\* A shard is registered in the physical chunk that is behind its v_chunk, so
\* that its puts and its garbage collection go where its blobs are
\* (get_blk_alloc_hints at the append, local_create_shard at the commit, with
\* garbage collection of the v_chunk in between).
ShardInItsChunk ==
    Been = {} =>
        \A n \in Nodes, s \in ShardIds : shard_exists(node[n], s) =>
            node[n].shard[s].p = node[n].p_chunk[node[n].shard[s].v]
==============================================================================
