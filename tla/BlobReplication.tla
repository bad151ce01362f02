--------------------------- MODULE BlobReplication ---------------------------
(***************************************************************************)
(* Blobs of one shard on the replicas of its PG: the put and the delete    *)
(* request, the callbacks with which the replicated log drives a replica,  *)
(* the checkpoint that makes the counters and the index durable, and the   *)
(* restart (HSHomeObject's blob manager and CP callbacks).  A replica that *)
(* has no space for a put is modelled in NoSpaceLeft.                      *)
(*                                                                         *)
(* A blob's content is the request that wrote it.  What blks hold for      *)
(* entry i of a replica's log is data[n][i]; the index maps blob ids to    *)
(* contents, to TOMB, or to NULL.                                          *)
(***************************************************************************)
EXTENDS ReplLog, SequencesExt

CONSTANTS
    Reqs,       \* client requests
    TOMB,       \* a deleted blob in the index
    MaxId,      \* bound: blob ids
    MaxCP       \* bound: checkpoints

ASSUME BlobAssumption ==
    {MaxId, MaxCP} \subseteq Nat /\ TOMB # NULL /\ {TOMB, NULL} \cap Reqs = {}

VARIABLES
    node,   \* per replica: what it keeps in memory
    disk,   \* per replica: what its checkpoints have made durable
    data,   \* per replica: what the blks of its log entries hold
    cp,     \* per replica: the checkpoint that is running, or NULL
    reqs,   \* per client request: where it is
    acked,  \* puts acknowledged to their clients
    cps,    \* how many checkpoints there were
    stale   \* was a put proposed with an id taken before its leader was ready

ownVars == <<node, disk, data, cp, reqs, acked, cps, stale>>
vars == <<replVars, ownVars>>

BlobIds == 0 .. MaxId - 1

Indexes == [BlobIds -> Reqs \cup {TOMB, NULL}]

NodeRecs ==
    [seq : 0 .. MaxId, index : Indexes, active : Nat, dirty : BOOLEAN, frees : Nat]

Entries ==
    [type : {"PUT", "DEL"}, blob : BlobIds, req : Reqs]
        \cup [type : {"CONFIG"}, by : Nodes, no : 1 .. MaxElect]

\* Every variable holds a value of its kind.
TypeOK ==
    /\ log \in [Nodes -> Seq(Entries)] /\ chosen \in Seq(Entries) /\ leader \in Nodes \cup {NULL}
    /\ commit_lsn \in [Nodes -> Nat] /\ dc_lsn \in [Nodes -> Nat]
    /\ node \in [Nodes -> NodeRecs]
    /\ disk \in [Nodes -> [seq : 0 .. MaxId, active : Nat, index : Indexes, cp_lsn : Nat]]
    /\ data \in [Nodes -> Seq(Reqs \cup {NULL})]
    /\ cp \in [Nodes -> {NULL} \cup [phase : {"switched", "client"}, index : Indexes, lsn : Nat]]
    /\ reqs \in [Reqs -> [pc : {"idle", "id", "logged", "done"}, node : Nodes \cup {NULL},
                          blob : BlobIds \cup {NULL}, term : 0 .. MaxElect \cup {NULL}]]
    /\ acked \subseteq Reqs
    /\ cps \in 0 .. MaxCP
    /\ stale \in BOOLEAN

Idle == [pc |-> "idle", node |-> NULL, blob |-> NULL, term |-> NULL]
Done == [Idle EXCEPT !.pc = "done"]
EmptyIndex == [b \in BlobIds |-> NULL]

Init ==
    /\ ReplInit
    /\ node = [n \in Nodes |->
                 [seq |-> 0, index |-> EmptyIndex, active |-> 0, dirty |-> FALSE, frees |-> 0]]
    /\ disk = [n \in Nodes |-> [seq |-> 0, active |-> 0, index |-> EmptyIndex, cp_lsn |-> 0]]
    /\ data = [n \in Nodes |-> <<>>]
    /\ cp = [n \in Nodes |-> NULL]
    /\ reqs = [r \in Reqs |-> Idle]
    /\ acked = {}
    /\ cps = 0
    /\ stale = FALSE

-------------------------------------------------------------------------------
\* Handlers, on a replica h.

live(index) == {b \in BlobIds : index[b] \notin {NULL, TOMB}}


\* Mutant: an id below the sequence number is taken to be in the index.
SkipsOldIds(h, b, d) ==
    IF h.index[b] = NULL /\ b >= h.seq
    THEN [h EXCEPT !.index[b] = d, !.seq = b + 1, !.active = @ + 1, !.dirty = TRUE] ELSE h

\* The index takes the blob unless it has an entry already; the sequence
\* number moves past it, so that the next leader does not hand it out again.
local_add_blob_info(h, b, d) ==
    IF h.index[b] = NULL
    THEN [h EXCEPT !.index[b] = d, !.seq = IF b + 1 > @ THEN b + 1 ELSE @,
                   !.active = @ + 1, !.dirty = TRUE]
    ELSE h

\* Does the commit of a put succeed: the id was free, deleted, or is the same put.
PutSucceeds(h, b, d) == h.index[b] \in {NULL, TOMB, d}

\* The index entry becomes a tombstone; the blks are freed later.
on_blob_del_commit(h, b) ==
    IF h.index[b] \in {NULL, TOMB} THEN h
    ELSE [h EXCEPT !.index[b] = TOMB, !.frees = @ + 1]

OnCommit(h, e, d) ==
    CASE e.type = "PUT" -> local_add_blob_info(h, e.blob, d)
      [] e.type = "DEL" -> on_blob_del_commit(h, e.blob)
      [] OTHER          -> h

\* The blks of a put: the ones the index already names for that id, or new ones.
Committed(h, b) == b # 0 /\ h.index[b] \notin {NULL, TOMB}

blob_put_get_blk_alloc_hints(h, e) ==
    CASE e.type = "PUT" /\ Committed(h, e.blob)  -> h.index[e.blob]
      [] e.type = "PUT" /\ ~Committed(h, e.blob) -> e.req
      [] OTHER                                   -> NULL

IsProposer(n, e) == e.type # "CONFIG" /\ reqs[e.req].node = n /\ reqs[e.req].pc = "logged"

-------------------------------------------------------------------------------
\* Client requests.

Accepts(n) == is_leader(n) /\ is_ready_for_traffic(n)

\* _put_blob takes a blob id before it looks whether this replica leads.
TakeBlobId(n, r) ==
    /\ reqs[r].pc = "idle"
    /\ node[n].seq < MaxId
    /\ node' = [node EXCEPT ![n].seq = @ + 1]
    /\ reqs' = [reqs EXCEPT ![r] = [pc |-> "id", node |-> n, blob |-> node[n].seq,
                                    term |-> IF Accepts(n) THEN elections ELSE NULL]]
    /\ UNCHANGED <<replVars, disk, data, cp, acked, cps, stale>>

AppendOwn(n, r, e) ==
    /\ AppendAtLeader(n, e)
    /\ data' = [data EXCEPT ![n] = Append(@, blob_put_get_blk_alloc_hints(node[n], e))]
    /\ reqs' = [reqs EXCEPT ![r] = [pc |-> "logged", node |-> n, blob |-> e.blob, term |-> NULL]]

\* The rest of _put_blob: refused, or proposed.
PutBlob(n, r) ==
    /\ reqs[r].pc = "id" /\ reqs[r].node = n
    /\ Accepts(n)
    /\ AppendOwn(n, r, [type |-> "PUT", blob |-> reqs[r].blob, req |-> r])
    /\ stale' = (stale \/ reqs[r].term # elections)
    /\ UNCHANGED <<node, disk, cp, acked, cps>>

\* Not the leader, not ready, no space, or an error of the log (on_error).
PutFails(n, r) ==
    /\ reqs[r].pc = "id" /\ reqs[r].node = n
    /\ reqs' = [reqs EXCEPT ![r] = Done]
    /\ UNCHANGED <<replVars, node, disk, data, cp, acked, cps, stale>>

DelBlob(n, r, b) ==
    /\ reqs[r].pc = "idle"
    /\ Accepts(n)
    /\ AppendOwn(n, r, [type |-> "DEL", blob |-> b, req |-> r])
    /\ UNCHANGED <<node, disk, cp, acked, cps, stale>>

-------------------------------------------------------------------------------
\* What the log makes the replicas do.

Follow(f) ==
    /\ AppendAtFollower(f)
    /\ data' = [data EXCEPT ![f] = Append(@, blob_put_get_blk_alloc_hints(node[f], NextEntry(f)))]
    /\ UNCHANGED <<node, disk, cp, reqs, acked, cps, stale>>

on_blob_message_rollback(f) ==
    /\ RollbackLast(f)
    /\ data' = [data EXCEPT ![f] = SubSeq(@, 1, Len(@) - 1)]
    /\ LET e == LastEntry(f)
       IN  reqs' = IF IsProposer(f, e) THEN [reqs EXCEPT ![e.req] = Done] ELSE reqs
    /\ UNCHANGED <<node, disk, cp, acked, cps, stale>>

Commit(n) ==
    /\ HasCommit(n)
    /\ CommitNext(n, dc_lsn[n])
    /\ LET e == CommitEntry(n)
           d == data[n][commit_lsn[n] + 1]
       IN  /\ node' = [node EXCEPT ![n] = OnCommit(@, e, d)]
           /\ reqs' = IF IsProposer(n, e) THEN [reqs EXCEPT ![e.req] = Done] ELSE reqs
           /\ acked' = IF IsProposer(n, e) /\ e.type = "PUT" /\ PutSucceeds(node[n], e.blob, d)
                       THEN acked \cup {e.req} ELSE acked
    /\ UNCHANGED <<disk, data, cp, cps, stale>>

\* The blks of a deleted blob are free once nobody reads them; then it counts.
FreeBlks(n) ==
    /\ node[n].frees > 0
    /\ node' = [node EXCEPT ![n].frees = @ - 1, ![n].active = @ - 1, ![n].dirty = TRUE]
    /\ UNCHANGED <<replVars, disk, data, cp, reqs, acked, cps, stale>>

ElectLeader(n) ==
    /\ Elect(n)
    /\ data' = [data EXCEPT ![n] = Append(@, NULL)]
    /\ UNCHANGED <<node, disk, cp, reqs, acked, cps, stale>>

RaftStep ==
    /\ \/ \E k \in 1 .. MaxLog : Choose(k)
       \/ \E n \in Nodes : FlushDCLsn(n)
    /\ UNCHANGED ownVars

-------------------------------------------------------------------------------
\* Checkpoints and restarts.

\* A checkpoint holds the index as it is at the switch over; the counters are
\* written first, as they are then.
CPSwitchover(n) ==
    /\ cps < MaxCP
    /\ cp[n] = NULL
    /\ cp' = [cp EXCEPT ![n] = [phase |-> "switched", index |-> node[n].index, lsn |-> commit_lsn[n]]]
    /\ cps' = cps + 1
    /\ UNCHANGED <<replVars, node, disk, data, reqs, acked, stale>>

cp_flush(n) ==
    /\ cp[n] # NULL
    /\ cp[n].phase = "switched"
    /\ cp' = [cp EXCEPT ![n].phase = "client"]
    /\ disk' = IF node[n].dirty
                THEN [disk EXCEPT ![n].seq = node[n].seq, ![n].active = node[n].active] ELSE disk
    /\ node' = [node EXCEPT ![n].dirty = FALSE]
    /\ UNCHANGED <<replVars, data, reqs, acked, cps, stale>>

IndexFlush(n) ==
    /\ cp[n] # NULL
    /\ cp[n].phase = "client"
    /\ disk' = [disk EXCEPT ![n].index = cp[n].index, ![n].cp_lsn = cp[n].lsn]
    /\ cp' = [cp EXCEPT ![n] = NULL]
    /\ CPDone(n, cp[n].lsn)
    /\ UNCHANGED <<node, data, reqs, acked, cps, stale>>


\* Blobs are counted from the index once the log is replayed.
refresh_pg_statistics(h) == [h EXCEPT !.active = Cardinality(live(h.index)), !.frees = 0, !.dirty = TRUE]

\* Memory as the superblks and the index give it, and the log replayed on it
\* from the last checkpoint to the durable commit lsn.
Recovered(n) ==
    refresh_pg_statistics(
        FoldLeft(LAMBDA h, i : OnCommit(h, log[n][i], data[n][i]),
                 [seq |-> disk[n].seq, index |-> disk[n].index, active |-> disk[n].active,
                  dirty |-> FALSE, frees |-> 0],
                 [i \in 1 .. dc_lsn[n] - disk[n].cp_lsn |-> disk[n].cp_lsn + i]))

Restart(n) ==
    /\ RestartNode(n)
    /\ node' = [node EXCEPT ![n] = Recovered(n)]
    /\ cp' = [cp EXCEPT ![n] = NULL]
    /\ reqs' = [r \in Reqs |-> IF reqs[r].node = n THEN Done ELSE reqs[r]]
    /\ UNCHANGED <<disk, data, acked, cps, stale>>

Next ==
    \/ \E n \in Nodes, r \in Reqs :
         \/ TakeBlobId(n, r) \/ PutBlob(n, r) \/ PutFails(n, r)
         \/ \E b \in BlobIds : DelBlob(n, r, b)
    \/ \E n \in Nodes :
         \/ Follow(n) \/ on_blob_message_rollback(n) \/ Commit(n) \/ FreeBlks(n) \/ ElectLeader(n)
         \/ CPSwitchover(n) \/ cp_flush(n) \/ IndexFlush(n) \/ Restart(n)
    \/ RaftStep

Spec == Init /\ [][Next]_vars

-------------------------------------------------------------------------------
\* Properties.


\* A put that was acknowledged is chosen, and is in the index of every replica
\* that has applied it, with the content of that put, unless it was deleted: through
\* leader changes, checkpoints cut in two by a crash and the replay that
\* follows (on_blob_put_commit, on_blob_del_commit, cp_flush).
AckedIsKept ==
    ~stale => \A r \in acked : \E i \in DOMAIN chosen :
        /\ chosen[i].type = "PUT" /\ chosen[i].req = r
        /\ \A n \in Nodes : i <= commit_lsn[n] =>
             \/ node[n].index[chosen[i].blob] = r
             \/ /\ node[n].index[chosen[i].blob] = TOMB
                /\ \E j \in i .. commit_lsn[n] :
                     chosen[j].type = "DEL" /\ chosen[j].blob = chosen[i].blob

==============================================================================
