------------------------------- MODULE ReplLog -------------------------------
(***************************************************************************)
(* The replicated log under a PG: HomeStore's repl_dev, which is not part  *)
(* of this repository.  It is modelled by what the callbacks of            *)
(* ReplicationStateMachine rely on:                                        *)
(*                                                                         *)
(*  - an entry is appended at the leader and then copied, in order, by the *)
(*    other replicas, which first roll back, from the end, the entries the *)
(*    leader does not have;                                                *)
(*  - an entry is chosen once enough replicas hold it and an entry of the  *)
(*    leader's own term above it; replicas apply chosen entries in order   *)
(*    and learn of them late;                                              *)
(*  - a new leader appends a configuration entry of its own and is ready   *)
(*    for traffic once it has applied everything up to that entry;         *)
(*  - a replica that restarts keeps its log and the commit lsn it last     *)
(*    made durable (dc_lsn).                                               *)
(*                                                                         *)
(* Nodes are the replicas observed: two of a group of three.  The third    *)
(* follows the leader in its own time and votes for whoever holds what is  *)
(* chosen.  An entry of the leader may then be chosen before the other     *)
(* observed replica holds it, or late; until it is, it can be lost in an   *)
(* election.                                                               *)
(***************************************************************************)
EXTENDS Naturals, Sequences, FiniteSets

CONSTANTS
    Nodes,      \* the replicas observed
    NULL,       \* no leader, no value
    MaxLog,     \* bound: entries a log may hold
    MaxElect,   \* bound: elections
    MaxCrash    \* bound: restarts

ASSUME ReplLogAssumption == NULL \notin Nodes /\ {MaxLog, MaxElect, MaxCrash} \subseteq Nat

VARIABLES
    log,         \* per node: its log
    chosen,      \* the prefix of the log that is chosen
    leader,      \* the leader, or NULL
    gate,        \* index of the leader's configuration entry
    commit_lsn,  \* per node: the last entry it has applied
    dc_lsn,      \* per node: the commit lsn it has made durable
    elections,   \* how many elections there were
    crashes      \* how many restarts there were

replVars == <<log, chosen, leader, gate, commit_lsn, dc_lsn, elections, crashes>>

ReplInit ==
    /\ log = [n \in Nodes |-> <<>>]
    /\ chosen = <<>>
    /\ leader \in Nodes
    /\ gate = 0
    /\ commit_lsn = [n \in Nodes |-> 0]
    /\ dc_lsn = [n \in Nodes |-> 0]
    /\ elections = 0
    /\ crashes = 0

is_leader(n) == leader = n

is_ready_for_traffic(n) == commit_lsn[n] >= gate

\* The log of a is that of b, or a longer one.
Covers(a, b) ==
    /\ Len(log[b]) <= Len(log[a])
    /\ \A i \in 1 .. Len(log[b]) : log[a][i] = log[b][i]

\* n holds the first k entries that are chosen.
Holds(n, k) ==
    /\ k <= Len(log[n])
    /\ \A i \in 1 .. k : log[n][i] = chosen[i]

ConfigEntry(n) == [type |-> "CONFIG", by |-> n, no |-> elections + 1]

Elect(n) ==
    /\ ~is_leader(n)
    /\ elections < MaxElect
    /\ Holds(n, Len(chosen))
    /\ Len(log[n]) < MaxLog
    /\ leader' = n
    /\ log' = [log EXCEPT ![n] = Append(@, ConfigEntry(n))]
    /\ gate' = Len(log[n]) + 1
    /\ elections' = elections + 1
    /\ UNCHANGED <<chosen, commit_lsn, dc_lsn, crashes>>

AppendAtLeader(n, e) ==
    /\ is_leader(n)
    /\ Len(log[n]) < MaxLog
    /\ log' = [log EXCEPT ![n] = Append(@, e)]
    /\ UNCHANGED <<chosen, leader, gate, commit_lsn, dc_lsn, elections, crashes>>

\* The entry the follower f is to append next; f has nothing to roll back.
HasNext(f) ==
    /\ leader \in Nodes \ {f}
    /\ Covers(leader, f)
    /\ Len(log[leader]) > Len(log[f])

NextEntry(f) == log[leader][Len(log[f]) + 1]

AppendAtFollower(f) ==
    /\ HasNext(f)
    /\ log' = [log EXCEPT ![f] = Append(@, NextEntry(f))]
    /\ UNCHANGED <<chosen, leader, gate, commit_lsn, dc_lsn, elections, crashes>>

\* f holds entries its leader does not have: the last of them goes.
MustRollback(f) == leader \in Nodes \ {f} /\ ~Covers(leader, f)

LastEntry(n) == log[n][Len(log[n])]

RollbackLast(f) ==
    /\ MustRollback(f)
    /\ log' = [log EXCEPT ![f] = SubSeq(@, 1, Len(@) - 1)]
    /\ UNCHANGED <<chosen, leader, gate, commit_lsn, dc_lsn, elections, crashes>>

Choose(k) ==
    /\ leader # NULL
    /\ k > Len(chosen) /\ k >= gate /\ k <= Len(log[leader])
    /\ chosen' = SubSeq(log[leader], 1, k)
    /\ UNCHANGED <<log, leader, gate, commit_lsn, dc_lsn, elections, crashes>>

HasCommit(n) == commit_lsn[n] < Len(chosen) /\ Holds(n, commit_lsn[n] + 1)

CommitEntry(n) == log[n][commit_lsn[n] + 1]

\* n applies the next chosen entry; durable is the dc_lsn it has afterwards.
CommitNext(n, durable) ==
    /\ HasCommit(n)
    /\ commit_lsn' = [commit_lsn EXCEPT ![n] = @ + 1]
    /\ dc_lsn' = [dc_lsn EXCEPT ![n] = durable]
    /\ UNCHANGED <<log, chosen, leader, gate, elections, crashes>>

\* The timer that makes the commit lsn durable.
FlushDCLsn(n) ==
    /\ dc_lsn[n] < commit_lsn[n]
    /\ dc_lsn' = [dc_lsn EXCEPT ![n] = commit_lsn[n]]
    /\ UNCHANGED <<log, chosen, leader, gate, commit_lsn, elections, crashes>>

\* A checkpoint that covers the log up to lsn is complete.
CPDone(n, lsn) ==
    /\ dc_lsn' = [dc_lsn EXCEPT ![n] = IF lsn > @ THEN lsn ELSE @]
    /\ UNCHANGED <<log, chosen, leader, gate, commit_lsn, elections, crashes>>

RestartNode(n) ==
    /\ crashes < MaxCrash
    /\ crashes' = crashes + 1
    /\ leader' = IF is_leader(n) THEN NULL ELSE leader
    /\ commit_lsn' = [commit_lsn EXCEPT ![n] = dc_lsn[n]]
    /\ UNCHANGED <<log, chosen, gate, dc_lsn, elections>>
==============================================================================
