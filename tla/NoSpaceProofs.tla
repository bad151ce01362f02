---------------------------- MODULE NoSpaceProofs ----------------------------
(***************************************************************************)
(* The assertions of the no-space bookkeeping hold, and a chunk is         *)
(* collected only when all that writes to it is applied, for any number of *)
(* replicas and chunks, logs of any length and any number of faults.       *)
(***************************************************************************)
EXTENDS NoSpaceLeft, SequenceTheorems, TLAPS

LogType ==
    /\ log \in [Nodes -> Seq(Entries)] /\ chosen \in Seq(Entries) /\ leader \in Nodes \cup {NULL}
    /\ commit_lsn \in [Nodes -> 0 .. MaxLog] /\ dc_lsn \in [Nodes -> 0 .. MaxLog]
    /\ gate \in Nat /\ elections \in 0 .. MaxElect

Infos == [wait_commit_lsn : 0 .. MaxLsn, chunk_id : Chunks \cup {NULL},
          quiesced : Chunks \cup {NULL}]

OwnType ==
    /\ node \in [Nodes -> Infos]
    /\ full \in [Nodes -> SUBSET Chunks]
    /\ fills \in 0 .. MaxFull /\ gcfails \in 0 .. MaxGCFail

\* What raft promises: a replica holds what it has applied, and the leader holds
\* all that is chosen.
LogSafe ==
    /\ \A n \in Nodes : Len(log[n]) <= MaxLog
    /\ \A n \in Nodes : /\ commit_lsn[n] <= Len(chosen) /\ dc_lsn[n] = commit_lsn[n]
                        /\ Holds(n, commit_lsn[n])
    /\ leader # NULL => Holds(leader, Len(chosen))

\* A replica that waits for an lsn follows a leader whose next entry after that
\* lsn it still has no room for, and has not got past it.
WaitsInPlace(n) ==
    Waits(n) =>
        /\ node[n].quiesced = NULL
        /\ node[n].chunk_id \in full[n]
        /\ leader # n
        /\ Len(log[n]) <= node[n].wait_commit_lsn
        /\ leader # NULL =>
             /\ Covers(leader, n)
             /\ node[n].wait_commit_lsn + 1 <= Len(log[leader])
             /\ log[leader][node[n].wait_commit_lsn + 1].type = "DATA"
             /\ log[leader][node[n].wait_commit_lsn + 1].chunk = node[n].chunk_id

WaitInv == ~stale => \A n \in Nodes : WaitsInPlace(n)

\* The invariant of the log alone, and the whole inductive invariant.
LogInv == LogType /\ LogSafe
IInv == LogInv /\ OwnType /\ {ok, stale} \subseteq BOOLEAN /\ (~stale => ok) /\ WaitInv
          /\ CollectsOnlyApplied

-------------------------------------------------------------------------------
\* What the entries of a log are.
LEMMA EntryKinds ==
    /\ \A e \in Entries : e.type = "DATA" => e.chunk \in Chunks
    /\ \A c \in Chunks, k \in 0 .. MaxElect : [type |-> "DATA", chunk |-> c, no |-> k] \in Entries
    /\ \A n \in Nodes, k \in 1 .. MaxElect : [type |-> "CONFIG", by |-> n, no |-> k] \in Entries
  BY DEF Entries

\* An entry is appended.
LEMMA Appended ==
    ASSUME NEW s \in Seq(Entries), NEW e \in Entries
    PROVE  /\ Append(s, e) \in Seq(Entries)
           /\ Len(Append(s, e)) = Len(s) + 1
           /\ \A i \in 1 .. Len(s) : Append(s, e)[i] = s[i]
           /\ Append(s, e)[Len(s) + 1] = e
  BY AppendProperties

\* A prefix of a log.
LEMMA Cut ==
    ASSUME NEW s \in Seq(Entries), NEW k \in 0 .. Len(s)
    PROVE  /\ SubSeq(s, 1, k) \in Seq(Entries)
           /\ Len(SubSeq(s, 1, k)) = k
           /\ \A i \in 1 .. k : SubSeq(s, 1, k)[i] = s[i]
  <1>1. Len(s) \in Nat /\ \A i \in 1 .. Len(s) : s[i] \in Entries
    BY LenProperties
  <1>2. \A i \in 1 .. k : s[i] \in Entries
    BY <1>1
  <1> QED
    BY <1>1, <1>2, SubSeqProperties

\* Entries and lengths of the logs.
LEMMA LogFacts ==
    ASSUME LogInv
    PROVE  /\ Len(chosen) \in Nat
           /\ \A n \in Nodes : /\ log[n] \in Seq(Entries) /\ Len(log[n]) \in Nat /\ commit_lsn[n] \in Nat
                               /\ \A i \in 1 .. Len(log[n]) : log[n][i] \in Entries
  BY LenProperties DEF LogInv, LogType

-------------------------------------------------------------------------------
\* The log.

\* A step that leaves the log alone.
LEMMA SameLog ==
    ASSUME LogInv, UNCHANGED replVars
    PROVE  LogInv'
  BY DEF LogInv, LogType, LogSafe, Holds, replVars

\* The leader appends an entry (async_alloc_write).
LEMMA LeaderAppends ==
    ASSUME LogInv, NEW n \in Nodes, NEW e \in Entries, AppendAtLeader(n, e)
    PROVE  LogInv'
  <1> USE DEF AppendAtLeader
  <1>1. /\ log'[n] = Append(log[n], e)
        /\ \A m \in Nodes : m # n => log'[m] = log[m]
    BY DEF LogInv, LogType
  <1>2. /\ log[n] \in Seq(Entries) /\ Len(log[n]) \in Nat
    BY LogFacts
  <1>3. /\ log'[n] \in Seq(Entries) /\ Len(log'[n]) = Len(log[n]) + 1
        /\ \A i \in 1 .. Len(log[n]) : log'[n][i] = log[n][i]
    BY <1>1, <1>2, Appended
  <1>4. LogType'
    BY <1>1, <1>3 DEF LogInv, LogType
  <1>5. \A m \in Nodes, k \in Nat : Holds(m, k) => Holds(m, k)'
    BY <1>1, <1>2, <1>3 DEF Holds
  <1>6. LogSafe'
    BY <1>1, <1>2, <1>3, <1>5, LogFacts, ReplLogAssumption DEF LogInv, LogSafe, LogType
  <1> QED
    BY <1>4, <1>6 DEF LogInv

\* A follower appends the next entry of its leader.
LEMMA FollowerAppends ==
    ASSUME LogInv, NEW f \in Nodes, AppendAtFollower(f)
    PROVE  /\ LogInv'
           /\ NextEntry(f) \in Entries
           /\ log' = [log EXCEPT ![f] = Append(@, NextEntry(f))]
  <1> USE DEF AppendAtFollower
  <1>1. /\ leader \in Nodes /\ Len(log[leader]) > Len(log[f]) /\ leader # f
    BY DEF HasNext
  <1>2. NextEntry(f) \in Entries
    BY <1>1, LogFacts DEF NextEntry
  <1>3. /\ log'[f] = Append(log[f], NextEntry(f))
        /\ \A m \in Nodes : m # f => log'[m] = log[m]
    BY DEF LogInv, LogType
  <1>4. /\ log[f] \in Seq(Entries) /\ Len(log[f]) \in Nat
    BY LogFacts
  <1>5. /\ log'[f] \in Seq(Entries) /\ Len(log'[f]) = Len(log[f]) + 1
        /\ \A i \in 1 .. Len(log[f]) : log'[f][i] = log[f][i]
    BY <1>2, <1>3, <1>4, Appended
  <1>6. LogType'
    BY <1>3, <1>5 DEF LogInv, LogType
  <1>7. \A m \in Nodes, k \in Nat : Holds(m, k) => Holds(m, k)'
    BY <1>3, <1>4, <1>5 DEF Holds
  <1>8. LogSafe'
    BY <1>1, <1>3, <1>5, <1>7, LogFacts, ReplLogAssumption DEF LogInv, LogSafe, LogType
  <1> QED
    BY <1>2, <1>6, <1>8 DEF LogInv

\* A roll back leaves what is applied: the leader holds it.
LEMMA RollsBack ==
    ASSUME LogInv, NEW f \in Nodes, RollbackLast(f)
    PROVE  /\ LogInv'
           /\ Len(log[f]) \in Nat \ {0}
           /\ Len(log'[f]) = Len(log[f]) - 1
           /\ \A i \in 1 .. Len(log'[f]) : log'[f][i] = log[f][i]
           /\ \A m \in Nodes : m # f => log'[m] = log[m]
  <1> USE DEF RollbackLast
  <1>1. leader \in Nodes /\ leader # f /\ ~Covers(leader, f)
    BY DEF MustRollback
  <1>2. Len(log[f]) > commit_lsn[f]
    <2> SUFFICES ASSUME Len(log[f]) <= commit_lsn[f] PROVE FALSE
      BY LogFacts
    <2>1. Holds(f, commit_lsn[f]) /\ commit_lsn[f] <= Len(chosen) /\ Holds(leader, Len(chosen))
      BY <1>1, ReplLogAssumption DEF LogInv, LogSafe
    <2>2. Covers(leader, f)
      BY <1>1, <2>1, LogFacts DEF Covers, Holds
    <2> QED
      BY <1>1, <2>2
  <1>3. /\ log[f] \in Seq(Entries) /\ Len(log[f]) \in Nat \ {0} /\ commit_lsn[f] \in Nat
    BY <1>2, LogFacts
  <1>4. /\ log'[f] = SubSeq(log[f], 1, Len(log[f]) - 1)
        /\ \A m \in Nodes : m # f => log'[m] = log[m]
    BY DEF LogInv, LogType
  <1>5. /\ log'[f] \in Seq(Entries) /\ Len(log'[f]) = Len(log[f]) - 1
        /\ \A i \in 1 .. Len(log[f]) - 1 : log'[f][i] = log[f][i]
    BY <1>3, <1>4, Cut
  <1>6. LogType'
    BY <1>4, <1>5 DEF LogInv, LogType
  <1>7. \A m \in Nodes : Holds(m, commit_lsn[m])'
    BY <1>2, <1>3, <1>4, <1>5, LogFacts DEF Holds, LogInv, LogSafe
  <1>8. Holds(leader, Len(chosen))'
    BY <1>1, <1>4, ReplLogAssumption DEF Holds, LogInv, LogSafe
  <1>9. \A m \in Nodes : Len(log'[m]) <= MaxLog
    BY <1>3, <1>4, <1>5, ReplLogAssumption DEF LogInv, LogSafe
  <1>10. LogSafe'
    BY <1>7, <1>8, <1>9 DEF LogInv, LogSafe
  <1> QED
    BY <1>3, <1>4, <1>5, <1>6, <1>10 DEF LogInv

\* More of the leader's log is chosen: what was chosen stays.
LEMMA Chooses ==
    ASSUME LogInv, NEW k \in Nat, Choose(k)
    PROVE  LogInv'
  <1> USE DEF Choose
  <1>1. leader \in Nodes /\ k \in 0 .. Len(log[leader]) /\ log[leader] \in Seq(Entries)
    BY LogFacts DEF LogInv, LogType
  <1>2. /\ chosen' \in Seq(Entries) /\ Len(chosen') = k
        /\ \A i \in 1 .. k : chosen'[i] = log[leader][i]
    BY <1>1, Cut
  <1>3. LogType'
    BY <1>2 DEF LogInv, LogType
  <1>4. \A i \in 1 .. Len(chosen) : chosen'[i] = chosen[i]
    BY <1>1, <1>2, LogFacts, ReplLogAssumption DEF LogInv, LogSafe, Holds
  <1>5. \A m \in Nodes : Holds(m, commit_lsn[m])'
    <2> TAKE m \in Nodes
    <2>1. /\ Holds(m, commit_lsn[m]) /\ commit_lsn[m] <= Len(chosen)
          /\ commit_lsn[m] \in Nat /\ Len(chosen) \in Nat
      BY LogFacts DEF LogInv, LogSafe
    <2> QED
      BY <2>1, <1>4 DEF Holds
  <1>6. Holds(leader, Len(chosen))'
    BY <1>1, <1>2 DEF Holds
  <1>7. LogSafe'
    BY <1>1, <1>2, <1>5, <1>6, LogFacts DEF LogInv, LogSafe
  <1> QED
    BY <1>3, <1>7 DEF LogInv

\* A replica applies the next chosen entry.
LEMMA Commits ==
    ASSUME LogInv, NEW n \in Nodes, CommitNext(n, commit_lsn[n] + 1)
    PROVE  LogInv' /\ commit_lsn'[n] = commit_lsn[n] + 1
                   /\ \A m \in Nodes : m # n => commit_lsn'[m] = commit_lsn[m]
  <1> USE DEF CommitNext
  <1>1. /\ commit_lsn'[n] = commit_lsn[n] + 1 /\ dc_lsn'[n] = commit_lsn[n] + 1
        /\ \A m \in Nodes : m # n => commit_lsn'[m] = commit_lsn[m] /\ dc_lsn'[m] = dc_lsn[m]
    BY DEF LogInv, LogType
  <1>2. commit_lsn[n] + 1 \in 0 .. MaxLog /\ commit_lsn[n] + 1 <= Len(chosen)
    BY LogFacts, ReplLogAssumption DEF HasCommit, Holds, LogInv, LogSafe
  <1>3. LogType'
    BY <1>1, <1>2 DEF LogInv, LogType
  <1>4. \A m \in Nodes : Holds(m, commit_lsn[m])'
    BY <1>1 DEF HasCommit, Holds, LogInv, LogSafe
  <1>5. LogSafe'
    BY <1>1, <1>2, <1>4, LogFacts DEF LogInv, LogSafe, Holds
  <1> QED
    BY <1>1, <1>3, <1>5 DEF LogInv

\* A new leader appends its configuration entry.
LEMMA Elects ==
    ASSUME LogInv, NEW n \in Nodes, Elect(n)
    PROVE  /\ LogInv'
           /\ Len(log'[n]) = Len(log[n]) + 1
           /\ \A i \in 1 .. Len(log[n]) : log'[n][i] = log[n][i]
           /\ log'[n][Len(log[n]) + 1].type = "CONFIG"
           /\ \A m \in Nodes : m # n => log'[m] = log[m]
  <1> USE DEF Elect
  <1>0. elections + 1 \in 1 .. MaxElect
    BY ReplLogAssumption DEF LogInv, LogType
  <1>1. ConfigEntry(n) \in Entries /\ ConfigEntry(n).type = "CONFIG"
    BY <1>0, EntryKinds DEF ConfigEntry
  <1>2. /\ log'[n] = Append(log[n], ConfigEntry(n))
        /\ \A m \in Nodes : m # n => log'[m] = log[m]
    BY DEF LogInv, LogType
  <1>3. /\ log[n] \in Seq(Entries) /\ Len(log[n]) \in Nat
    BY LogFacts
  <1>4. /\ log'[n] \in Seq(Entries) /\ Len(log'[n]) = Len(log[n]) + 1
        /\ \A i \in 1 .. Len(log[n]) : log'[n][i] = log[n][i]
        /\ log'[n][Len(log[n]) + 1] = ConfigEntry(n)
    BY <1>1, <1>2, <1>3, Appended
  <1>5. LogType'
    BY <1>2, <1>3, <1>4, ReplLogAssumption DEF LogInv, LogType
  <1>6. \A m \in Nodes, k \in Nat : Holds(m, k) => Holds(m, k)'
    <2> SUFFICES ASSUME NEW m \in Nodes, NEW k \in Nat, Holds(m, k)
                 PROVE  k <= Len(log'[m]) /\ \A i \in 1 .. k : log'[m][i] = chosen[i]
      BY <1>2 DEF Holds, Elect
    <2>1. k <= Len(log[m]) /\ \A i \in 1 .. k : log[m][i] = chosen[i]
      BY DEF Holds
    <2>2. CASE m # n
      BY <1>2, <1>3, <2>1, <2>2
    <2>3. CASE m = n
      BY <1>2, <1>3, <1>4, <2>1, <2>3
    <2> QED BY <2>2, <2>3
  <1>7. LogSafe'
    BY <1>2, <1>3, <1>4, <1>6, LogFacts, ReplLogAssumption DEF LogInv, LogSafe, LogType
  <1> QED
    BY <1>1, <1>2, <1>4, <1>5, <1>7 DEF LogInv

\* A restart loses nothing that was applied: dc_lsn is as far as commit_lsn.
LEMMA Restarts ==
    ASSUME LogInv, NEW n \in Nodes, RestartNode(n)
    PROVE  LogInv' /\ commit_lsn' = commit_lsn
  <1>1. commit_lsn' = commit_lsn
    BY DEF RestartNode, LogInv, LogType, LogSafe
  <1>2. LogInv'
    BY <1>1, ReplLogAssumption DEF RestartNode, LogInv, LogType, LogSafe, Holds
  <1> QED
    BY <1>1, <1>2

-------------------------------------------------------------------------------
\* The no-space bookkeeping.

\* A replica that waits, while no leader was elected in the meantime.
LEMMA Waiting ==
    ASSUME IInv, NEW n \in Nodes, Waits(n), ~stale
    PROVE  /\ node[n].quiesced = NULL
           /\ node[n].chunk_id \in full[n]
           /\ leader # n
           /\ Len(log[n]) <= node[n].wait_commit_lsn
           /\ leader # NULL =>
                /\ leader \in Nodes
                /\ Covers(leader, n)
                /\ node[n].wait_commit_lsn + 1 <= Len(log[leader])
                /\ log[leader][node[n].wait_commit_lsn + 1].type = "DATA"
                /\ log[leader][node[n].wait_commit_lsn + 1].chunk = node[n].chunk_id
  <1>1. WaitsInPlace(n)
    BY DEF IInv, WaitInv
  <1>2. leader # NULL => leader \in Nodes
    BY DEF IInv, LogInv, LogType
  <1> QED
    BY <1>1, <1>2 DEF WaitsInPlace

\* What a replica remembers.
LEMMA NodeFacts ==
    ASSUME IInv
    PROVE  /\ MaxLog \in Nat /\ MaxLsn = MaxLog + 1
           /\ \A n \in Nodes : /\ node[n].wait_commit_lsn \in 0 .. MaxLsn
                               /\ node[n].chunk_id \in Chunks \cup {NULL}
                               /\ node[n].quiesced \in Chunks \cup {NULL}
                               /\ Len(log[n]) <= MaxLog
                               /\ full[n] \subseteq Chunks
  BY ReplLogAssumption DEF IInv, OwnType, Infos, LogInv, LogSafe, MaxLsn

\* A replica goes on waiting in place when its own log stays as it is and that of
\* its leader grows.
LEMMA WaitKept ==
    ASSUME IInv, ~stale, NEW m \in Nodes, Waits(m), NEW l \in Nodes, leader = l, leader' = l,
           node'[m] = node[m], full[m] \subseteq full'[m], log'[m] = log[m],
           Len(log'[l]) \in Nat, Len(log[l]) <= Len(log'[l]),
           \A i \in 1 .. Len(log[l]) : log'[l][i] = log[l][i]
    PROVE  WaitsInPlace(m)'
  <1> DEFINE w == node[m].wait_commit_lsn
  <1>1. w \in Nat /\ Len(log[m]) \in Nat /\ Len(log[l]) \in Nat /\ l # NULL
    BY NodeFacts, LogFacts, ReplLogAssumption DEF IInv
  <1>2. /\ node[m].quiesced = NULL /\ node[m].chunk_id \in full[m] /\ l # m /\ Len(log[m]) <= w
        /\ Covers(l, m) /\ w + 1 <= Len(log[l])
        /\ log[l][w + 1].type = "DATA" /\ log[l][w + 1].chunk = node[m].chunk_id
    BY <1>1, Waiting
  <1>3. Covers(l, m)'
    <2>1. Len(log[m]) <= Len(log[l])
      BY <1>2 DEF Covers
    <2>2. ASSUME NEW i \in 1 .. Len(log[m]) PROVE log'[l][i] = log[m][i]
      <3>1. log[l][i] = log[m][i]
        BY <1>2, <2>2 DEF Covers
      <3>2. i \in 1 .. Len(log[l])
        BY <1>1, <2>1, <2>2
      <3> QED BY <3>1, <3>2
    <2>3. Len(log[m]) <= Len(log'[l])
      BY <1>1, <2>1
    <2> QED BY <2>2, <2>3 DEF Covers
  <1>4. log'[l][w + 1] = log[l][w + 1] /\ w + 1 <= Len(log'[l])
    BY <1>1, <1>2
  <1> QED
    BY <1>2, <1>3, <1>4 DEF WaitsInPlace

\* Nothing changes for a replica that waits.
LEMMA WaitSame ==
    ASSUME IInv, ~stale, NEW m \in Nodes, Waits(m), leader' \in {leader, NULL},
           node'[m] = node[m], full[m] \subseteq full'[m], log' = log
    PROVE  WaitsInPlace(m)'
  <1>1. CASE leader' = NULL
    <2>1. /\ node[m].quiesced = NULL /\ node[m].chunk_id \in full[m]
          /\ Len(log[m]) <= node[m].wait_commit_lsn /\ m # NULL
      BY Waiting, ReplLogAssumption
    <2> QED BY <1>1, <2>1 DEF WaitsInPlace
  <1>2. CASE leader' # NULL
    <2>1. leader \in Nodes /\ leader' = leader
      BY <1>2 DEF IInv, LogInv, LogType
    <2>2. Len(log[leader]) \in Nat
      BY <2>1, LogFacts DEF IInv
    <2> QED BY <2>1, <2>2, WaitKept
  <1> QED BY <1>1, <1>2

\* What the setters of the error do.
LEMMA Set ==
    ASSUME NEW h \in Infos, NEW l \in 0 .. MaxLsn, NEW c \in Chunks
    PROVE  /\ set_no_space_left_error_info(h, l, c) \in Infos
           /\ set_no_space_left_error_info(h, l, c).wait_commit_lsn = l
           /\ set_no_space_left_error_info(h, l, c).chunk_id = c
           /\ set_no_space_left_error_info(h, l, c).quiesced = h.quiesced
  <1>1. set_no_space_left_error_info(h, l, c) \in Infos
    BY DEF Infos, set_no_space_left_error_info
  <1>2. set_no_space_left_error_info(h, l, c).wait_commit_lsn = l
    BY DEF Infos, set_no_space_left_error_info
  <1>3. set_no_space_left_error_info(h, l, c).chunk_id = c
    BY DEF Infos, set_no_space_left_error_info
  <1>4. set_no_space_left_error_info(h, l, c).quiesced = h.quiesced
    BY DEF Infos, set_no_space_left_error_info
  <1> QED
    BY <1>1, <1>2, <1>3, <1>4

\* reset_no_space_left_error_info keeps the chunk that is being collected.
LEMMA Reset ==
    ASSUME NEW h \in Infos
    PROVE  /\ reset_no_space_left_error_info(h) \in Infos
           /\ reset_no_space_left_error_info(h).wait_commit_lsn = MaxLsn
           /\ reset_no_space_left_error_info(h).quiesced = h.quiesced
  <1>0. MaxLsn \in 0 .. MaxLsn
    BY ReplLogAssumption DEF MaxLsn
  <1>1. reset_no_space_left_error_info(h) \in Infos
    BY <1>0 DEF Infos, reset_no_space_left_error_info
  <1>2. reset_no_space_left_error_info(h).wait_commit_lsn = MaxLsn
    BY DEF Infos, reset_no_space_left_error_info
  <1>3. reset_no_space_left_error_info(h).quiesced = h.quiesced
    BY DEF Infos, reset_no_space_left_error_info
  <1> QED
    BY <1>1, <1>2, <1>3

\* handle_no_space_left keeps the kind of the error.
LEMMA Handle ==
    ASSUME NEW h \in Infos
    PROVE  handle_no_space_left(h) \in Infos
  BY DEF Infos, handle_no_space_left

\* A log that only grows, by entries that are no DATA or at replicas that take
\* requests, leaves CollectsOnlyApplied true.
LEMMA StillCollects ==
    ASSUME IInv, LogInv', stale' = stale, commit_lsn' = commit_lsn,
           \A n \in Nodes : node'[n].quiesced = node[n].quiesced,
           \A n \in Nodes : node[n].quiesced = NULL \/ log'[n] = log[n]
    PROVE  CollectsOnlyApplied'
  <1> SUFFICES ASSUME ~stale, NEW n \in Nodes, NEW i \in commit_lsn[n] + 1 .. Len(log'[n]),
                      log'[n][i].type = "DATA"
               PROVE  log'[n][i].chunk # node[n].quiesced
    BY DEF CollectsOnlyApplied
  <1>1. CASE log'[n] = log[n]
    BY <1>1 DEF IInv, CollectsOnlyApplied
  <1>2. CASE node[n].quiesced = NULL
    <2>1. commit_lsn[n] \in Nat /\ Len(log'[n]) \in Nat
      BY LogFacts, LenProperties DEF IInv, LogInv, LogType
    <2>2. i \in 1 .. Len(log'[n])
      BY <2>1
    <2>3. log'[n][i] \in Entries
      BY <2>2, LenProperties DEF LogInv, LogType
    <2>4. log'[n][i].chunk \in Chunks
      BY <2>3, EntryKinds
    <2> QED
      BY <1>2, <2>4, NoSpaceAssumption
  <1> QED
    BY <1>1, <1>2

\* The leader takes a write: the logs of the followers stay prefixes of its own.
LEMMA StepPropose ==
    ASSUME IInv, NEW n \in Nodes, NEW c \in Chunks, Propose(n, c)
    PROVE  IInv'
  <1> USE DEF Propose, ownVars
  <1> DEFINE e == [type |-> "DATA", chunk |-> c, no |-> elections]
  <1>1. e \in Entries /\ AppendAtLeader(n, e)
    BY EntryKinds DEF IInv, LogInv, LogType
  <1>2. LogInv'
    BY <1>1, LeaderAppends DEF IInv
  <1>3. /\ leader = n /\ leader' = n /\ commit_lsn' = commit_lsn
        /\ \A m \in Nodes : m # n => log'[m] = log[m]
        /\ log'[n] = Append(log[n], e)
    BY <1>1 DEF AppendAtLeader, is_leader, IInv, LogInv, LogType
  <1>4. /\ Len(log'[n]) = Len(log[n]) + 1 /\ Len(log[n]) \in Nat
        /\ \A i \in 1 .. Len(log[n]) : log'[n][i] = log[n][i]
    BY <1>1, <1>3, Appended, LogFacts DEF IInv
  <1>5. WaitInv'
    <2> SUFFICES ASSUME ~stale, NEW m \in Nodes, Waits(m)
                 PROVE  WaitsInPlace(m)'
      BY DEF WaitInv, WaitsInPlace, Waits
    <2>1. m # n /\ log'[m] = log[m]
      BY <1>3, Waiting
    <2>2. Len(log'[n]) \in Nat /\ Len(log[n]) <= Len(log'[n])
      BY <1>4
    <2>3. node' = node /\ full' = full
      OBVIOUS
    <2> QED
      BY <1>3, <1>4, <2>1, <2>2, <2>3, WaitKept
  <1>6. CollectsOnlyApplied'
    BY <1>2, <1>3, StillCollects
  <1> QED
    BY <1>2, <1>5, <1>6 DEF IInv, OwnType

\* A chunk that runs full does not disturb a replica that waits.
LEMMA StepFillUp ==
    ASSUME IInv, NEW n \in Nodes, NEW c \in Chunks, FillUp(n, c)
    PROVE  IInv'
  <1> USE DEF FillUp
  <1>1. LogInv'
    BY SameLog DEF IInv
  <1>2. \A m \in Nodes : full[m] \subseteq full'[m]
    BY DEF IInv, OwnType
  <1>3. OwnType'
    BY NoSpaceAssumption DEF IInv, OwnType
  <1>4. WaitInv'
    <2> SUFFICES ASSUME ~stale, NEW m \in Nodes, Waits(m)
                 PROVE  WaitsInPlace(m)'
      BY DEF WaitInv, WaitsInPlace, Waits
    <2> QED
      BY <1>2, WaitSame DEF replVars
  <1>5. CollectsOnlyApplied'
    BY DEF IInv, CollectsOnlyApplied, replVars
  <1> QED
    BY <1>1, <1>3, <1>4, <1>5 DEF IInv

\* A replica that waits does not get past the entry it has no room for.
LEMMA StepFollow ==
    ASSUME IInv, NEW f \in Nodes, Follow(f)
    PROVE  IInv'
  <1> USE DEF Follow, ownVars
  <1>1. /\ LogInv' /\ NextEntry(f) \in Entries
        /\ log' = [log EXCEPT ![f] = Append(@, NextEntry(f))]
    BY FollowerAppends DEF IInv
  <1>2. /\ leader \in Nodes /\ leader # f /\ Covers(leader, f) /\ Len(log[leader]) > Len(log[f])
        /\ leader' = leader /\ commit_lsn' = commit_lsn
    BY DEF AppendAtFollower, HasNext
  <1>3. /\ log'[f] = Append(log[f], NextEntry(f))
        /\ \A m \in Nodes : m # f => log'[m] = log[m]
    BY <1>1 DEF IInv, LogInv, LogType
  <1>4. /\ Len(log'[f]) = Len(log[f]) + 1 /\ Len(log[f]) \in Nat
        /\ \A i \in 1 .. Len(log[f]) : log'[f][i] = log[f][i]
        /\ log'[f][Len(log[f]) + 1] = log[leader][Len(log[f]) + 1]
    <2>1. log[f] \in Seq(Entries) /\ Len(log[f]) \in Nat
      BY LogFacts DEF IInv
    <2> QED BY <1>1, <1>3, <2>1, Appended DEF NextEntry
  <1>5. WaitInv'
    <2> SUFFICES ASSUME ~stale, NEW m \in Nodes, Waits(m)
                 PROVE  WaitsInPlace(m)'
      BY DEF WaitInv, WaitsInPlace, Waits
    <2>1. CASE m # f
      <3>1. log'[m] = log[m] /\ log'[leader] = log[leader] /\ node' = node /\ full' = full
        BY <1>2, <1>3, <2>1
      <3>2. Len(log[leader]) \in Nat
        BY <1>2, LogFacts DEF IInv
      <3> QED
        BY <1>2, <3>1, <3>2, WaitKept, SMTT(30)
    <2>2. CASE m = f
      <3>1. Len(log[f]) # node[f].wait_commit_lsn
        BY <1>2, <2>2, Waiting, ReplLogAssumption DEF Fits, NextEntry
      <3>2. Len(log'[f]) <= node[f].wait_commit_lsn
        <4>1. Len(log[f]) <= node[f].wait_commit_lsn
          BY <2>2, Waiting
        <4>2. node[f].wait_commit_lsn \in Nat
          BY NodeFacts
        <4> QED BY <1>4, <3>1, <4>1, <4>2
      <3>3. Covers(leader, f)'
        BY <1>2, <1>3, <1>4, LogFacts, SMTT(30) DEF Covers, IInv
      <3> QED
        BY <1>2, <1>3, <2>2, <3>2, <3>3, Waiting DEF WaitsInPlace
    <2> QED
      BY <2>1, <2>2
  <1>6. CollectsOnlyApplied'
    BY <1>1, <1>2, <1>3, StillCollects
  <1> QED
    BY <1>1, <1>5, <1>6 DEF IInv, OwnType

\* A batch is refused at or before the entry the replica waits for.
LEMMA StepNoSpaceLeft ==
    ASSUME IInv, NEW f \in Nodes, NEW lsn \in 1 .. MaxLog, on_no_space_left(f, lsn)
    PROVE  IInv'
  <1> USE DEF on_no_space_left
  <1> DEFINE c == log[leader][lsn].chunk
  <1>1. LogInv'
    BY SameLog DEF IInv
  <1>2. /\ leader \in Nodes /\ leader # f /\ Covers(leader, f)
        /\ node[f].quiesced = NULL /\ lsn \in Len(log[f]) + 1 .. Len(log[leader])
        /\ Len(log[f]) \in Nat /\ Len(log[leader]) \in Nat
        /\ log[leader][lsn] \in Entries
    <2>1. /\ leader \in Nodes /\ leader # f /\ Covers(leader, f)
          /\ node[f].quiesced = NULL /\ lsn \in Len(log[f]) + 1 .. Len(log[leader])
      BY DEF NoRoomAt, HasNext
    <2>2. /\ Len(log[f]) \in Nat /\ Len(log[leader]) \in Nat
          /\ \A i \in 1 .. Len(log[leader]) : log[leader][i] \in Entries
      BY <2>1, LogFacts DEF IInv
    <2>3. lsn \in 1 .. Len(log[leader])
      BY <2>1, <2>2
    <2> QED BY <2>1, <2>2, <2>3
  <1>3. log[leader][lsn].type = "DATA" /\ c \in full[f] /\ c \in Chunks
    BY <1>2, EntryKinds DEF NoRoomAt, Fits
  <1>4. /\ node'[f] = set_no_space_left_error_info(node[f], lsn - 1, c)
        /\ \A m \in Nodes : m # f => node'[m] = node[m]
        /\ node[f] \in Infos /\ lsn - 1 \in 0 .. MaxLsn
    BY ReplLogAssumption DEF IInv, OwnType, MaxLsn
  <1>5. OwnType'
    BY <1>3, <1>4, Set DEF IInv, OwnType
  <1>6. /\ node'[f].wait_commit_lsn = lsn - 1 /\ node'[f].chunk_id = c /\ node'[f].quiesced = NULL
    <2>1. set_no_space_left_error_info(node[f], lsn - 1, c).quiesced = node[f].quiesced
      BY <1>3, <1>4, Set, SMTT(30)
    <2> QED BY <1>2, <1>3, <1>4, <2>1, Set, SMTT(30)
  <1>7. ~stale => lsn - 1 <= node[f].wait_commit_lsn
    <2> SUFFICES ASSUME ~stale, lsn - 1 > node[f].wait_commit_lsn PROVE FALSE
      BY NodeFacts
    <2>1. Waits(f)
      BY NodeFacts DEF Waits
    <2>2. /\ Len(log[f]) <= node[f].wait_commit_lsn
          /\ node[f].chunk_id \in full[f]
          /\ log[leader][node[f].wait_commit_lsn + 1].type = "DATA"
          /\ log[leader][node[f].wait_commit_lsn + 1].chunk = node[f].chunk_id
      BY <1>2, <2>1, Waiting, ReplLogAssumption
    <2>3. node[f].wait_commit_lsn + 1 \in Len(log[f]) + 1 .. lsn - 1
      <3>1. node[f].wait_commit_lsn \in Nat /\ lsn \in Nat
        BY NodeFacts
      <3> QED BY <1>2, <2>2, <3>1
    <2>4. Fits(f, log[leader][node[f].wait_commit_lsn + 1])
      BY <2>3 DEF NoRoomAt
    <2> QED
      BY <2>2, <2>4 DEF Fits
  <1>8. ok' \in BOOLEAN /\ (~stale' => ok')
    BY <1>7 DEF IInv
  <1>9. WaitInv'
    <2> SUFFICES ASSUME ~stale, NEW m \in Nodes, Waits(m)'
                 PROVE  WaitsInPlace(m)'
      BY DEF WaitInv, WaitsInPlace
    <2>0. log' = log /\ leader' = leader /\ full' = full
      BY DEF replVars
    <2>1. CASE m = f
      <3>1. /\ node'[f].quiesced = NULL /\ node'[f].chunk_id \in full'[f] /\ leader' # f
            /\ Len(log'[f]) <= node'[f].wait_commit_lsn
        <4>1. Len(log[f]) <= lsn - 1
          BY <1>2
        <4>2. node'[f].quiesced = NULL /\ node'[f].chunk_id \in full[f] /\ leader # f
          BY <1>2, <1>3, <1>6
        <4> QED BY <1>6, <2>0, <4>1, <4>2
      <3>2. Covers(leader, f)'
        BY <1>2, <2>0 DEF Covers
      <3>3. /\ node'[f].wait_commit_lsn + 1 = lsn /\ lsn <= Len(log'[leader])
        BY <1>2, <1>6, <2>0
      <3> QED
        BY <1>3, <1>6, <2>0, <2>1, <3>1, <3>2, <3>3 DEF WaitsInPlace
    <2>2. CASE m # f
      <3>1. node'[m] = node[m] /\ Waits(m)
        BY <1>4, <2>2 DEF Waits
      <3> QED
        BY <2>0, <3>1, WaitSame
    <2> QED
      BY <2>1, <2>2
  <1>10. CollectsOnlyApplied'
    <2>1. \A m \in Nodes : node'[m].quiesced = node[m].quiesced
      BY <1>2, <1>4, <1>6
    <2> QED
      BY <1>1, <2>1, StillCollects DEF replVars
  <1> QED
    BY <1>1, <1>5, <1>8, <1>9, <1>10 DEF IInv

\* A replica that waits follows its leader, and has nothing to roll back.
LEMMA StepRollback ==
    ASSUME IInv, NEW f \in Nodes, on_rollback(f)
    PROVE  IInv'
  <1> USE DEF on_rollback
  <1>1. /\ LogInv'
        /\ Len(log[f]) \in Nat \ {0}
        /\ Len(log'[f]) = Len(log[f]) - 1
        /\ \A i \in 1 .. Len(log'[f]) : log'[f][i] = log[f][i]
        /\ \A m \in Nodes : m # f => log'[m] = log[m]
    BY RollsBack DEF IInv
  <1>2. /\ leader \in Nodes \ {f} /\ ~Covers(leader, f)
        /\ leader' = leader /\ commit_lsn' = commit_lsn
    BY DEF RollbackLast, MustRollback
  <1>3. /\ node'[f] = reset_no_space_left_error_info(node[f])
        /\ \A m \in Nodes : m # f => node'[m] = node[m]
        /\ node[f] \in Infos
    BY DEF IInv, OwnType
  <1>4. OwnType'
    BY <1>3, Reset DEF IInv, OwnType
  <1>5. /\ node'[f].wait_commit_lsn = MaxLsn /\ node'[f].quiesced = node[f].quiesced
    BY <1>3, Reset
  <1>6. ~stale => node[f].wait_commit_lsn >= Len(log[f])
    <2>1. ~stale => ~Waits(f)
      BY <1>2, Waiting, ReplLogAssumption
    <2> QED
      BY <2>1, NodeFacts, LogFacts DEF Waits, IInv
  <1>7. ok' \in BOOLEAN /\ (~stale' => ok')
    BY <1>6 DEF IInv
  <1>8. WaitInv'
    <2> SUFFICES ASSUME ~stale, NEW m \in Nodes, Waits(m)'
                 PROVE  WaitsInPlace(m)'
      BY DEF WaitInv, WaitsInPlace
    <2>1. m # f
      BY <1>5 DEF Waits, MaxLsn
    <2>2. node'[m] = node[m] /\ Waits(m) /\ log'[m] = log[m] /\ log'[leader] = log[leader]
      BY <1>1, <1>2, <1>3, <2>1 DEF Waits, MaxLsn
    <2>3. Len(log[leader]) \in Nat /\ full' = full
      BY <1>2, LogFacts DEF IInv
    <2> QED
      BY <1>2, <2>2, <2>3, WaitKept
  <1>9. CollectsOnlyApplied'
    <2> SUFFICES ASSUME ~stale, NEW m \in Nodes, NEW i \in commit_lsn[m] + 1 .. Len(log'[m]),
                        log'[m][i].type = "DATA"
                 PROVE  log'[m][i].chunk # node'[m].quiesced
      BY <1>2 DEF CollectsOnlyApplied
    <2>1. commit_lsn[m] \in Nat /\ node'[m].quiesced = node[m].quiesced
      BY <1>3, <1>5, LogFacts DEF IInv
    <2>2. i \in commit_lsn[m] + 1 .. Len(log[m]) /\ log'[m][i] = log[m][i]
      BY <1>1, <2>1
    <2> QED
      BY <2>1, <2>2 DEF IInv, CollectsOnlyApplied
  <1> QED
    BY <1>1, <1>4, <1>7, <1>8, <1>9 DEF IInv

\* Applying an entry leaves fewer that are yet to be applied.
LEMMA StepCommit ==
    ASSUME IInv, NEW n \in Nodes, Commit(n)
    PROVE  IInv'
  <1> USE DEF Commit, ownVars
  <1>1. /\ LogInv' /\ commit_lsn'[n] = commit_lsn[n] + 1
        /\ \A m \in Nodes : m # n => commit_lsn'[m] = commit_lsn[m]
    BY Commits DEF IInv
  <1>2. log' = log /\ leader' = leader
    BY DEF CommitNext
  <1>3. WaitInv'
    BY <1>2 DEF IInv, WaitInv, WaitsInPlace, Waits, Covers
  <1>4. CollectsOnlyApplied'
    <2> SUFFICES ASSUME ~stale, NEW m \in Nodes, NEW i \in commit_lsn'[m] + 1 .. Len(log[m]),
                        log[m][i].type = "DATA"
                 PROVE  log[m][i].chunk # node[m].quiesced
      BY <1>2 DEF CollectsOnlyApplied
    <2>1. i \in commit_lsn[m] + 1 .. Len(log[m])
      BY <1>1, LogFacts DEF IInv
    <2> QED
      BY <2>1 DEF IInv, CollectsOnlyApplied
  <1> QED
    BY <1>1, <1>3, <1>4 DEF IInv, OwnType

\* A replica has applied its whole log when it has applied up to the lsn it
\* waits for.
LEMMA StepNotify ==
    ASSUME IInv, NEW n \in Nodes, notify_committed_lsn(n)
    PROVE  IInv'
  <1> USE DEF notify_committed_lsn
  <1>1. LogInv' /\ log' = log /\ leader' = leader /\ commit_lsn' = commit_lsn
    BY SameLog DEF IInv, replVars
  <1>2. /\ \A m \in Nodes : m # n => node'[m] = node[m]
        /\ node[n] \in Infos
        /\ \/ node'[n] = reset_no_space_left_error_info(node[n])
           \/ /\ node[n].wait_commit_lsn = commit_lsn[n]
              /\ node'[n] = reset_no_space_left_error_info(handle_no_space_left(node[n]))
           \/ node'[n] = node[n]
    BY DEF IInv, OwnType
  <1>3. /\ node'[n] \in Infos
        /\ \/ node'[n].wait_commit_lsn = MaxLsn /\ node'[n].quiesced = node[n].quiesced
           \/ /\ node'[n].wait_commit_lsn = MaxLsn
              /\ node[n].wait_commit_lsn = commit_lsn[n]
           \/ node'[n] = node[n]
    BY <1>2, Reset, Handle
  <1>4. OwnType'
    BY <1>2, <1>3 DEF IInv, OwnType
  <1>5. ~stale => Len(log[n]) <= node[n].wait_commit_lsn /\ commit_lsn[n] <= Len(log[n])
    BY Waiting DEF IInv, LogInv, LogSafe, Holds
  <1>6. ok' \in BOOLEAN /\ (~stale' => ok')
    <2>1. ~stale => node[n].wait_commit_lsn >= commit_lsn[n]
      BY <1>5, NodeFacts, LogFacts DEF IInv
    <2> QED
      BY <2>1 DEF IInv
  <1>7. WaitInv'
    <2> SUFFICES ASSUME ~stale, NEW m \in Nodes, Waits(m)'
                 PROVE  WaitsInPlace(m)'
      BY DEF WaitInv, WaitsInPlace
    <2>1. node'[m] = node[m]
      BY <1>2, <1>3 DEF Waits, MaxLsn
    <2>2. Waits(m)
      BY <2>1 DEF Waits
    <2> QED
      BY <1>1, <2>1, <2>2, Waiting DEF WaitsInPlace, Covers
  <1>8. CollectsOnlyApplied'
    <2> SUFFICES ASSUME ~stale, NEW m \in Nodes, NEW i \in commit_lsn[m] + 1 .. Len(log[m]),
                        log[m][i].type = "DATA"
                 PROVE  log[m][i].chunk # node'[m].quiesced
      BY <1>1 DEF CollectsOnlyApplied
    <2>1. CASE node'[m].quiesced = node[m].quiesced
      BY <2>1 DEF IInv, CollectsOnlyApplied
    <2>2. CASE m = n /\ node[n].wait_commit_lsn = commit_lsn[n]
      BY <1>5, <2>2, LogFacts, NodeFacts DEF IInv
    <2> QED
      BY <1>2, <1>3, <2>1, <2>2
  <1> QED
    BY <1>1, <1>4, <1>6, <1>7, <1>8 DEF IInv

\* The end of the collection makes room only on a replica that does not wait.
LEMMA StepGCEnds ==
    ASSUME IInv, NEW n \in Nodes, EmergentGCEnds(n)
    PROVE  IInv'
  <1> USE DEF EmergentGCEnds
  <1>1. LogInv' /\ log' = log /\ leader' = leader /\ commit_lsn' = commit_lsn
    BY SameLog DEF IInv, replVars
  <1>2. /\ \A m \in Nodes : m # n => node'[m] = node[m] /\ full'[m] = full[m]
        /\ node'[n] = [node[n] EXCEPT !.quiesced = NULL]
        /\ full'[n] \subseteq Chunks
        /\ node[n] \in Infos
    BY DEF IInv, OwnType
  <1>3. node'[n] \in Infos
    BY <1>2 DEF Infos
  <1>4. node'[n].wait_commit_lsn = node[n].wait_commit_lsn /\ node'[n].quiesced = NULL
    BY <1>2 DEF Infos
  <1>5. OwnType'
    BY <1>2, <1>3, NoSpaceAssumption DEF IInv, OwnType
  <1>6. WaitInv'
    <2> SUFFICES ASSUME ~stale, NEW m \in Nodes, Waits(m)'
                 PROVE  WaitsInPlace(m)'
      BY DEF WaitInv, WaitsInPlace
    <2>1. Waits(m)
      BY <1>2, <1>4 DEF Waits, MaxLsn
    <2>2. m # n
      BY <2>1, Waiting
    <2> QED
      BY <1>1, <1>2, <2>1, <2>2, Waiting DEF WaitsInPlace, Covers
  <1>7. CollectsOnlyApplied'
    <2> SUFFICES ASSUME ~stale, NEW m \in Nodes, NEW i \in commit_lsn[m] + 1 .. Len(log[m]),
                        log[m][i].type = "DATA"
                 PROVE  log[m][i].chunk # node'[m].quiesced
      BY <1>1 DEF CollectsOnlyApplied
    <2>1. CASE m # n
      BY <1>2, <2>1 DEF IInv, CollectsOnlyApplied
    <2>2. CASE m = n
      <3>1. i \in 1 .. Len(log[m])
        BY LogFacts DEF IInv
      <3>2. log[m][i].chunk \in Chunks
        BY <3>1, LogFacts, EntryKinds DEF IInv
      <3> QED
        BY <1>4, <2>2, <3>2, NoSpaceAssumption
    <2> QED
      BY <2>1, <2>2
  <1> QED
    BY <1>1, <1>5, <1>6, <1>7 DEF IInv

\* The entry of a new leader writes to no chunk.
LEMMA StepElect ==
    ASSUME IInv, NEW n \in Nodes, ElectLeader(n)
    PROVE  IInv'
  <1> USE DEF ElectLeader
  <1>1. /\ LogInv'
        /\ Len(log'[n]) = Len(log[n]) + 1
        /\ \A i \in 1 .. Len(log[n]) : log'[n][i] = log[n][i]
        /\ log'[n][Len(log[n]) + 1].type = "CONFIG"
        /\ \A m \in Nodes : m # n => log'[m] = log[m]
    BY Elects DEF IInv
  <1>2. stale' \in BOOLEAN /\ (~stale' => ~stale /\ \A m \in Nodes : ~Waits(m))
    BY DEF IInv
  <1>3. WaitInv'
    BY <1>2 DEF WaitInv, WaitsInPlace, Waits, MaxLsn
  <1>4. CollectsOnlyApplied'
    <2> SUFFICES ASSUME ~stale', NEW m \in Nodes, NEW i \in commit_lsn[m] + 1 .. Len(log'[m]),
                        log'[m][i].type = "DATA"
                 PROVE  log'[m][i].chunk # node[m].quiesced
      BY DEF CollectsOnlyApplied, Elect
    <2>1. ~stale
      BY <1>2
    <2>2. i \in commit_lsn[m] + 1 .. Len(log[m]) /\ log'[m][i] = log[m][i]
      <3>1. commit_lsn[m] \in Nat /\ Len(log[m]) \in Nat /\ Len(log[n]) \in Nat
        BY LogFacts DEF IInv
      <3>2. CASE m # n
        BY <1>1, <3>2
      <3>3. CASE m = n
        <4>1. i # Len(log[n]) + 1
          BY <1>1, <3>3
        <4> QED BY <1>1, <3>1, <3>3, <4>1
      <3> QED BY <3>2, <3>3
    <2> QED
      BY <2>1, <2>2 DEF IInv, CollectsOnlyApplied
  <1>5. ok' \in BOOLEAN /\ (~stale' => ok')
    BY <1>2 DEF IInv
  <1> QED
    BY <1>1, <1>2, <1>3, <1>4, <1>5 DEF IInv, OwnType

\* What is chosen matters to no handler before it is applied.
LEMMA StepRaft ==
    ASSUME IInv, RaftStep
    PROVE  IInv'
  <1> USE DEF RaftStep, ownVars
  <1>1. PICK k \in 1 .. MaxLog : Choose(k)
    OBVIOUS
  <1>2. LogInv'
    BY <1>1, Chooses DEF IInv
  <1>3. log' = log /\ leader' = leader /\ commit_lsn' = commit_lsn
    BY <1>1 DEF Choose
  <1> QED
    BY <1>2, <1>3 DEF IInv, OwnType, WaitInv, WaitsInPlace, Waits, Covers, CollectsOnlyApplied

\* A restart forgets the error.
LEMMA StepRestart ==
    ASSUME IInv, NEW n \in Nodes, Restart(n)
    PROVE  IInv'
  <1> USE DEF Restart
  <1>1. LogInv' /\ commit_lsn' = commit_lsn
    BY Restarts DEF IInv
  <1>2. log' = log /\ leader' \in {leader, NULL}
    BY DEF RestartNode
  <1>3. /\ node'[n] = Clean
        /\ \A m \in Nodes : m # n => node'[m] = node[m]
    BY DEF IInv, OwnType
  <1>4. Clean \in Infos /\ Clean.wait_commit_lsn = MaxLsn /\ Clean.quiesced = NULL
    BY ReplLogAssumption DEF Clean, Infos, MaxLsn
  <1>5. OwnType'
    BY <1>4 DEF IInv, OwnType
  <1>6. WaitInv'
    <2> SUFFICES ASSUME ~stale, NEW m \in Nodes, Waits(m)'
                 PROVE  WaitsInPlace(m)'
      BY DEF WaitInv, WaitsInPlace
    <2>1. m # n
      BY <1>3, <1>4 DEF Waits, MaxLsn
    <2>2. Waits(m) /\ node'[m] = node[m]
      BY <1>3, <2>1 DEF Waits, MaxLsn
    <2> QED
      BY <1>2, <2>2, WaitSame
  <1>7. CollectsOnlyApplied'
    <2> SUFFICES ASSUME ~stale, NEW m \in Nodes, NEW i \in commit_lsn[m] + 1 .. Len(log[m]),
                        log[m][i].type = "DATA"
                 PROVE  log[m][i].chunk # node'[m].quiesced
      BY <1>1, <1>2 DEF CollectsOnlyApplied
    <2>1. CASE m # n
      BY <1>3, <2>1 DEF IInv, CollectsOnlyApplied
    <2>2. CASE m = n
      <3>1. i \in 1 .. Len(log[m])
        BY LogFacts DEF IInv
      <3>2. log[m][i].chunk \in Chunks
        BY <3>1, LogFacts, EntryKinds DEF IInv
      <3> QED
        BY <1>3, <1>4, <2>2, <3>2, NoSpaceAssumption
    <2> QED
      BY <2>1, <2>2
  <1> QED
    BY <1>1, <1>5, <1>6, <1>7 DEF IInv

\* A step of somebody else.
LEMMA StepStutters ==
    ASSUME IInv, UNCHANGED vars
    PROVE  IInv'
  <1> USE DEF vars, ownVars
  <1>1. LogInv'
    BY SameLog DEF IInv
  <1> QED
    BY <1>1 DEF IInv, OwnType, WaitInv, WaitsInPlace, Waits, Covers, CollectsOnlyApplied, replVars

-------------------------------------------------------------------------------
\* Nothing is logged and nobody waits in the beginning.
LEMMA InitIInv == Init => IInv
  <1> SUFFICES ASSUME Init PROVE IInv
    OBVIOUS
  <1> USE ReplLogAssumption, NoSpaceAssumption DEF Init
  <1>1. <<>> \in Seq(Entries) /\ Len(<<>>) = 0
    BY EmptySeq
  <1>2. LogType
    BY <1>1 DEF LogType, ReplInit
  <1>3. LogSafe
    BY <1>1 DEF LogSafe, Holds, ReplInit
  <1>4. Clean \in Infos /\ Clean.wait_commit_lsn = MaxLsn
    BY DEF Clean, Infos, MaxLsn
  <1>5. OwnType
    BY <1>4 DEF OwnType
  <1>6. WaitInv
    BY <1>4 DEF WaitInv, WaitsInPlace, Waits
  <1>7. CollectsOnlyApplied
    BY <1>1 DEF CollectsOnlyApplied, ReplInit
  <1> QED
    BY <1>2, <1>3, <1>5, <1>6, <1>7 DEF IInv, LogInv

\* Every step of the log and of the handlers preserves the invariant: a replica
\* that waits stays behind the entry it has no room for.
THEOREM NoSpaceInductive == Spec => []IInv
  <1>1. ASSUME IInv, [Next]_vars PROVE IInv'
    <2>1. CASE \E n \in Nodes, c \in Chunks : Propose(n, c) \/ FillUp(n, c)
      BY <1>1, <2>1, StepPropose, StepFillUp
    <2>2. CASE \E n \in Nodes, lsn \in 1 .. MaxLog : on_no_space_left(n, lsn)
      BY <1>1, <2>2, StepNoSpaceLeft
    <2>3. CASE \E n \in Nodes : Follow(n) \/ on_rollback(n) \/ Commit(n)
      BY <1>1, <2>3, StepFollow, StepRollback, StepCommit
    <2>4. CASE \E n \in Nodes : notify_committed_lsn(n) \/ EmergentGCEnds(n)
                                  \/ ElectLeader(n) \/ Restart(n)
      BY <1>1, <2>4, StepNotify, StepGCEnds, StepElect, StepRestart
    <2>5. CASE RaftStep
      BY <1>1, <2>5, StepRaft
    <2>6. CASE UNCHANGED vars
      BY <1>1, <2>6, StepStutters
    <2> QED
      BY <1>1, <2>1, <2>2, <2>3, <2>4, <2>5, <2>6 DEF Next
  <1> QED
    BY <1>1, InitIInv, PTL DEF Spec

\* The RELEASE_ASSERTs of on_no_space_left, on_rollback and notify_committed_lsn
\* never fail, on any number of replicas and with any faults, as long as no
\* leader is elected while a replica waits.
THEOREM NoSpaceAssertsHold == Spec => []AssertsHold
  <1>1. IInv => AssertsHold
    BY DEF IInv, AssertsHold, TypeOK, LogInv, LogType, OwnType, Infos
  <1> QED
    BY <1>1, NoSpaceInductive, PTL

\* handle_no_space_left collects a chunk only when every entry of the log that
\* writes to it is applied.
THEOREM CollectsApplied == Spec => []CollectsOnlyApplied
  <1>1. IInv => CollectsOnlyApplied
    BY DEF IInv
  <1> QED
    BY <1>1, NoSpaceInductive, PTL
==============================================================================
