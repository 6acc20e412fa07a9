------------------------------- MODULE Rollups -------------------------------
(***************************************************************************)
(* The retained statistics of app/rollups.py on MySQL, where no trigger    *)
(* keeps them: insert_query_logs and delete_query_logs change the log and  *)
(* the counters of its minutes in one transaction, initialize_rollups      *)
(* counts what an older version has left.  The writer thread and           *)
(* prune_now() run such transactions at the same time; locks on rows and   *)
(* on buckets order them, a transaction that loses a deadlock, waits too   *)
(* long or loses its connection is rolled back.  (On SQLite transactions   *)
(* follow each other, and triggers do the same arithmetic.)                *)
(*                                                                         *)
(* Counters of blocks and response times move with the number of queries   *)
(* and are left out.  Plain SELECTs read the committed rows of an earlier  *)
(* moment, locking ones the latest.                                        *)
(***************************************************************************)
EXTENDS Integers, FiniteSets

CONSTANTS
    Minutes,        \* 1..m
    MaxRows,        \* bound: rows of the log, which are numbered
    MaxTransactions \* bound: transactions that are begun

Writers == {"writer", "prune_now"}
Total == Cardinality(Minutes) + 1        \* "__total__" sorts after the minutes
Buckets == Minutes \cup {Total}

VARIABLES
    minute,         \* query_log: the minute of each row, 0 for no row
    lastId,
    statistics,     \* query_statistics, 0 for a bucket without row
    marker,         \* settings: statistics_rollups_v1
    phase,          \* "absent": no table yet, "created", "running"
    tx,             \* the transaction of each writer
    begun

rollupVars == <<minute, lastId, statistics, marker, phase, tx, begun>>

Rows == {i \in 1..MaxRows : minute[i] # 0}
NoRows == [i \in 1..MaxRows |-> 0]
NoTx == [pc |-> "idle", chosen |-> {}, deletes |-> 0, locked |-> {}, held |-> {},
         added |-> NoRows, removed |-> NoRows, delta |-> [b \in Buckets |-> 0]]

InBucket(rows, b) ==
    Cardinality({i \in 1..MaxRows : rows[i] # 0 /\ (b = Total \/ rows[i] = b)})
Summary(rows) == [b \in Buckets |-> InBucket(rows, b)]

\* An installation of a version that kept no statistics.
Setup(rows) ==
    /\ minute = [i \in 1..MaxRows |-> IF i \in DOMAIN rows THEN rows[i] ELSE 0]
    /\ lastId = Cardinality(DOMAIN rows)
    /\ statistics = [b \in Buckets |-> 0] /\ marker = FALSE /\ phase = "absent"
    /\ tx = [w \in Writers |-> NoTx] /\ begun = 0
Init == \E n \in 0..2 : \E rows \in [1..n -> Minutes] : Setup(rows)

-----------------------------------------------------------------------------
(* initialize_rollups, at every start.                                     *)

CreateTable ==
    /\ phase = "absent" /\ phase' = "created"
    /\ UNCHANGED <<minute, lastId, statistics, marker, tx, begun>>

\* Mutant: the marker is saved before the rows are counted.
BackfillsWithoutCount == marker' = TRUE /\ UNCHANGED <<statistics, phase>>

\* rebuild_rollups: counters and marker in one transaction.
Backfills ==
    /\ statistics' = Summary(minute)
    /\ marker' = TRUE /\ phase' = "running"

Backfill ==
    /\ phase = "created" /\ ~marker
    /\ Backfills
    /\ UNCHANGED <<minute, lastId, tx, begun>>

Proceed ==
    /\ phase = "created" /\ marker /\ phase' = "running"
    /\ UNCHANGED <<minute, lastId, statistics, marker, tx, begun>>

-----------------------------------------------------------------------------
(* Transactions.                                                           *)

Step(w, record) == tx' = [tx EXCEPT ![w] = record]
Only(v) == UNCHANGED <<minute, lastId, statistics, marker, phase>> /\ UNCHANGED v
Begins == phase = "running" /\ begun < MaxTransactions /\ begun' = begun + 1

\* Ids are given out at once and not taken back.
BeginInsert ==
    /\ Begins /\ tx["writer"].pc = "idle"
    /\ \E n \in 1..2, when \in [1..2 -> Minutes] :
          /\ lastId + n <= MaxRows /\ lastId' = lastId + n
          /\ LET rows == [i \in 1..MaxRows |->
                            IF i \in (lastId + 1)..(lastId + n) THEN when[i - lastId]
                            ELSE 0]
             IN  Step("writer", [NoTx EXCEPT !.pc = "upsert", !.added = rows,
                                             !.delta = Summary(rows)])
    /\ UNCHANGED <<minute, statistics, marker, phase>>

BeginPrune(w) ==
    /\ Begins /\ tx[w].pc = "idle"
    /\ Step(w, [NoTx EXCEPT !.pc = "choose"])
    /\ UNCHANGED <<minute, lastId, statistics, marker, phase>>

\* The rows beyond the age, then those beyond the number, by a plain SELECT;
\* the transaction also sees what it has inserted and deleted itself.
Choose(w) ==
    LET t == tx[w]
        visible == (Rows \cup {i \in DOMAIN t.added : t.added[i] # 0})
                   \ {i \in DOMAIN t.removed : t.removed[i] # 0}
    IN
    /\ t.pc = "choose" /\ t.deletes < 2
    /\ \E ids \in (SUBSET visible) \ {{}} :
          Step(w, [t EXCEPT !.pc = "lock", !.chosen = ids, !.deletes = @ + 1])
    /\ Only(begun)

\* Mutant: the rows that are deleted are counted as the SELECT found them.
LatestAsChosen(w) ==
    [i \in 1..MaxRows |-> IF i \notin tx[w].chosen THEN 0
                          ELSE IF minute[i] # 0 THEN minute[i] ELSE 1]

\* SELECT ... FOR UPDATE: of the chosen rows those that are still there.
Latest(w) ==
    [i \in 1..MaxRows |-> IF i \notin tx[w].chosen THEN 0
                          ELSE IF minute[i] # 0 THEN minute[i] ELSE tx[w].added[i]]

LockAndDelete(w) ==
    LET t == tx[w]
        found == Latest(w)
        gone == Summary(found)
    IN
    /\ t.pc = "lock"
    /\ \A u \in Writers \ {w} : t.chosen \cap tx[u].locked = {}
    /\ Step(w, [t EXCEPT !.pc = "upsert", !.locked = @ \cup t.chosen,
                         !.removed = [i \in 1..MaxRows |->
                                        IF found[i] # 0 THEN found[i] ELSE @[i]],
                         !.delta = [b \in Buckets |-> @[b] - gone[b]]])
    /\ Only(begun)

Unwritten(w) == {b \in Buckets : tx[w].delta[b] # 0} \ tx[w].held

\* Mutant: the buckets are written as the rows come.
NextBucketsAsTheyCome(w) == Unwritten(w)

NextBuckets(w) == {b \in Unwritten(w) : \A c \in Unwritten(w) : b <= c}

\* _mysql_delta: one bucket after the other in their order, each with its lock.
Upsert(w) ==
    /\ tx[w].pc = "upsert"
    /\ \E b \in NextBuckets(w) :
          /\ \A u \in Writers \ {w} : b \notin tx[u].held
          /\ Step(w, [tx[w] EXCEPT !.held = @ \cup {b}])
    /\ Only(begun)

\* The writer prunes in the transaction that inserted, when it is due.
Proceeds(w) ==
    /\ tx[w].pc = "upsert" /\ Unwritten(w) = {}
    /\ \E next \in {"choose", "commit"} : Step(w, [tx[w] EXCEPT !.pc = next])
    /\ Only(begun)

\* What the statements have done to the counters becomes visible to others.
Commit(w) ==
    LET t == tx[w] IN
    /\ t.pc = "commit" \/ t.pc = "choose"
    /\ minute' = [i \in 1..MaxRows |->
                    IF t.removed[i] # 0 THEN 0
                    ELSE IF t.added[i] # 0 THEN t.added[i] ELSE minute[i]]
    /\ statistics' = [b \in Buckets |-> statistics[b] + t.delta[b]]
    /\ Step(w, NoTx)
    /\ UNCHANGED <<lastId, marker, phase, begun>>

Abort(w) ==
    /\ tx[w].pc # "idle" /\ Step(w, NoTx)
    /\ Only(begun)

\* The process ends at any point; the server rolls its transactions back.
Crash ==
    /\ phase # "absent" /\ phase' = "created"
    /\ tx' = [w \in Writers |-> NoTx]
    /\ UNCHANGED <<minute, lastId, statistics, marker, begun>>

Next ==
    \/ CreateTable \/ Backfill \/ Proceed \/ BeginInsert \/ Crash
    \/ \E w \in Writers :
          \/ BeginPrune(w) \/ Choose(w) \/ LockAndDelete(w) \/ Upsert(w)
          \/ Proceeds(w) \/ Commit(w) \/ Abort(w)

Spec == Init /\ [][Next]_rollupVars

-----------------------------------------------------------------------------
(* What is checked.                                                        *)

\* Once the application runs, every counter equals what the log holds: two
\* deletions that chose the same rows subtract them once, nothing that was
\* rolled back is counted, and rows of an older version are counted once.
StatisticsMatchLog == phase = "running" => statistics = Summary(minute)

WaitsFor(w, u) ==
    \/ tx[w].pc = "lock" /\ tx[w].chosen \cap tx[u].locked # {}
    \/ tx[w].pc = "upsert" /\ \E b \in NextBuckets(w) : b \in tx[u].held

\* How often a transaction changes the counters.
Rounds(w) == tx[w].deletes + (IF tx[w].added = NoRows THEN 0 ELSE 1)

\* Buckets are locked in one order, so two transactions can only wait for each
\* other when one of them changes the counters for the second time, as a batch
\* that prunes after its insertion or by both limits does.
DeadlocksNeedTwoRounds ==
    WaitsFor("writer", "prune_now") /\ WaitsFor("prune_now", "writer") =>
        \E w \in Writers : Rounds(w) > 1
=============================================================================
