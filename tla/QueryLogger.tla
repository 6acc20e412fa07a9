----------------------------- MODULE QueryLogger -----------------------------
(***************************************************************************)
(* QueryLogger of app/policy.py: the bounded queue that decision threads   *)
(* hand log rows to, the writer thread that commits them in batches, its   *)
(* retries, the retention it enforces, and its shutdown.                   *)
(*                                                                         *)
(* A row is its place in the order of submission.  A batch is written in   *)
(* one transaction; a transaction may fail before COMMIT, with a rollback  *)
(* that is confirmed or not, or at COMMIT, with or without effect.         *)
(***************************************************************************)
EXTENDS Integers, Sequences, FiniteSets

CONSTANTS
    MaxSubmitted, \* bound: rows ever submitted
    QueueLimit,   \* capacity of the queue (10000)
    BatchLimit,   \* rows in a batch (250)
    MaxAttempts,  \* write attempts of a batch (3)
    PruneEvery,   \* rows between two prunings (5000)
    PruneChunk,   \* rows one pruning removes for each limit (1000)
    KeepChoices,  \* values of max_query_logs
    IdGaps,       \* whether a rolled back insert uses up row ids (MySQL)
    MaxFaults,    \* bound: failed connections and transactions
    MaxSettings   \* bound: changes of the retention settings

ASSUME BoundsOK ==
    /\ MaxSubmitted \in Nat /\ MaxFaults \in Nat /\ MaxSettings \in Nat
    /\ QueueLimit \in Nat \ {0} /\ BatchLimit \in Nat \ {0}
    /\ MaxAttempts \in Nat \ {0}
    /\ PruneEvery \in Nat \ {0} /\ PruneChunk \in Nat \ {0}
    /\ KeepChoices \subseteq Nat \ {0} /\ KeepChoices # {}
    /\ IdGaps \in BOOLEAN

VARIABLES
    submitted,  \* rows submitted, those that were dropped at once included
    offering,   \* the row a submitter is about to put in, 0 for none;
                \* it holds _metrics_lock meanwhile
    queue,      \* QueryLogger.q
    pending,    \* QueryLogger._pending, the batch being written
    attempts,   \* QueryLogger._batch_attempts
    stop,       \* QueryLogger.stop_event
    expired,    \* whether _shutdown_deadline has passed
    pc,         \* where the writer thread is
    staged,     \* what its open transaction inserts and deletes
    log,        \* the table query_log: records [id, row]
    nextId,     \* its next id
    aged,       \* rows up to this one are older than the maximum age
    keep,       \* QueryLogger.max_rows
    sincePrune, \* QueryLogger._rows_since_prune
    stale,      \* whether a minute has passed since _last_prune
    pruneDue,   \* save_settings has not called prune_now yet
    dropped, uncertain, \* the counters of status()
    logged,     \* history: every record ever committed
    tries,      \* history: how often each row was part of a written batch
    faults, settings

memory == <<submitted, offering, queue, pending, attempts, stop, expired, pc,
            staged>>
table == <<log, nextId, logged>>
retention == <<aged, keep, sincePrune, stale, pruneDue>>
counters == <<dropped, uncertain>>
bounds == <<faults, settings>>
vars == <<memory, table, retention, counters, tries, bounds>>

RowIds == 1..MaxSubmitted
NothingStaged == [insert |-> {}, delete |-> {}]
Elements(s) == {s[k] : k \in DOMAIN s}
Least(n, m) == IF n <= m THEN n ELSE m

Init ==
    /\ submitted = 0 /\ offering = 0
    /\ queue = <<>> /\ pending = <<>> /\ attempts = 0
    /\ stop = FALSE /\ expired = FALSE
    /\ pc = "connect" /\ staged = NothingStaged
    /\ log = {} /\ nextId = 1 /\ logged = {}
    /\ aged = 0 /\ keep \in KeepChoices /\ sincePrune = 0
    /\ stale = FALSE /\ pruneDue = FALSE
    /\ dropped = 0 /\ uncertain = 0
    /\ tries = [r \in RowIds |-> 0]
    /\ faults = 0 /\ settings = 0

Fault == faults < MaxFaults /\ faults' = faults + 1 /\ UNCHANGED settings

-----------------------------------------------------------------------------
(* submit(): the stop flag is read and the row put in under _metrics_lock. *)

\* Mutant: the writer's last block does not take the lock.
OfferedUnlocked == 0

\* Who holds _metrics_lock against the writer's last block.
Offered == offering

Submit ==
    /\ offering = 0
    /\ submitted < MaxSubmitted
    /\ submitted' = submitted + 1
    /\ IF stop
       THEN dropped' = dropped + 1 /\ UNCHANGED offering
       ELSE offering' = submitted' /\ UNCHANGED dropped
    /\ UNCHANGED <<queue, pending, attempts, stop, expired, pc, staged, table,
                   retention, uncertain, tries, bounds>>

Put ==
    /\ offering # 0
    /\ offering' = 0
    /\ IF Len(queue) < QueueLimit
       THEN queue' = Append(queue, offering) /\ UNCHANGED dropped
       ELSE dropped' = dropped + 1 /\ UNCHANGED queue
    /\ UNCHANGED <<submitted, pending, attempts, stop, expired, pc, staged,
                   table, retention, uncertain, tries, bounds>>

\* close() sets the deadline, then the flag, and waits for the thread.
Close ==
    /\ ~stop
    /\ stop' = TRUE
    /\ UNCHANGED <<submitted, offering, queue, pending, attempts, expired, pc,
                   staged, table, retention, counters, tries, bounds>>

DeadlinePasses ==
    /\ stop /\ ~expired
    /\ expired' = TRUE
    /\ UNCHANGED <<submitted, offering, queue, pending, attempts, stop, pc,
                   staged, table, retention, counters, tries, bounds>>

-----------------------------------------------------------------------------
(* Retention.                                                              *)

Lowest(records, n) ==
    {r \in records : Cardinality({s \in records : s.id < r.id}) < n}

TooOld(records) == {r \in records : r.row <= aged}

\* Records by age are taken in the order of their timestamps.
Oldest(records, n) ==
    {r \in records : Cardinality({s \in records : s.row < r.row}) < n}

\* Mutant: keeps one row less than the limit.
ExcessOffByOne(records) ==
    LET newest == CHOOSE r \in records : \A s \in records : s.id <= r.id
    IN  {r \in records : r.id <= newest.id - keep + 1}

\* id <= MAX(id) - max_rows
Excess(records) ==
    LET newest == CHOOSE r \in records : \A s \in records : s.id <= r.id
    IN  {r \in records : r.id <= newest.id - keep}

\* _prune_query_logs: a chunk by age, then a chunk by the number of rows.
ByAge(records) == Oldest(TooOld(records), PruneChunk)
ByCount(records) == Lowest(Excess(records \ ByAge(records)), PruneChunk)
Removed(records) == ByAge(records) \cup ByCount(records)

\* The timer starts again, or is due at once when a chunk was full.
PruneSettles(records) ==
    /\ sincePrune' = 0
    /\ stale' = \/ Cardinality(ByAge(records)) >= PruneChunk
                \/ Cardinality(ByCount(records)) >= PruneChunk

\* Mutant: pruning waits for traffic.
DueByRows(inserted) == sincePrune + inserted >= PruneEvery

Due(inserted) == sincePrune + inserted >= PruneEvery \/ stale

\* save_settings: configure_retention, and then prune_now on a connection of
\* its own, which may fail and leave the pruning to the writer.
SaveRetention ==
    /\ ~pruneDue
    /\ settings < MaxSettings
    /\ settings' = settings + 1
    /\ keep' \in KeepChoices
    /\ pruneDue' = TRUE
    /\ UNCHANGED <<memory, table, aged, sincePrune, stale, counters, tries,
                   faults>>

PruneNow ==
    /\ pruneDue
    /\ pruneDue' = FALSE
    /\ log' = log \ Removed(log)
    /\ PruneSettles(log)
    /\ UNCHANGED <<memory, nextId, logged, aged, keep, counters, tries, bounds>>

PruneNowFails ==
    /\ pruneDue
    /\ Fault
    /\ pruneDue' = FALSE
    /\ UNCHANGED <<memory, table, aged, keep, sincePrune, stale, counters,
                   tries>>

\* Rows grow old in the order of submission; a minute passes after a pruning.
RowAges ==
    /\ aged < submitted
    /\ aged' = aged + 1
    /\ UNCHANGED <<memory, table, keep, sincePrune, stale, pruneDue, counters,
                   tries, bounds>>

MinutePasses ==
    /\ ~stale
    /\ stale' = TRUE
    /\ UNCHANGED <<memory, table, aged, keep, sincePrune, pruneDue, counters,
                   tries, bounds>>

-----------------------------------------------------------------------------
(* The writer thread.                                                      *)

\* Mutant: a batch that is to be retried waits for another row.
WorkWhenQueued == queue # <<>>

Work == queue # <<>> \/ pending # <<>>

KeepRunning ==
    \/ ~stop
    \/ Work /\ ~expired

Writer(from, to) == pc = from /\ pc' = to

\* The loops of _run and of _run_connected share their condition.
Connect ==
    /\ KeepRunning
    /\ Writer("connect", "gather")
    /\ UNCHANGED <<submitted, offering, queue, pending, attempts, stop, expired,
                   staged, table, retention, counters, tries, bounds>>

ConnectFails ==
    /\ KeepRunning
    /\ pc = "connect"
    /\ Fault
    /\ UNCHANGED <<memory, table, retention, counters, tries>>

Disconnect ==
    /\ ~KeepRunning
    /\ Writer("gather", "connect")
    /\ UNCHANGED <<submitted, offering, queue, pending, attempts, stop, expired,
                   staged, table, retention, counters, tries, bounds>>

\* Mutant: a batch is topped up with a whole batch.
RoomForWholeBatch == BatchLimit

Room == BatchLimit - Len(pending)

\* A batch that is to be retried is topped up with rows that are waiting.
Gather ==
    LET taken == Least(Room, Len(queue))
    IN  /\ KeepRunning
        /\ Work
        /\ Writer("gather", "write")
        /\ pending' = pending \o SubSeq(queue, 1, taken)
        /\ queue' = SubSeq(queue, taken + 1, Len(queue))
        /\ attempts' = IF pending = <<>> THEN 0 ELSE attempts
        /\ UNCHANGED <<submitted, offering, stop, expired, staged, table,
                       retention, counters, tries, bounds>>

\* Nothing to write: _prune_connected when it is due, in a transaction of its
\* own.
Idle ==
    /\ KeepRunning
    /\ pc = "gather" /\ queue = <<>> /\ pending = <<>>
    /\ Due(0)
    /\ UNCHANGED <<submitted, offering, queue, pending, attempts, stop, expired,
                   staged, nextId, logged, aged, keep, pruneDue, counters,
                   tries>>

IdlePrune ==
    /\ Idle
    /\ log' = log \ Removed(log)
    /\ PruneSettles(log)
    /\ UNCHANGED <<pc, bounds>>

IdlePruneFails ==
    /\ Idle
    /\ Fault
    /\ log' \in {log, log \ Removed(log)}
    /\ pc' = "connect"
    /\ UNCHANGED <<sincePrune, stale>>

Attempted == [r \in RowIds |-> tries[r] + IF r \in Elements(pending) THEN 1
                                                                     ELSE 0]

NewRecords == {[id |-> nextId + k - 1, row |-> pending[k]] :
                  k \in DOMAIN pending}

\* BEGIN, the rows, and the pruning that is due, which restarts its timer
\* before the transaction is committed.
Write ==
    LET after == log \cup NewRecords IN
    /\ Writer("write", "commit")
    /\ nextId' = nextId + Len(pending)
    /\ tries' = Attempted
    /\ IF Due(Len(pending))
       THEN /\ staged' = [insert |-> NewRecords, delete |-> Removed(after)]
            /\ PruneSettles(after)
       ELSE /\ staged' = [insert |-> NewRecords, delete |-> {}]
            /\ sincePrune' = sincePrune + Len(pending)
            /\ UNCHANGED stale
    /\ UNCHANGED <<submitted, offering, queue, pending, attempts, stop, expired,
                   log, logged, aged, keep, pruneDue, counters, bounds>>

\* Mutant: a batch is given up one attempt late.
SpentLate(confirmed) == ~confirmed \/ attempts' > MaxAttempts

\* Given up: the rollback is not confirmed, or the attempts are used up.
Spent(confirmed) == ~confirmed \/ attempts' >= MaxAttempts

\* A statement before COMMIT fails.  The insert may have used up ids, and its
\* rows may have been counted towards the next pruning.
WriteFails ==
    /\ Writer("write", "connect")
    /\ Fault
    /\ attempts' = attempts + 1
    /\ tries' = Attempted
    /\ \E confirmed \in BOOLEAN :
          IF Spent(confirmed)
          THEN dropped' = dropped + Len(pending) /\ pending' = <<>>
          ELSE UNCHANGED <<dropped, pending>>
    /\ \E n \in {0, Len(pending)} :
          /\ sincePrune' = sincePrune + n
          /\ nextId' = nextId + IF IdGaps THEN n ELSE 0
    /\ UNCHANGED <<submitted, offering, queue, stop, expired, staged, log,
                   logged, aged, keep, stale, pruneDue, uncertain>>

TakesEffect ==
    /\ log' = (log \cup staged.insert) \ staged.delete
    /\ logged' = logged \cup staged.insert

Commit ==
    /\ Writer("commit", "gather")
    /\ TakesEffect
    /\ staged' = NothingStaged
    /\ pending' = <<>>
    /\ attempts' = 0
    /\ UNCHANGED <<submitted, offering, queue, stop, expired, nextId, retention,
                   counters, tries, bounds>>

\* Mutant: a batch whose COMMIT failed is written again.
CommitFailsRetrying ==
    /\ Writer("commit", "connect")
    /\ Fault
    /\ \/ TakesEffect /\ UNCHANGED nextId
       \/ /\ nextId' = nextId - IF IdGaps THEN 0 ELSE Len(pending)
          /\ UNCHANGED <<log, logged>>
    /\ staged' = NothingStaged
    /\ attempts' = attempts + 1
    /\ UNCHANGED <<submitted, offering, queue, pending, stop, expired,
                   retention, counters, tries>>

\* COMMIT raises, with or without effect: the batch is never written again.
CommitFails ==
    /\ Writer("commit", "connect")
    /\ Fault
    /\ \/ TakesEffect /\ UNCHANGED nextId
       \/ /\ nextId' = nextId - IF IdGaps THEN 0 ELSE Len(pending)
          /\ UNCHANGED <<log, logged>>
    /\ staged' = NothingStaged
    /\ uncertain' = uncertain + Len(pending)
    /\ pending' = <<>>
    /\ attempts' = attempts + 1
    /\ UNCHANGED <<submitted, offering, queue, stop, expired, retention,
                   dropped, tries>>

\* Mutant: what is left at the deadline is counted as one batch less.
LeftoverWithoutBatch == Len(queue)

Leftover == Len(pending) + Len(queue)

\* The last block of _run: what is left is dropped, under _metrics_lock.
Finish ==
    /\ ~KeepRunning
    /\ Offered = 0
    /\ Writer("connect", "stopped")
    /\ dropped' = dropped + Leftover
    /\ pending' = <<>>
    /\ queue' = <<>>
    /\ UNCHANGED <<submitted, offering, attempts, stop, expired, staged, table,
                   retention, uncertain, tries, bounds>>

-----------------------------------------------------------------------------
WriterStep ==
    \/ Connect \/ Disconnect \/ Gather \/ IdlePrune \/ Write \/ Commit \/ Finish

Failure ==
    \/ ConnectFails \/ IdlePruneFails \/ WriteFails \/ CommitFails
    \/ PruneNowFails

Environment ==
    \/ Submit \/ Put \/ Close \/ DeadlinePasses \/ SaveRetention \/ PruneNow
    \/ RowAges \/ MinutePasses

Next == WriterStep \/ Failure \/ Environment

Spec == Init /\ [][Next]_vars

\* The writer runs, a submitter that holds the lock goes on, minutes pass, and
\* the deadline of a shutdown passes.
Fairness ==
    /\ WF_vars(WriterStep) /\ WF_vars(Put) /\ WF_vars(MinutePasses)
    /\ WF_vars(DeadlinePasses) /\ WF_vars(PruneNow)

FairSpec == Spec /\ Fairness

-----------------------------------------------------------------------------
(* Properties.                                                             *)

Records == [id : Nat \ {0}, row : RowIds]

\* Type invariant of the logger, its queue, its counters and the table.
TypeOK ==
    /\ submitted \in 0..MaxSubmitted /\ offering \in 0..MaxSubmitted
    /\ queue \in Seq(RowIds) /\ Len(queue) <= QueueLimit
    /\ pending \in Seq(RowIds) /\ Len(pending) <= BatchLimit
    /\ attempts \in 0..MaxAttempts
    /\ stop \in BOOLEAN /\ expired \in BOOLEAN /\ stale \in BOOLEAN
    /\ pruneDue \in BOOLEAN
    /\ pc \in {"connect", "gather", "write", "commit", "stopped"}
    /\ staged.insert \in SUBSET Records /\ staged.delete \in SUBSET Records
    /\ log \in SUBSET Records /\ logged \in SUBSET Records
    /\ nextId \in Nat \ {0} /\ aged \in 0..MaxSubmitted
    /\ keep \in KeepChoices /\ sincePrune \in Nat
    /\ dropped \in Nat /\ uncertain \in Nat
    /\ tries \in [RowIds -> Nat]
    /\ faults \in 0..MaxFaults /\ settings \in 0..MaxSettings

\* docs/OPERATIONS.md: an ambiguous commit is never replayed.  No row is in
\* the table under two ids, and none that is in it, or was, can be written
\* again; and none is written more often than MaxAttempts ("up to three write
\* attempts"), although a batch is topped up with other rows between attempts.
LoggedOnce ==
    /\ \A r \in RowIds : tries[r] <= MaxAttempts
    /\ \A a, b \in logged : a.row = b.row => a = b
    /\ \A a \in logged : a.row \notin Elements(queue) \cup Elements(pending)

\* Every submitted row is accounted for, once: it is waiting, or counted as
\* dropped or uncertain, or acknowledged as committed (the batches counted as
\* uncertain may be in the table too).  A writer that has stopped leaves nothing
\* behind that no counter tells of, also when a submission was under way.
Conservation ==
    LET acknowledged == submitted - dropped - uncertain - Len(queue)
                        - Len(pending) - (IF offering = 0 THEN 0 ELSE 1)
    IN  /\ acknowledged >= 0
        /\ acknowledged <= Cardinality(logged)
        /\ Cardinality(logged) <= acknowledged + uncertain
        /\ pc = "stopped" => queue = <<>> /\ pending = <<>>

\* A step that decides to remove a row that is not too old leaves at least
\* max_rows newer ones in what it prunes: the table, or the table with the rows
\* that the transaction inserts.
LeavesEnough(removed, left) ==
    \A r \in removed :
        r.row <= aged \/ Cardinality({s \in left : s.id > r.id}) >= keep

\* docs/USER_GUIDE.md: pruning removes "excess-count rows" and rows that are too
\* old, and no others, whoever prunes and whatever another transaction has
\* staged meanwhile.
RemovesOnlyExcess ==
    [][/\ LeavesEnough((log \ log') \ staged.delete, log')
       /\ LeavesEnough(staged'.delete \ staged.delete,
                       (log' \cup staged'.insert) \ staged'.delete)]_vars

\* Rows that nothing fails for any more are written, or counted, and the writer
\* comes to rest.
EventuallyDrained == <>[](queue = <<>> /\ pending = <<>>)

\* When no more rows arrive, the table shrinks to its limit, however many
\* prunings that takes, unless the writer was stopped before.
EventuallyWithinLimit == <>[](stop \/ Cardinality(log) <= keep)
=============================================================================
