-------------------------- MODULE QueryLoggerProofs --------------------------
(***************************************************************************)
(* Theorems about QueryLogger, for every capacity, batch size, number of   *)
(* attempts, retention and number of faults: no row is committed twice or  *)
(* tried too often, every submitted row is waiting, counted or committed,  *)
(* and, where ids have no gaps, pruning removes only what it should. The   *)
(* first two rest on the order of the rows: the committed ones come before *)
(* the batch, the batch before the queue, the queue before the row that is *)
(* being put in. The last rests on the table's ids following the rows, so  *)
(* that what is removed is its lower end.                                  *)
(***************************************************************************)
EXTENDS QueryLogger, FiniteSetTheorems, SequenceTheorems, TLAPS

USE BoundsOK

Typed ==
    /\ TypeOK
    /\ staged \in [insert : SUBSET Records, delete : SUBSET Records]
    /\ IsFiniteSet(logged)

Increasing(s) == \A i, j \in DOMAIN s : i < j => s[i] < s[j]

\* The rows that are through with submit() are those up to this one.
Last == IF offering = 0 THEN submitted ELSE submitted - 1

\* The rows in the order of submission.
InOrder ==
    /\ offering # 0 => offering = submitted
    /\ Increasing(pending) /\ Increasing(queue)
    /\ \A i \in DOMAIN pending : pending[i] <= Last
    /\ \A j \in DOMAIN queue : queue[j] <= Last
    /\ \A i \in DOMAIN pending, j \in DOMAIN queue : pending[i] < queue[j]
    /\ \A a \in logged : /\ a.row <= Last
                         /\ \A i \in DOMAIN pending : a.row < pending[i]
                         /\ \A j \in DOMAIN queue : a.row < queue[j]
    /\ \A a, b \in logged : a.row = b.row => a = b

\* The attempts that a row of the batch may have behind it.
Tried == IF pc = "commit" THEN attempts + 1 ELSE attempts

\* Attempts are counted for the batch, and its rows have made no more.
AttemptsAreCounted ==
    /\ \A r \in RowIds : tries[r] <= MaxAttempts
    /\ \A r \in RowIds : r > Last => tries[r] = 0
    /\ \A j \in DOMAIN queue : tries[queue[j]] = 0
    /\ \A i \in DOMAIN pending : tries[pending[i]] <= Tried
    /\ pending # <<>> => attempts < MaxAttempts
    /\ pc \in {"write", "commit"} => pending # <<>>

\* What an open transaction inserts is the batch, each row under an id.
BatchIsStaged ==
    pc = "commit" =>
        /\ nextId > Len(pending)
        /\ staged.insert = {[id |-> nextId - Len(pending) + k - 1,
                             row |-> pending[k]] : k \in DOMAIN pending}

Acknowledged ==
    submitted - dropped - uncertain - Len(queue) - Len(pending)
    - (IF offering = 0 THEN 0 ELSE 1)

EachIsAccounted ==
    /\ Acknowledged >= 0
    /\ Acknowledged <= Cardinality(logged)
    /\ Cardinality(logged) <= Acknowledged + uncertain

\* After the writer's last block nobody puts a row in.
StoppedIsQuiet ==
    pc = "stopped" => stop /\ offering = 0 /\ queue = <<>> /\ pending = <<>>

Inductive ==
    /\ Typed /\ InOrder /\ AttemptsAreCounted /\ BatchIsStaged
    /\ EachIsAccounted /\ StoppedIsQuiet

-----------------------------------------------------------------------------
(* The operators.                                                          *)

\* What gathering takes from the queue, and what it leaves.
LEMMA QueueIsSplit ==
    ASSUME NEW s \in Seq(RowIds), NEW n \in 0..Len(s)
    PROVE  /\ SubSeq(s, 1, n) \in Seq(RowIds)
           /\ Len(SubSeq(s, 1, n)) = n
           /\ \A i \in 1..n : SubSeq(s, 1, n)[i] = s[i]
           /\ SubSeq(s, n + 1, Len(s)) \in Seq(RowIds)
           /\ Len(SubSeq(s, n + 1, Len(s))) = Len(s) - n
           /\ \A i \in 1..(Len(s) - n) : SubSeq(s, n + 1, Len(s))[i] = s[n + i]
<1>1. Len(s) \in Nat /\ \A i \in 1..Len(s) : s[i] \in RowIds
  BY ElementOfSeq
<1>2. /\ SubSeq(s, 1, n) \in Seq(RowIds)
      /\ Len(SubSeq(s, 1, n)) = IF 1 <= n THEN n - 1 + 1 ELSE 0
      /\ \A i \in 1..(n - 1 + 1) : SubSeq(s, 1, n)[i] = s[1 + i - 1]
  <2>1. \A i \in 1..n : s[i] \in RowIds
    BY <1>1
  <2> QED BY <2>1, <1>1, SubSeqProperties
<1>3. /\ SubSeq(s, n + 1, Len(s)) \in Seq(RowIds)
      /\ Len(SubSeq(s, n + 1, Len(s))) =
           IF n + 1 <= Len(s) THEN Len(s) - (n + 1) + 1 ELSE 0
      /\ \A i \in 1..(Len(s) - (n + 1) + 1) :
            SubSeq(s, n + 1, Len(s))[i] = s[n + 1 + i - 1]
  <2>1. \A i \in (n + 1)..Len(s) : s[i] \in RowIds
    BY <1>1
  <2>2. n + 1 \in Int /\ Len(s) \in Int
    BY <1>1
  <2> HIDE DEF RowIds
  <2> QED BY <2>1, <2>2, SubSeqProperties
<1> QED BY <1>1, <1>2, <1>3

\* Pruning removes records that are there.
LEMMA RemovedAreThere ==
    ASSUME NEW records
    PROVE  Removed(records) \subseteq records
BY DEF Removed, ByAge, ByCount, Oldest, TooOld, Lowest, Excess

\* A batch is as many records as it has rows.
LEMMA BatchSize ==
    ASSUME NEW s \in Seq(RowIds), Increasing(s), NEW base \in Int
    PROVE  LET records == {[id |-> base + k - 1, row |-> s[k]] :
                              k \in DOMAIN s}
           IN  IsFiniteSet(records) /\ Cardinality(records) = Len(s)
<1> DEFINE records == {[id |-> base + k - 1, row |-> s[k]] : k \in DOMAIN s}
           f == [k \in 1..Len(s) |-> [id |-> base + k - 1, row |-> s[k]]]
<1>1. Len(s) \in Nat /\ DOMAIN s = 1..Len(s)
  BY LenProperties
<1>2. IsFiniteSet(1..Len(s)) /\ Cardinality(1..Len(s)) = Len(s)
  <2>1. /\ IsFiniteSet(1..Len(s))
        /\ Cardinality(1..Len(s)) = IF 1 > Len(s) THEN 0 ELSE Len(s) - 1 + 1
    BY <1>1, FS_Interval
  <2> QED BY <2>1, <1>1
<1>3. f \in [1..Len(s) -> records]
  BY <1>1
<1>4. \A a, b \in 1..Len(s) : f[a] = f[b] => a = b
  <2> TAKE a, b \in 1..Len(s)
  <2> HAVE f[a] = f[b]
  <2>1. f[a].id = base + a - 1 /\ f[b].id = base + b - 1
    OBVIOUS
  <2>2. base + a - 1 = base + b - 1
    BY <2>1
  <2> QED BY <2>2, <1>1
<1>5. \A t \in records : \E k \in 1..Len(s) : f[k] = t
  BY <1>1
<1>6. f \in Bijection(1..Len(s), records)
  <2> HIDE DEF f, records
  <2>1. DOMAIN f = 1..Len(s)
    BY <1>3
  <2> QED BY <1>3, <1>4, <1>5, <2>1
          DEF Bijection, Injection, Surjection, IsInjective
<1>7. ExistsBijection(1..Len(s), records)
  BY <1>6 DEF ExistsBijection
<1> HIDE DEF f, records
<1>8. IsFiniteSet(records) /\ Cardinality(records) = Cardinality(1..Len(s))
  BY <1>2, <1>7, FS_Bijection
<1> QED BY <1>2, <1>8 DEF records

-----------------------------------------------------------------------------
(* Types.                                                                  *)

\* A step that moves no row: retention, connections, the flags.
QuietStep ==
    /\ UNCHANGED <<submitted, offering, queue, pending, attempts, staged,
                   nextId, logged, dropped, uncertain, tries>>
    /\ stop => stop'
    /\ \/ pc' = pc
       \/ pc \in {"connect", "gather"} /\ pc' \in {"connect", "gather"}

Quiet ==
    \/ Close \/ DeadlinePasses \/ SaveRetention \/ PruneNow \/ PruneNowFails
    \/ RowAges \/ MinutePasses \/ Connect \/ ConnectFails \/ Disconnect
    \/ IdlePrune \/ IdlePruneFails

LEMMA InitTyped == Init => Typed
<1> SUFFICES ASSUME Init PROVE Typed
  OBVIOUS
<1>1. staged \in [insert : SUBSET Records, delete : SUBSET Records]
  BY DEF Init, NothingStaged
<1>2. queue = <<>> /\ pending = <<>> /\ log = {} /\ logged = {}
  BY DEF Init
<1>3. queue \in Seq(RowIds) /\ pending \in Seq(RowIds)
  BY <1>2, EmptySeq
<1>4. Len(queue) = 0 /\ Len(pending) = 0
  BY <1>2, EmptySeq
<1>5. IsFiniteSet(logged)
  BY <1>2, FS_EmptySet
<1>6. /\ submitted \in 0..MaxSubmitted /\ offering \in 0..MaxSubmitted
      /\ attempts \in 0..MaxAttempts
      /\ nextId \in Nat \ {0} /\ aged \in 0..MaxSubmitted
      /\ sincePrune \in Nat /\ dropped \in Nat /\ uncertain \in Nat
      /\ faults \in 0..MaxFaults /\ settings \in 0..MaxSettings
      /\ Len(queue) <= QueueLimit /\ Len(pending) <= BatchLimit
  BY <1>4 DEF Init
<1>7. tries \in [RowIds -> Nat]
  BY DEF Init
<1>8. /\ stop \in BOOLEAN /\ expired \in BOOLEAN /\ stale \in BOOLEAN
      /\ pruneDue \in BOOLEAN /\ keep \in KeepChoices
      /\ pc \in {"connect", "gather", "write", "commit", "stopped"}
  BY DEF Init
<1> QED BY <1>1, <1>2, <1>3, <1>5, <1>6, <1>7, <1>8 DEF Typed, TypeOK

\* The timer of a pruning has a value again.
LEMMA PruningIsTyped ==
    ASSUME NEW records, PruneSettles(records)
    PROVE  sincePrune' \in Nat /\ stale' \in BOOLEAN
BY DEF PruneSettles

LEMMA FaultIsTyped ==
    ASSUME Typed, Fault
    PROVE  faults' \in 0..MaxFaults /\ settings' = settings
BY DEF Typed, TypeOK, Fault

\* What the quiet steps have in common, and that they keep the types.
LEMMA QuietIsQuiet ==
    ASSUME Typed, Quiet
    PROVE  QuietStep /\ Typed'
<1> USE DEF memory, table, retention, counters, bounds, Writer
<1>1. CASE Close \/ DeadlinePasses
  BY <1>1 DEF Close, DeadlinePasses, QuietStep, Typed, TypeOK
<1>2. CASE SaveRetention
  <2>1. settings' \in 0..MaxSettings
    BY <1>2 DEF SaveRetention, Typed, TypeOK
  <2> QED BY <1>2, <2>1 DEF SaveRetention, QuietStep, Typed, TypeOK
<1>3. CASE PruneNow
  <2>1. sincePrune' \in Nat /\ stale' \in BOOLEAN
    BY <1>3, PruningIsTyped DEF PruneNow
  <2>2. log' \subseteq log
    BY <1>3 DEF PruneNow
  <2> QED BY <1>3, <2>1, <2>2 DEF PruneNow, QuietStep, Typed, TypeOK
<1>4. CASE PruneNowFails
  <2>1. faults' \in 0..MaxFaults /\ settings' = settings
    BY <1>4, FaultIsTyped DEF PruneNowFails
  <2> QED BY <1>4, <2>1 DEF PruneNowFails, QuietStep, Typed, TypeOK
<1>5. CASE RowAges \/ MinutePasses
  <2>1. aged' \in 0..MaxSubmitted
    BY <1>5 DEF RowAges, MinutePasses, Typed, TypeOK
  <2> QED BY <1>5, <2>1 DEF RowAges, MinutePasses, QuietStep, Typed, TypeOK
<1>6. CASE Connect \/ Disconnect
  BY <1>6 DEF Connect, Disconnect, QuietStep, Typed, TypeOK
<1>7. CASE ConnectFails
  <2>1. faults' \in 0..MaxFaults /\ settings' = settings
    BY <1>7, FaultIsTyped DEF ConnectFails
  <2> QED BY <1>7, <2>1 DEF ConnectFails, QuietStep, Typed, TypeOK
<1>8. CASE IdlePrune
  <2>1. sincePrune' \in Nat /\ stale' \in BOOLEAN
    BY <1>8, PruningIsTyped DEF IdlePrune
  <2>2. log' \subseteq log
    BY <1>8 DEF IdlePrune
  <2> QED BY <1>8, <2>1, <2>2 DEF IdlePrune, Idle, QuietStep, Typed, TypeOK
<1>9. CASE IdlePruneFails
  <2>1. faults' \in 0..MaxFaults /\ settings' = settings
    BY <1>9, FaultIsTyped DEF IdlePruneFails
  <2>2. log' \subseteq log
    BY <1>9 DEF IdlePruneFails
  <2> QED BY <1>9, <2>1, <2>2 DEF IdlePruneFails, Idle, QuietStep, Typed, TypeOK
<1> QED BY <1>1, <1>2, <1>3, <1>4, <1>5, <1>6, <1>7, <1>8, <1>9 DEF Quiet

\* A quiet step disturbs nothing of the invariant.
LEMMA QuietKeeps ==
    ASSUME Inductive, QuietStep
    PROVE  /\ InOrder' /\ AttemptsAreCounted' /\ BatchIsStaged'
           /\ EachIsAccounted' /\ StoppedIsQuiet'
<1> USE DEF QuietStep
<1>1. InOrder'
  BY DEF Inductive, InOrder, Increasing, Last
<1>2. (pc' = "commit" <=> pc = "commit") /\ (pc' = "write" <=> pc = "write")
      /\ (pc' = "stopped" <=> pc = "stopped")
  OBVIOUS
<1>3. AttemptsAreCounted'
  BY <1>2 DEF Inductive, AttemptsAreCounted, Tried, Last
<1>4. BatchIsStaged'
  BY <1>2 DEF Inductive, BatchIsStaged
<1>5. EachIsAccounted'
  BY DEF Inductive, EachIsAccounted, Acknowledged
<1>6. StoppedIsQuiet'
  BY <1>2 DEF Inductive, StoppedIsQuiet
<1> QED BY <1>1, <1>3, <1>4, <1>5, <1>6

-----------------------------------------------------------------------------
(* submit() and the end of the writer.                                     *)

LEMMA SubmitKeeps == ASSUME Inductive, Submit PROVE Inductive'
<1> USE DEF memory, table, retention, counters, bounds
<1>1. Typed'
  <2>1. submitted' \in 0..MaxSubmitted /\ dropped' \in Nat
        /\ offering' \in 0..MaxSubmitted
    BY DEF Inductive, Typed, TypeOK, Submit
  <2> QED BY <2>1 DEF Inductive, Typed, TypeOK, Submit
<1>2. offering = 0 /\ Last = submitted /\ Last' \in {submitted, submitted + 1}
      /\ submitted \in Nat
  BY DEF Inductive, Typed, TypeOK, Submit, Last
<1>3. InOrder'
  <2>1. UNCHANGED <<queue, pending, logged>>
    BY DEF Submit
  <2>2. offering' # 0 => offering' = submitted'
    BY DEF Submit
  <2>3. \A x \in Int : x <= Last => x <= Last'
    BY <1>2
  <2>4. /\ \A i \in DOMAIN pending : pending[i] \in Int
        /\ \A j \in DOMAIN queue : queue[j] \in Int
        /\ \A a \in logged : a.row \in Int
    BY DEF Inductive, Typed, TypeOK, Records, RowIds
  <2> QED BY <2>1, <2>2, <2>3, <2>4 DEF Inductive, InOrder, Increasing
<1>4. AttemptsAreCounted'
  <2>1. UNCHANGED <<queue, pending, attempts, tries, pc>>
    BY DEF Submit
  <2>2. \A r \in RowIds : r > Last' => r > Last
    BY <1>2 DEF RowIds
  <2> QED BY <2>1, <2>2 DEF Inductive, AttemptsAreCounted, Tried
<1>5. BatchIsStaged'
  BY DEF Inductive, BatchIsStaged, Submit
<1>6. EachIsAccounted'
  <2>1. submitted \in Nat /\ dropped \in Nat /\ uncertain \in Nat
        /\ Len(queue) \in Nat /\ Len(pending) \in Nat
    BY DEF Inductive, Typed, TypeOK
  <2>2. Acknowledged' = Acknowledged
    BY <2>1, <1>2 DEF Submit, Acknowledged
  <2> QED BY <2>2 DEF Inductive, EachIsAccounted, Submit
<1>7. StoppedIsQuiet'
  BY DEF Inductive, StoppedIsQuiet, Submit
<1> QED BY <1>1, <1>3, <1>4, <1>5, <1>6, <1>7 DEF Inductive

\* The row that is put in was submitted after all the others.
LEMMA PutKeeps == ASSUME Inductive, Put PROVE Inductive'
<1> USE DEF memory, table, retention, counters, bounds
<1>1. offering # 0 /\ offering = submitted /\ Last = submitted - 1
      /\ Last' = submitted /\ offering \in RowIds /\ submitted \in Nat
  BY DEF Inductive, Typed, TypeOK, InOrder, Put, Last, RowIds
<1>2. queue \in Seq(RowIds) /\ Len(queue) \in Nat
  BY DEF Inductive, Typed, TypeOK
<1>3. UNCHANGED <<submitted, pending, attempts, stop, pc, staged, nextId,
                  logged, uncertain, tries>> /\ offering' = 0
  BY DEF Put
<1>4. /\ queue' \in Seq(RowIds) /\ Len(queue') <= QueueLimit
      /\ \/ queue' = queue /\ dropped' = dropped + 1
         \/ /\ Len(queue') = Len(queue) + 1 /\ dropped' = dropped
            /\ \A j \in 1..Len(queue) : queue'[j] = queue[j]
            /\ queue'[Len(queue) + 1] = offering
  <2>1. CASE Len(queue) < QueueLimit
    BY <2>1, <1>1, <1>2, AppendProperties DEF Put
  <2>2. CASE ~(Len(queue) < QueueLimit)
    BY <2>2, <1>2 DEF Put, Inductive, Typed, TypeOK
  <2> QED BY <2>1, <2>2
<1>5. /\ DOMAIN queue = 1..Len(queue) /\ DOMAIN queue' = 1..Len(queue')
      /\ \A j \in DOMAIN queue' :
            \/ queue'[j] = offering
            \/ j \in DOMAIN queue /\ queue'[j] = queue[j]
  BY <1>2, <1>4, LenProperties
<1>6. Typed'
  <2>1. dropped' \in Nat
    BY <1>4 DEF Inductive, Typed, TypeOK
  <2> QED BY <2>1, <1>3, <1>4 DEF Inductive, Typed, TypeOK, Put
<1>7. \A x \in Int : x <= Last => x <= Last' /\ x < offering
  BY <1>1
<1>8. /\ \A i \in DOMAIN pending : pending[i] \in Int
      /\ \A j \in DOMAIN queue : queue[j] \in Int
      /\ \A a \in logged : a.row \in Int
  BY DEF Inductive, Typed, TypeOK, Records, RowIds
<1>9. Increasing(queue)'
  <2>1. Increasing(queue) /\ \A j \in DOMAIN queue : queue[j] < offering
    BY <1>7, <1>8 DEF Inductive, InOrder
  <2>2. CASE queue' = queue
    BY <2>1, <2>2 DEF Increasing
  <2>3. CASE /\ Len(queue') = Len(queue) + 1
             /\ \A j \in 1..Len(queue) : queue'[j] = queue[j]
             /\ queue'[Len(queue) + 1] = offering
    BY <2>1, <2>3, <1>2, <1>5 DEF Increasing
  <2> QED BY <2>2, <2>3, <1>4
<1>10. InOrder'
  <2>1. \A j \in DOMAIN queue' : queue'[j] <= Last'
    BY <1>1, <1>5, <1>7, <1>8 DEF Inductive, InOrder
  <2>2. \A i \in DOMAIN pending' : pending'[i] <= Last'
    BY <1>3, <1>7, <1>8 DEF Inductive, InOrder
  <2>3. \A i \in DOMAIN pending', j \in DOMAIN queue' : pending'[i] < queue'[j]
    BY <1>3, <1>5, <1>7, <1>8 DEF Inductive, InOrder
  <2>4. \A a \in logged' : /\ a.row <= Last'
                           /\ \A i \in DOMAIN pending' : a.row < pending'[i]
                           /\ \A j \in DOMAIN queue' : a.row < queue'[j]
    BY <1>3, <1>5, <1>7, <1>8 DEF Inductive, InOrder
  <2> QED BY <2>1, <2>2, <2>3, <2>4, <1>3, <1>9
          DEF Inductive, InOrder, Increasing
<1>11. AttemptsAreCounted'
  <2>1. \A r \in RowIds : r > Last' => r > Last
    BY <1>1 DEF RowIds
  <2>2. tries[offering] = 0
    BY <1>1 DEF Inductive, AttemptsAreCounted
  <2>3. \A j \in DOMAIN queue' : tries'[queue'[j]] = 0
    BY <2>2, <1>3, <1>5 DEF Inductive, AttemptsAreCounted
  <2> QED BY <2>1, <2>3, <1>3 DEF Inductive, AttemptsAreCounted, Tried
<1>12. BatchIsStaged'
  BY <1>3 DEF Inductive, BatchIsStaged
<1>13. EachIsAccounted'
  <2>1. submitted \in Nat /\ dropped \in Nat /\ uncertain \in Nat
        /\ Len(queue) \in Nat /\ Len(pending) \in Nat
    BY DEF Inductive, Typed, TypeOK
  <2>2. Acknowledged' = Acknowledged
    BY <2>1, <1>1, <1>3, <1>4 DEF Acknowledged
  <2> QED BY <2>2, <1>3 DEF Inductive, EachIsAccounted
<1>14. StoppedIsQuiet'
  BY <1>1, <1>3 DEF Inductive, StoppedIsQuiet
<1> QED BY <1>6, <1>10, <1>11, <1>12, <1>13, <1>14 DEF Inductive

LEMMA FinishKeeps == ASSUME Inductive, Finish PROVE Inductive'
<1> USE DEF memory, table, retention, counters, bounds
<1>1. /\ queue' = <<>> /\ pending' = <<>> /\ pc' = "stopped" /\ stop'
      /\ offering' = 0 /\ offering = 0 /\ dropped' = dropped + Leftover
      /\ UNCHANGED <<submitted, attempts, staged, nextId, logged, uncertain,
                     tries>>
  BY DEF Finish, Writer, KeepRunning, Offered, Inductive, Typed, TypeOK
<1>2. /\ queue' \in Seq(RowIds) /\ pending' \in Seq(RowIds)
      /\ Len(queue') = 0 /\ Len(pending') = 0
      /\ DOMAIN queue' = {} /\ DOMAIN pending' = {}
  BY <1>1, EmptySeq
<1>3. submitted \in Nat /\ dropped \in Nat /\ uncertain \in Nat
      /\ Len(queue) \in Nat /\ Len(pending) \in Nat
  BY DEF Inductive, Typed, TypeOK
<1>4. Typed'
  <2>1. dropped' \in Nat
    BY <1>1, <1>3 DEF Leftover
  <2> QED BY <2>1, <1>1, <1>2 DEF Inductive, Typed, TypeOK, Finish
<1>5. InOrder'
  BY <1>1, <1>2 DEF Inductive, InOrder, Increasing, Last
<1>6. AttemptsAreCounted'
  BY <1>1, <1>2 DEF Inductive, AttemptsAreCounted, Last
<1>7. BatchIsStaged'
  BY <1>1 DEF BatchIsStaged
<1>8. EachIsAccounted'
  <2>1. Acknowledged' = Acknowledged
    BY <1>1, <1>2, <1>3 DEF Acknowledged, Leftover
  <2> QED BY <2>1, <1>1 DEF Inductive, EachIsAccounted
<1>9. StoppedIsQuiet'
  BY <1>1 DEF StoppedIsQuiet
<1> QED BY <1>4, <1>5, <1>6, <1>7, <1>8, <1>9 DEF Inductive

-----------------------------------------------------------------------------
(* The writer's batch.                                                     *)

\* What gathering does to the two sequences: the first rows of the queue go to
\* the end of the batch.
LEMMA GatherMoves ==
    ASSUME Typed, Gather
    PROVE  \E n \in 0..Len(queue) :
              /\ n <= BatchLimit - Len(pending)
              /\ Len(pending) + n > 0
              /\ pending' \in Seq(RowIds) /\ queue' \in Seq(RowIds)
              /\ Len(pending') = Len(pending) + n
              /\ Len(queue') = Len(queue) - n
              /\ \A i \in 1..Len(pending) : pending'[i] = pending[i]
              /\ \A i \in 1..n : pending'[Len(pending) + i] = queue[i]
              /\ \A j \in 1..(Len(queue) - n) : queue'[j] = queue[n + j]
<1>1. /\ queue \in Seq(RowIds) /\ pending \in Seq(RowIds)
      /\ Len(queue) \in Nat /\ Len(pending) \in Nat
      /\ Len(pending) <= BatchLimit
  BY DEF Typed, TypeOK
<1>2. PICK n : n = Least(Room, Len(queue))
  OBVIOUS
<1>3. n \in 0..Len(queue) /\ n <= BatchLimit - Len(pending)
  BY <1>1, <1>2 DEF Least, Room
<1>4. Len(pending) + n > 0
  <2>1. CASE pending = <<>>
    <3>1. Len(queue) > 0
      BY <1>1, <2>1, EmptySeq DEF Gather, Work
    <3>2. Len(pending) = 0
      BY <2>1, EmptySeq
    <3> QED BY <3>1, <3>2, <1>1, <1>2 DEF Least, Room
  <2>2. CASE pending # <<>>
    BY <2>2, <1>1, <1>3, EmptySeq
  <2> QED BY <2>1, <2>2
<1>5. /\ pending' = pending \o SubSeq(queue, 1, n)
      /\ queue' = SubSeq(queue, n + 1, Len(queue))
  BY <1>2 DEF Gather
<1>6. PICK taken : taken = SubSeq(queue, 1, n)
  OBVIOUS
<1>7. /\ taken \in Seq(RowIds) /\ Len(taken) = n
      /\ \A i \in 1..n : taken[i] = queue[i]
      /\ queue' \in Seq(RowIds) /\ Len(queue') = Len(queue) - n
      /\ \A j \in 1..(Len(queue) - n) : queue'[j] = queue[n + j]
  BY <1>1, <1>3, <1>5, <1>6, QueueIsSplit
<1>8. /\ pending' \in Seq(RowIds) /\ Len(pending') = Len(pending) + n
      /\ \A i \in 1..Len(pending) + n :
            pending'[i] = IF i <= Len(pending) THEN pending[i]
                                               ELSE taken[i - Len(pending)]
  <2>1. pending' = pending \o taken
    BY <1>5, <1>6
  <2>2. /\ pending \o taken \in Seq(RowIds)
        /\ Len(pending \o taken) = Len(pending) + Len(taken)
        /\ \A i \in 1..Len(pending) + Len(taken) :
              (pending \o taken)[i] = IF i <= Len(pending)
                                      THEN pending[i]
                                      ELSE taken[i - Len(pending)]
    BY <1>1, <1>7, ConcatProperties
  <2>3. Len(taken) = n
    BY <1>7
  <2> QED BY <2>1, <2>2, <2>3
<1>9. \A i \in 1..Len(pending) : pending'[i] = pending[i]
  BY <1>1, <1>3, <1>8
<1>10. \A i \in 1..n : pending'[Len(pending) + i] = queue[i]
  <2> TAKE i \in 1..n
  <2>1. Len(pending) + i \in 1..Len(pending) + n /\ ~(Len(pending) + i <= Len(pending))
        /\ (Len(pending) + i) - Len(pending) = i
    BY <1>1, <1>3
  <2> QED BY <2>1, <1>7, <1>8
<1> QED BY <1>3, <1>4, <1>7, <1>8, <1>9, <1>10

LEMMA GatherKeeps == ASSUME Inductive, Gather PROVE Inductive'
<1> USE DEF memory, table, retention, counters, bounds
<1>1. Typed
  BY DEF Inductive
<1>2. PICK n \in 0..Len(queue) :
              /\ n <= BatchLimit - Len(pending)
              /\ Len(pending) + n > 0
              /\ pending' \in Seq(RowIds) /\ queue' \in Seq(RowIds)
              /\ Len(pending') = Len(pending) + n
              /\ Len(queue') = Len(queue) - n
              /\ \A i \in 1..Len(pending) : pending'[i] = pending[i]
              /\ \A i \in 1..n : pending'[Len(pending) + i] = queue[i]
              /\ \A j \in 1..(Len(queue) - n) : queue'[j] = queue[n + j]
  BY <1>1, GatherMoves
<1>3. /\ Len(queue) \in Nat /\ Len(pending) \in Nat
      /\ DOMAIN queue = 1..Len(queue) /\ DOMAIN pending = 1..Len(pending)
      /\ DOMAIN queue' = 1..Len(queue') /\ DOMAIN pending' = 1..Len(pending')
      /\ Len(queue) <= QueueLimit
      /\ \A i \in DOMAIN pending : pending[i] \in RowIds
      /\ \A j \in DOMAIN queue : queue[j] \in RowIds
  BY <1>1, <1>2, LenProperties DEF Typed, TypeOK
<1>4. /\ pc = "gather" /\ pc' = "write"
      /\ attempts' = IF pending = <<>> THEN 0 ELSE attempts
      /\ UNCHANGED <<submitted, offering, stop, staged, nextId, logged, dropped,
                     uncertain, tries>>
  BY DEF Gather, Writer
\* A row of the new batch was in the old one or in the queue.
<1>5. \A i \in DOMAIN pending' :
         \/ i \in DOMAIN pending /\ pending'[i] = pending[i]
         \/ /\ i - Len(pending) \in 1..n /\ i - Len(pending) \in DOMAIN queue
            /\ pending'[i] = queue[i - Len(pending)]
  <2> TAKE i \in DOMAIN pending'
  <2>1. CASE i <= Len(pending)
    BY <2>1, <1>2, <1>3
  <2>2. CASE ~(i <= Len(pending))
    <3>1. i - Len(pending) \in 1..n /\ i = Len(pending) + (i - Len(pending))
      BY <2>2, <1>2, <1>3
    <3>2. i - Len(pending) \in DOMAIN queue
      BY <3>1, <1>3
    <3> QED BY <3>1, <3>2, <1>2
  <2> QED BY <2>1, <2>2
<1>6. \A j \in DOMAIN queue' :
         n + j \in DOMAIN queue /\ n + j > n /\ queue'[j] = queue[n + j]
  BY <1>2, <1>3
<1>7. Typed'
  <2>1. /\ Len(pending') <= BatchLimit /\ Len(queue') <= QueueLimit
    BY <1>2, <1>3
  <2>2. attempts' \in 0..MaxAttempts
    BY <1>1, <1>4 DEF Typed, TypeOK
  <2> QED BY <2>1, <2>2, <1>1, <1>2, <1>4 DEF Typed, TypeOK, Gather
<1>8. InOrder
  BY DEF Inductive
<1>9. Increasing(pending)'
  <2>1. \A i, j \in DOMAIN pending' : i < j => pending'[i] < pending'[j]
    <3> TAKE i, j \in DOMAIN pending'
    <3> HAVE i < j
    <3>1. i \in Int /\ j \in Int
      BY <1>3
    <3>2. CASE j \in DOMAIN pending /\ pending'[j] = pending[j]
      <4>1. i \in DOMAIN pending /\ pending'[i] = pending[i]
        BY <3>1, <3>2, <1>2, <1>3
      <4> QED BY <3>2, <4>1, <1>8 DEF InOrder, Increasing
    <3>3. CASE /\ j - Len(pending) \in DOMAIN queue
               /\ pending'[j] = queue[j - Len(pending)]
      <4>1. CASE i \in DOMAIN pending /\ pending'[i] = pending[i]
        BY <3>3, <4>1, <1>8 DEF InOrder
      <4>2. CASE /\ i - Len(pending) \in DOMAIN queue
                 /\ pending'[i] = queue[i - Len(pending)]
        <5>1. i - Len(pending) < j - Len(pending)
          BY <3>1, <1>3
        <5> QED BY <3>3, <4>2, <5>1, <1>8 DEF InOrder, Increasing
      <4> QED BY <4>1, <4>2, <1>5
    <3> QED BY <3>2, <3>3, <1>5
  <2> QED BY <2>1 DEF Increasing
<1>10. Increasing(queue)'
  <2>1. \A i, j \in DOMAIN queue' : i < j => n + i < n + j
    BY <1>2, <1>3
  <2>2. \A i, j \in DOMAIN queue' : i < j => queue[n + i] < queue[n + j]
    BY <2>1, <1>6, <1>8 DEF InOrder, Increasing
  <2> QED BY <2>2, <1>6 DEF Increasing
<1>11. \A i \in DOMAIN pending', j \in DOMAIN queue' : pending'[i] < queue'[j]
  <2> TAKE i \in DOMAIN pending', j \in DOMAIN queue'
  <2>1. CASE i \in DOMAIN pending /\ pending'[i] = pending[i]
    BY <2>1, <1>6, <1>8 DEF InOrder
  <2>2. CASE /\ i - Len(pending) \in 1..n /\ i - Len(pending) \in DOMAIN queue
             /\ pending'[i] = queue[i - Len(pending)]
    <3>1. i - Len(pending) < n + j
      BY <2>2, <1>2, <1>3
    <3> QED BY <2>2, <3>1, <1>6, <1>8 DEF InOrder, Increasing
  <2> QED BY <2>1, <2>2, <1>5
<1>12. Last' = Last
  BY <1>4 DEF Last
<1>13. InOrder'
  <2>1. /\ \A i \in DOMAIN pending' : pending'[i] <= Last'
        /\ \A j \in DOMAIN queue' : queue'[j] <= Last'
    BY <1>5, <1>6, <1>8, <1>12 DEF InOrder
  <2>2. \A a \in logged' : /\ a.row <= Last'
                           /\ \A i \in DOMAIN pending' : a.row < pending'[i]
                           /\ \A j \in DOMAIN queue' : a.row < queue'[j]
    BY <1>4, <1>5, <1>6, <1>8, <1>12 DEF InOrder
  <2> QED BY <2>1, <2>2, <1>4, <1>8, <1>9, <1>10, <1>11 DEF InOrder
<1>14. AttemptsAreCounted'
  <2>1. AttemptsAreCounted
    BY DEF Inductive
  <2>2. attempts' < MaxAttempts /\ attempts' \in Nat
    BY <1>1, <1>4, <2>1 DEF AttemptsAreCounted, Typed, TypeOK
  <2>3. pending' # <<>>
    BY <1>2, <1>3, EmptySeq
  <2>4. \A j \in DOMAIN queue' : tries'[queue'[j]] = 0
    BY <2>1, <1>4, <1>6 DEF AttemptsAreCounted
  <2>5. \A i \in DOMAIN pending : tries[pending[i]] <= attempts'
    <3> TAKE i \in DOMAIN pending
    <3>1. pending # <<>>
      BY <1>3, EmptySeq
    <3>2. attempts' = attempts
      BY <3>1, <1>4
    <3> QED BY <3>2, <2>1, <1>4 DEF AttemptsAreCounted, Tried
  <2>6. \A i \in DOMAIN pending' : tries'[pending'[i]] <= attempts'
    BY <2>1, <2>2, <2>5, <1>4, <1>5 DEF AttemptsAreCounted
  <2> QED BY <2>1, <2>2, <2>3, <2>4, <2>6, <1>4, <1>12
          DEF AttemptsAreCounted, Tried
<1>15. BatchIsStaged' /\ StoppedIsQuiet'
  BY <1>4 DEF BatchIsStaged, StoppedIsQuiet
<1>16. EachIsAccounted'
  <2>1. submitted \in Nat /\ dropped \in Nat /\ uncertain \in Nat
    BY <1>1 DEF Typed, TypeOK
  <2>2. Len(queue') + Len(pending') = Len(queue) + Len(pending)
        /\ Len(queue') \in Nat /\ Len(pending') \in Nat
    BY <1>2, <1>3
  <2>3. Acknowledged' = Acknowledged
    <3>1. Len(queue) \in Nat /\ Len(pending) \in Nat
      BY <1>3
    <3>2. UNCHANGED <<submitted, offering, dropped, uncertain>>
      BY <1>4
    <3> QED BY <2>1, <2>2, <3>1, <3>2 DEF Acknowledged
  <2> QED BY <2>3, <1>4 DEF Inductive, EachIsAccounted
<1> QED BY <1>7, <1>13, <1>14, <1>15, <1>16 DEF Inductive

-----------------------------------------------------------------------------
(* The writer's transaction.                                               *)

\* The rows of the batch are rows, in a sequence of some length.
LEMMA BatchIsTyped ==
    ASSUME Typed
    PROVE  /\ pending \in Seq(RowIds) /\ Len(pending) \in Nat
           /\ DOMAIN pending = 1..Len(pending)
           /\ \A i \in DOMAIN pending : pending[i] \in RowIds
BY LenProperties, ElementOfSeq DEF Typed, TypeOK

\* Every row of the batch has one attempt more, the others have none.
LEMMA AttemptedRows ==
    ASSUME Inductive, pc = "write", tries' = Attempted
    PROVE  /\ tries' \in [RowIds -> Nat]
           /\ \A i \in DOMAIN pending : tries'[pending[i]] <= attempts + 1
           /\ \A r \in RowIds : tries'[r] <= MaxAttempts
           /\ \A r \in RowIds :
                 (\A i \in DOMAIN pending : pending[i] # r) => tries'[r] = tries[r]
           /\ attempts + 1 \in 0..MaxAttempts
<1>1. /\ tries \in [RowIds -> Nat] /\ attempts \in 0..MaxAttempts
      /\ attempts < MaxAttempts
      /\ \A i \in DOMAIN pending : tries[pending[i]] <= attempts
      /\ \A r \in RowIds : tries[r] <= MaxAttempts
  BY DEF Inductive, Typed, TypeOK, AttemptsAreCounted, Tried
<1>2. \A r \in RowIds : tries'[r] = IF r \in Elements(pending) THEN tries[r] + 1
                                                              ELSE tries[r]
  <2> TAKE r \in RowIds
  <2>1. tries'[r] = tries[r] + IF r \in Elements(pending) THEN 1 ELSE 0
    BY DEF Attempted
  <2> QED BY <2>1, <1>1
<1>3. tries' \in [RowIds -> Nat]
  <2>1. \A r \in RowIds : tries[r] + (IF r \in Elements(pending) THEN 1 ELSE 0)
                            \in Nat
    BY <1>1
  <2> QED BY <2>1 DEF Attempted
<1>4. \A r \in RowIds : r \in Elements(pending) <=>
                          \E i \in DOMAIN pending : pending[i] = r
  BY DEF Elements
<1>5. \A i \in DOMAIN pending : pending[i] \in RowIds
  BY BatchIsTyped DEF Inductive
<1>6. \A r \in RowIds : r \in Elements(pending) => tries'[r] <= attempts + 1
  BY <1>1, <1>2, <1>4
<1>7. \A r \in RowIds : tries'[r] <= MaxAttempts
  <2> TAKE r \in RowIds
  <2>1. CASE r \in Elements(pending)
    BY <2>1, <1>1, <1>3, <1>6
  <2>2. CASE r \notin Elements(pending)
    BY <2>2, <1>1, <1>2
  <2> QED BY <2>1, <2>2
<1> QED BY <1>1, <1>2, <1>3, <1>4, <1>5, <1>6, <1>7

LEMMA WriteKeeps == ASSUME Inductive, Write PROVE Inductive'
<1> USE DEF memory, table, retention, counters, bounds
<1>1. Typed /\ InOrder /\ AttemptsAreCounted
  BY DEF Inductive
<1>2. /\ pc = "write" /\ pc' = "commit" /\ nextId' = nextId + Len(pending)
      /\ tries' = Attempted /\ staged'.insert = NewRecords
      /\ UNCHANGED <<submitted, offering, queue, pending, attempts, stop, logged,
                     dropped, uncertain>>
  BY DEF Write, Writer
<1>3. /\ pending \in Seq(RowIds) /\ Len(pending) \in Nat
      /\ DOMAIN pending = 1..Len(pending)
      /\ \A i \in DOMAIN pending : pending[i] \in RowIds
  BY <1>1, BatchIsTyped
<1>4. nextId \in Nat \ {0}
  BY <1>1 DEF Typed, TypeOK
<1>5. NewRecords \subseteq Records
  <2>1. \A k \in DOMAIN pending : nextId + k - 1 \in Nat \ {0}
    BY <1>3, <1>4
  <2> QED BY <2>1, <1>3 DEF NewRecords, Records
<1>6. Typed'
  <2>1. staged' \in [insert : SUBSET Records, delete : SUBSET Records]
    <3>1. Removed(log \cup NewRecords) \subseteq Records
      <4>1. log \cup NewRecords \subseteq Records
        BY <1>1, <1>5 DEF Typed, TypeOK
      <4> QED BY <4>1, RemovedAreThere
    <3>2. \/ staged' = [insert |-> NewRecords, delete |-> Removed(log \cup NewRecords)]
          \/ staged' = [insert |-> NewRecords, delete |-> {}]
      BY DEF Write
    <3> HIDE DEF Records
    <3> QED BY <3>1, <3>2, <1>5
  <2>2. sincePrune' \in Nat /\ stale' \in BOOLEAN
    <3>1. CASE Due(Len(pending))
      BY <3>1, PruningIsTyped DEF Write
    <3>2. CASE ~Due(Len(pending))
      BY <3>2, <1>1, <1>3 DEF Write, Typed, TypeOK
    <3> QED BY <3>1, <3>2
  <2>3. tries' \in [RowIds -> Nat]
    BY <1>2, AttemptedRows
  <2>4. nextId' \in Nat \ {0}
    BY <1>2, <1>3, <1>4
  <2>5. /\ UNCHANGED <<expired, log, aged, keep, pruneDue, faults, settings>>
    BY DEF Write
  <2> HIDE DEF Records
  <2> QED BY <2>1, <2>2, <2>3, <2>4, <2>5, <1>1, <1>2 DEF Typed, TypeOK
<1>7. InOrder'
  BY <1>1, <1>2 DEF InOrder, Increasing, Last
<1>8. AttemptsAreCounted'
  <2>1. /\ \A i \in DOMAIN pending : tries'[pending[i]] <= attempts + 1
        /\ \A r \in RowIds : tries'[r] <= MaxAttempts
        /\ \A r \in RowIds :
              (\A i \in DOMAIN pending : pending[i] # r) => tries'[r] = tries[r]
    BY <1>2, AttemptedRows
  <2>2. \A r \in RowIds : r > Last' => tries'[r] = 0
    <3>1. Last' = Last
      BY <1>2 DEF Last
    <3>2. Last \in Int
      BY <1>1 DEF Last, Typed, TypeOK
    <3>3. \A r \in RowIds : r > Last => \A i \in DOMAIN pending : pending[i] # r
      BY <3>2, <1>1, <1>3 DEF InOrder, RowIds
    <3> QED BY <3>1, <3>3, <2>1, <1>1 DEF AttemptsAreCounted
  <2>3. \A j \in DOMAIN queue : tries'[queue[j]] = 0
    <3> TAKE j \in DOMAIN queue
    <3>1. queue[j] \in RowIds /\ tries[queue[j]] = 0
      BY <1>1, LenProperties, ElementOfSeq
      DEF AttemptsAreCounted, Typed, TypeOK
    <3>2. \A i \in DOMAIN pending : pending[i] # queue[j]
      BY <3>1, <1>1, <1>3 DEF InOrder, RowIds
    <3> QED BY <3>1, <3>2, <2>1
  <2> QED BY <2>1, <2>2, <2>3, <1>1, <1>2 DEF AttemptsAreCounted, Tried
<1>9. BatchIsStaged'
  <2>1. nextId' > Len(pending')
    BY <1>2, <1>3, <1>4
  <2>2. nextId' - Len(pending') = nextId
    BY <1>2, <1>3, <1>4
  <2>3. staged'.insert = {[id |-> nextId' - Len(pending') + k - 1,
                           row |-> pending'[k]] : k \in DOMAIN pending'}
    BY <2>2, <1>2 DEF NewRecords
  <2> QED BY <2>1, <2>3 DEF BatchIsStaged
<1>10. EachIsAccounted'
  BY <1>2 DEF Inductive, EachIsAccounted, Acknowledged
<1>11. StoppedIsQuiet'
  BY <1>2 DEF StoppedIsQuiet
<1> QED BY <1>6, <1>7, <1>8, <1>9, <1>10, <1>11 DEF Inductive

\* A batch that is given up leaves the order of the other rows as it is.
LEMMA OrderWithoutBatch ==
    ASSUME Typed, InOrder, pending' = <<>>, logged' = logged,
           UNCHANGED <<submitted, offering, queue>>
    PROVE  InOrder'
<1>1. DOMAIN pending' = {}
  BY EmptySeq
<1> QED BY <1>1 DEF InOrder, Increasing, Last

LEMMA WriteFailsKeeps == ASSUME Inductive, WriteFails PROVE Inductive'
<1> USE DEF memory, table, retention, counters, bounds
<1>1. Typed /\ InOrder /\ AttemptsAreCounted
  BY DEF Inductive
<1>2. PICK confirmed \in BOOLEAN :
         IF Spent(confirmed)
         THEN dropped' = dropped + Len(pending) /\ pending' = <<>>
         ELSE UNCHANGED <<dropped, pending>>
  BY DEF WriteFails
<1>3. /\ pc = "write" /\ pc' = "connect" /\ attempts' = attempts + 1
      /\ tries' = Attempted
      /\ UNCHANGED <<submitted, offering, queue, stop, logged, uncertain>>
  BY DEF WriteFails, Writer
<1>4. /\ pending \in Seq(RowIds) /\ Len(pending) \in Nat
      /\ DOMAIN pending = 1..Len(pending)
      /\ \A i \in DOMAIN pending : pending[i] \in RowIds
  BY <1>1, BatchIsTyped
<1>5. \/ dropped' = dropped + Len(pending) /\ pending' = <<>>
      \/ /\ dropped' = dropped /\ pending' = pending
         /\ ~(attempts' >= MaxAttempts)
  BY <1>2 DEF Spent
<1>6. /\ tries' \in [RowIds -> Nat]
      /\ \A i \in DOMAIN pending : tries'[pending[i]] <= attempts + 1
      /\ \A r \in RowIds : tries'[r] <= MaxAttempts
      /\ \A r \in RowIds :
            (\A i \in DOMAIN pending : pending[i] # r) => tries'[r] = tries[r]
      /\ attempts + 1 \in 0..MaxAttempts
  BY <1>3, AttemptedRows
<1>7. <<>> \in Seq(RowIds) /\ Len(<<>>) = 0
  BY EmptySeq
<1>8. Typed'
  <2>1. nextId' \in Nat \ {0} /\ sincePrune' \in Nat
    <3>1. PICK n \in {0, Len(pending)} :
             /\ sincePrune' = sincePrune + n
             /\ nextId' = nextId + IF IdGaps THEN n ELSE 0
      BY DEF WriteFails
    <3>2. n \in Nat
      <4>1. Len(pending) \in Nat
        BY <1>4
      <4>2. n = 0 \/ n = Len(pending)
        OBVIOUS
      <4> QED BY <4>1, <4>2
    <3> QED BY <3>1, <3>2, <1>1 DEF Typed, TypeOK
  <2>2. faults' \in 0..MaxFaults /\ settings' = settings
    BY <1>1, FaultIsTyped DEF WriteFails
  <2>3. pending' \in Seq(RowIds) /\ Len(pending') <= BatchLimit
        /\ dropped' \in Nat
    <3>1. dropped \in Nat /\ Len(pending) \in Nat /\ Len(pending) <= BatchLimit
      BY <1>1, <1>4 DEF Typed, TypeOK
    <3>2. CASE dropped' = dropped + Len(pending) /\ pending' = <<>>
      BY <3>1, <3>2, <1>7
    <3>3. CASE dropped' = dropped /\ pending' = pending
      BY <3>1, <3>3, <1>4
    <3> QED BY <3>2, <3>3, <1>5
  <2>4. UNCHANGED <<expired, staged, log, aged, keep, stale, pruneDue>>
    BY DEF WriteFails
  <2> HIDE DEF Records
  <2> QED BY <2>1, <2>2, <2>3, <2>4, <1>1, <1>3, <1>6 DEF Typed, TypeOK
<1>9. InOrder'
  <2>1. CASE pending' = <<>>
    BY <2>1, <1>1, <1>3, OrderWithoutBatch
  <2>2. CASE pending' = pending
    BY <2>2, <1>1, <1>3 DEF InOrder, Increasing, Last
  <2> QED BY <2>1, <2>2, <1>5
<1>10. AttemptsAreCounted'
  <2>1. \A r \in RowIds : r > Last' => tries'[r] = 0
    <3>1. Last' = Last
      BY <1>3 DEF Last
    <3>2. Last \in Int
      BY <1>1 DEF Last, Typed, TypeOK
    <3>3. \A r \in RowIds : r > Last => \A i \in DOMAIN pending : pending[i] # r
      BY <3>2, <1>1, <1>4 DEF InOrder, RowIds
    <3> QED BY <3>1, <3>3, <1>6, <1>1 DEF AttemptsAreCounted
  <2>2. \A j \in DOMAIN queue : tries'[queue[j]] = 0
    <3> TAKE j \in DOMAIN queue
    <3>1. queue[j] \in RowIds /\ tries[queue[j]] = 0
      BY <1>1, LenProperties, ElementOfSeq
      DEF AttemptsAreCounted, Typed, TypeOK
    <3>2. \A i \in DOMAIN pending : pending[i] # queue[j]
      BY <3>1, <1>1, <1>4 DEF InOrder, RowIds
    <3> QED BY <3>1, <3>2, <1>6
  <2>3. \A i \in DOMAIN pending' : tries'[pending'[i]] <= attempts'
    <3>1. CASE pending' = <<>>
      BY <3>1, EmptySeq
    <3>2. CASE pending' = pending
      BY <3>2, <1>3, <1>6
    <3> QED BY <3>1, <3>2, <1>5
  <2>4. pending' # <<>> => attempts' < MaxAttempts
    <3>1. attempts' \in 0..MaxAttempts
      BY <1>3, <1>6
    <3> QED BY <3>1, <1>5
  <2> QED BY <2>1, <2>2, <2>3, <2>4, <1>3, <1>6
          DEF AttemptsAreCounted, Tried
<1>11. BatchIsStaged' /\ StoppedIsQuiet'
  BY <1>3 DEF BatchIsStaged, StoppedIsQuiet
<1>12. EachIsAccounted'
  <2>1. submitted \in Nat /\ dropped \in Nat /\ uncertain \in Nat
        /\ Len(queue) \in Nat
    BY <1>1 DEF Typed, TypeOK
  <2>2. \/ dropped' = dropped + Len(pending) /\ Len(pending') = 0
        \/ dropped' = dropped /\ Len(pending') = Len(pending)
    BY <1>5, <1>7
  <2>3. UNCHANGED <<submitted, offering, queue, uncertain>>
    BY <1>3
  <2>4. Acknowledged' = Acknowledged
    BY <2>1, <2>2, <2>3, <1>4 DEF Acknowledged
  <2> QED BY <2>4, <1>3 DEF Inductive, EachIsAccounted
<1> QED BY <1>8, <1>9, <1>10, <1>11, <1>12 DEF Inductive

\* What a commit adds: every row of the batch once, and no row that is there.
LEMMA BatchIsNew ==
    ASSUME Inductive, pc = "commit"
    PROVE  /\ \A a \in staged.insert : \E k \in DOMAIN pending : a.row = pending[k]
           /\ \A a, b \in staged.insert : a.row = b.row => a = b
           /\ IsFiniteSet(logged \cup staged.insert)
           /\ Cardinality(logged \cup staged.insert)
                = Cardinality(logged) + Len(pending)
<1>1. Typed /\ InOrder
  BY DEF Inductive
<1>2. /\ pending \in Seq(RowIds) /\ Len(pending) \in Nat
      /\ DOMAIN pending = 1..Len(pending)
      /\ \A i \in DOMAIN pending : pending[i] \in RowIds
  BY <1>1, BatchIsTyped
<1>3. PICK base : base = nextId - Len(pending)
  OBVIOUS
<1>4. base \in Int
  BY <1>1, <1>2, <1>3 DEF Typed, TypeOK
<1>5. staged.insert = {[id |-> base + k - 1, row |-> pending[k]] :
                          k \in DOMAIN pending}
  BY <1>3 DEF Inductive, BatchIsStaged
<1>6. Increasing(pending)
  BY <1>1 DEF InOrder
<1>7. IsFiniteSet(staged.insert) /\ Cardinality(staged.insert) = Len(pending)
  BY <1>2, <1>4, <1>5, <1>6, BatchSize
<1>8. \A a \in staged.insert : \E k \in DOMAIN pending :
         a = [id |-> base + k - 1, row |-> pending[k]]
  BY <1>5
<1>9. \A a, b \in staged.insert : a.row = b.row => a = b
  <2> TAKE a, b \in staged.insert
  <2> HAVE a.row = b.row
  <2>1. PICK k \in DOMAIN pending : a = [id |-> base + k - 1, row |-> pending[k]]
    BY <1>8
  <2>2. PICK m \in DOMAIN pending : b = [id |-> base + m - 1, row |-> pending[m]]
    BY <1>8
  <2>3. pending[k] = pending[m]
    BY <2>1, <2>2
  <2>4. ~(k < m) /\ ~(m < k)
    BY <2>3, <1>2, <1>6 DEF Increasing, RowIds
  <2>5. k = m
    BY <2>4, <1>2
  <2> QED BY <2>1, <2>2, <2>5
<1>10. logged \cap staged.insert = {}
  <2> SUFFICES ASSUME NEW a \in logged, a \in staged.insert PROVE FALSE
    OBVIOUS
  <2>1. PICK k \in DOMAIN pending : a = [id |-> base + k - 1, row |-> pending[k]]
    BY <1>8
  <2>2. a.row = pending[k] /\ a.row < pending[k]
    BY <2>1, <1>1 DEF InOrder
  <2> QED BY <2>2, <1>2 DEF RowIds
<1>11. IsFiniteSet(logged)
  BY <1>1 DEF Typed
<1>12. /\ IsFiniteSet(logged \cup staged.insert)
       /\ Cardinality(logged \cup staged.insert)
            = Cardinality(logged) + Cardinality(staged.insert)
              - Cardinality(logged \cap staged.insert)
  BY <1>7, <1>11, FS_Union
<1>13. Cardinality(logged \cap staged.insert) = 0
  BY <1>10, FS_EmptySet
<1>14. Cardinality(logged) \in Nat
  BY <1>11, FS_CardinalityType
<1>15. Cardinality(logged \cup staged.insert) = Cardinality(logged) + Len(pending)
  BY <1>2, <1>7, <1>12, <1>13, <1>14
<1>16. \A a \in staged.insert : \E k \in DOMAIN pending : a.row = pending[k]
  BY <1>8
<1> QED BY <1>9, <1>12, <1>15, <1>16

\* A commit, acknowledged or not, with effect or without: the batch ends, and
\* its rows are in the table and counted as they were.
BatchEnds ==
    /\ pc = "commit" /\ pc' \in {"gather", "connect"}
    /\ pending' = <<>> /\ staged' = NothingStaged
    /\ attempts' \in {0, attempts + 1}
    /\ UNCHANGED <<submitted, offering, queue, stop, expired, retention, dropped,
                   tries>>
    /\ \/ log' = (log \cup staged.insert) \ staged.delete
       \/ log' = log
    /\ \/ logged' = logged \cup staged.insert
       \/ logged' = logged /\ uncertain' = uncertain + Len(pending)
    /\ nextId' \in {nextId, nextId - Len(pending)}
    /\ uncertain' \in {uncertain, uncertain + Len(pending)}
    /\ faults' \in 0..MaxFaults /\ settings' = settings

LEMMA CommitEnds ==
    ASSUME Inductive, Commit \/ CommitFails
    PROVE  BatchEnds
<1> USE DEF memory, table, retention, counters, bounds
<1>1. CASE Commit
  <2>1. faults' \in 0..MaxFaults /\ settings' = settings
    BY <1>1 DEF Commit, Inductive, Typed, TypeOK
  <2> QED BY <1>1, <2>1 DEF Commit, TakesEffect, Writer, BatchEnds
<1>2. CASE CommitFails
  <2>1. faults' \in 0..MaxFaults /\ settings' = settings
    BY <1>2, FaultIsTyped DEF CommitFails, Inductive
  <2>2. \/ TakesEffect /\ nextId' = nextId
        \/ /\ nextId' \in {nextId, nextId - Len(pending)}
           /\ log' = log /\ logged' = logged
    <3>1. nextId - 0 = nextId
      BY DEF Inductive, Typed, TypeOK
    <3> QED BY <1>2, <3>1 DEF CommitFails
  <2> QED BY <1>2, <2>1, <2>2 DEF CommitFails, TakesEffect, Writer, BatchEnds
<1> QED BY <1>1, <1>2

LEMMA BatchEndsKeeps == ASSUME Inductive, BatchEnds PROVE Inductive'
<1> USE DEF memory, table, retention, counters, bounds
<1>1. Typed /\ InOrder /\ AttemptsAreCounted
  BY DEF Inductive
<1>2. /\ pc = "commit" /\ pc' \in {"gather", "connect"}
      /\ pending' = <<>> /\ attempts' \in {0, attempts + 1}
      /\ UNCHANGED <<submitted, offering, queue, stop, dropped, tries>>
      /\ logged' \in {logged, logged \cup staged.insert}
  BY DEF BatchEnds
<1>3. /\ pending \in Seq(RowIds) /\ Len(pending) \in Nat
      /\ DOMAIN pending = 1..Len(pending)
      /\ \A i \in DOMAIN pending : pending[i] \in RowIds
  BY <1>1, BatchIsTyped
<1>4. <<>> \in Seq(RowIds) /\ Len(<<>>) = 0 /\ DOMAIN pending' = {}
  BY <1>2, EmptySeq
<1>5. /\ \A a \in staged.insert : \E k \in DOMAIN pending : a.row = pending[k]
      /\ \A a, b \in staged.insert : a.row = b.row => a = b
      /\ IsFiniteSet(logged \cup staged.insert)
      /\ Cardinality(logged \cup staged.insert)
           = Cardinality(logged) + Len(pending)
  BY <1>2, BatchIsNew
<1>6. Typed'
  <2>1. /\ log' \subseteq Records /\ logged' \subseteq Records
        /\ IsFiniteSet(logged')
    <3>1. log \subseteq Records /\ logged \subseteq Records
          /\ staged.insert \subseteq Records /\ IsFiniteSet(logged)
      BY <1>1 DEF Typed, TypeOK
    <3>2. log' \subseteq Records
      BY <3>1 DEF BatchEnds
    <3>3. logged' \subseteq Records /\ IsFiniteSet(logged')
      BY <3>1, <1>2, <1>5
    <3> QED BY <3>2, <3>3
  <2>2. attempts' \in 0..MaxAttempts
    <3>1. attempts \in 0..MaxAttempts /\ attempts < MaxAttempts
      BY <1>1, <1>2 DEF Typed, TypeOK, AttemptsAreCounted
    <3> QED BY <3>1, <1>2
  <2>3. nextId' \in Nat \ {0}
    <3>1. nextId \in Nat \ {0} /\ nextId > Len(pending)
      BY <1>1, <1>2 DEF Inductive, BatchIsStaged, Typed, TypeOK
    <3>2. nextId' = nextId \/ nextId' = nextId - Len(pending)
      BY DEF BatchEnds
    <3>3. Len(pending) \in Nat
      BY <1>3
    <3> QED BY <3>1, <3>2, <3>3
  <2>4. uncertain' \in Nat
    <3>1. uncertain' = uncertain \/ uncertain' = uncertain + Len(pending)
      BY DEF BatchEnds
    <3>2. uncertain \in Nat /\ Len(pending) \in Nat
      BY <1>1, <1>3 DEF Typed, TypeOK
    <3> QED BY <3>1, <3>2
  <2>5. staged' \in [insert : SUBSET Records, delete : SUBSET Records]
    BY DEF BatchEnds, NothingStaged
  <2>6. /\ faults' \in 0..MaxFaults /\ settings' = settings
        /\ UNCHANGED <<expired, aged, keep, sincePrune, stale, pruneDue>>
    BY DEF BatchEnds
  <2>7. pending' \in Seq(RowIds) /\ Len(pending') <= BatchLimit
    BY <1>2, <1>4
  <2> HIDE DEF Records
  <2> QED BY <2>1, <2>2, <2>3, <2>4, <2>5, <2>6, <2>7, <1>1, <1>2
          DEF Typed, TypeOK
<1>7. Last' = Last
  BY <1>2 DEF Last
<1>8. InOrder'
  <2>1. \A a \in logged' : a.row <= Last /\ \A j \in DOMAIN queue : a.row < queue[j]
    <3> TAKE a \in logged'
    <3>1. CASE a \in logged
      BY <3>1, <1>1 DEF InOrder
    <3>2. CASE a \in staged.insert
      <4>1. PICK k \in DOMAIN pending : a.row = pending[k]
        BY <3>2, <1>5
      <4> QED BY <4>1, <1>1 DEF InOrder
    <3> QED BY <3>1, <3>2, <1>2
  <2>2. \A a, b \in logged' : a.row = b.row => a = b
    <3> TAKE a, b \in logged'
    <3> HAVE a.row = b.row
    <3>1. \A c \in logged, d \in staged.insert : c.row # d.row
      <4> TAKE c \in logged, d \in staged.insert
      <4>1. PICK k \in DOMAIN pending : d.row = pending[k]
        BY <1>5
      <4>2. c.row < pending[k]
        BY <1>1 DEF InOrder
      <4> QED BY <4>1, <4>2, <1>3 DEF RowIds
    <3>2. \A c, d \in logged : c.row = d.row => c = d
      BY <1>1 DEF InOrder
    <3> QED BY <3>1, <3>2, <1>2, <1>5
  <2> QED BY <2>1, <2>2, <1>1, <1>2, <1>4, <1>7 DEF InOrder, Increasing
<1>9. AttemptsAreCounted'
  <2>1. pc' \notin {"write", "commit"}
    BY <1>2
  <2> QED BY <2>1, <1>1, <1>2, <1>4, <1>7 DEF AttemptsAreCounted
<1>10. BatchIsStaged' /\ StoppedIsQuiet'
  BY <1>2 DEF BatchIsStaged, StoppedIsQuiet
<1>11. EachIsAccounted'
  <2>1. /\ submitted \in Nat /\ dropped \in Nat /\ uncertain \in Nat
        /\ Len(queue) \in Nat /\ Len(pending) \in Nat /\ Len(pending') = 0
    BY <1>1, <1>2, <1>3, <1>4 DEF Typed, TypeOK
  <2>2. UNCHANGED <<submitted, offering, queue, dropped>>
    BY <1>2
  <2>3. Cardinality(logged) \in Nat
    BY <1>1, FS_CardinalityType DEF Typed
  <2>4. Acknowledged \in Int
    BY <2>1 DEF Acknowledged
  <2>5. \/ uncertain' = uncertain /\ Acknowledged' = Acknowledged + Len(pending)
        \/ /\ uncertain' = uncertain + Len(pending)
           /\ Acknowledged' = Acknowledged
    <3>1. uncertain' = uncertain \/ uncertain' = uncertain + Len(pending)
      BY DEF BatchEnds
    <3> QED BY <3>1, <2>1, <2>2 DEF Acknowledged
  <2>6. \/ Cardinality(logged') = Cardinality(logged) + Len(pending)
        \/ /\ Cardinality(logged') = Cardinality(logged)
           /\ uncertain' = uncertain + Len(pending)
    BY <1>5 DEF BatchEnds
  <2>7. /\ Acknowledged >= 0 /\ Acknowledged <= Cardinality(logged)
        /\ Cardinality(logged) <= Acknowledged + uncertain
    BY DEF Inductive, EachIsAccounted
  <2>8. \/ /\ uncertain' = uncertain /\ Acknowledged' = Acknowledged + Len(pending)
           /\ Cardinality(logged') = Cardinality(logged) + Len(pending)
        \/ /\ uncertain' = uncertain + Len(pending)
           /\ Acknowledged' = Acknowledged
           /\ Cardinality(logged')
                \in {Cardinality(logged), Cardinality(logged) + Len(pending)}
    BY <2>1, <2>4, <2>5, <2>6
  <2>9. /\ Acknowledged' >= 0 /\ Acknowledged' <= Cardinality(logged')
        /\ Cardinality(logged') <= Acknowledged' + uncertain'
    BY <2>1, <2>3, <2>4, <2>7, <2>8
  <2> QED BY <2>9 DEF EachIsAccounted
<1> QED BY <1>6, <1>8, <1>9, <1>10, <1>11 DEF Inductive

-----------------------------------------------------------------------------
(* The theorems.                                                           *)

LEMMA InitInductive == Init => Inductive
<1> SUFFICES ASSUME Init PROVE Inductive
  OBVIOUS
<1>1. Typed
  BY InitTyped
<1>2. /\ queue = <<>> /\ pending = <<>> /\ logged = {} /\ offering = 0
      /\ submitted = 0 /\ dropped = 0 /\ uncertain = 0 /\ attempts = 0
      /\ pc = "connect" /\ tries = [r \in RowIds |-> 0]
  BY DEF Init
<1>3. /\ Len(queue) = 0 /\ Len(pending) = 0 /\ DOMAIN queue = {}
      /\ DOMAIN pending = {}
  BY <1>2, EmptySeq
<1>4. InOrder
  BY <1>2, <1>3 DEF InOrder, Increasing
<1>5. AttemptsAreCounted
  BY <1>2, <1>3 DEF AttemptsAreCounted
<1>6. BatchIsStaged /\ StoppedIsQuiet
  BY <1>2 DEF BatchIsStaged, StoppedIsQuiet
<1>7. EachIsAccounted
  <2>1. Cardinality(logged) = 0
    BY <1>2, FS_EmptySet
  <2>2. Acknowledged = 0
    <3>1. /\ submitted = 0 /\ dropped = 0 /\ uncertain = 0 /\ offering = 0
          /\ Len(queue) = 0 /\ Len(pending) = 0
      BY <1>2, <1>3
    <3> QED BY <3>1 DEF Acknowledged
  <2> QED BY <2>1, <2>2, <1>2 DEF EachIsAccounted
<1> QED BY <1>1, <1>4, <1>5, <1>6, <1>7 DEF Inductive

LEMMA NextInductive == Inductive /\ [Next]_vars => Inductive'
<1> SUFFICES ASSUME Inductive, [Next]_vars PROVE Inductive'
  OBVIOUS
<1>1. CASE UNCHANGED vars
  <2>1. /\ UNCHANGED memory /\ UNCHANGED table /\ UNCHANGED retention
        /\ UNCHANGED counters /\ UNCHANGED tries /\ UNCHANGED bounds
    BY <1>1 DEF vars
  <2>2. QuietStep
    BY <2>1 DEF memory, table, counters, QuietStep
  <2>3. Typed'
    BY <2>1 DEF memory, table, retention, counters, bounds, Inductive, Typed,
       TypeOK
  <2> QED BY <2>2, <2>3, QuietKeeps DEF Inductive
<1>2. CASE Quiet
  <2>1. QuietStep /\ Typed'
    BY <1>2, QuietIsQuiet DEF Inductive
  <2> QED BY <2>1, QuietKeeps DEF Inductive
<1>3. CASE Submit
  BY <1>3, SubmitKeeps
<1>4. CASE Put
  BY <1>4, PutKeeps
<1>5. CASE Finish
  BY <1>5, FinishKeeps
<1>6. CASE Gather
  BY <1>6, GatherKeeps
<1>7. CASE Write
  BY <1>7, WriteKeeps
<1>8. CASE WriteFails
  BY <1>8, WriteFailsKeeps
<1>9. CASE Commit \/ CommitFails
  BY <1>9, CommitEnds, BatchEndsKeeps
<1> QED BY <1>1, <1>2, <1>3, <1>4, <1>5, <1>6, <1>7, <1>8, <1>9
        DEF Next, WriterStep, Failure, Environment, Quiet

\* The invariant holds throughout: the rows keep the order of submission, and
\* each is tried, staged and counted with its batch.
THEOREM Invariance == Spec => []Inductive
<1>1. Init => Inductive
  BY InitInductive
<1>2. Inductive /\ [Next]_vars => Inductive'
  BY NextInductive
<1> QED BY <1>1, <1>2, PTL DEF Spec

\* Queue, batch, counters and table keep their types and their limits.
THEOREM TypeCorrect == Spec => []TypeOK
<1>1. Inductive => TypeOK
  BY DEF Inductive, Typed
<1> QED BY <1>1, Invariance, PTL

\* No row is committed twice, or waits again after it was, or is tried more
\* often than MaxAttempts, whatever fails and with whatever a batch is topped up.
THEOREM NoneIsReplayed == Spec => []LoggedOnce
<1>1. Inductive => LoggedOnce
  <2> SUFFICES ASSUME Inductive PROVE LoggedOnce
    OBVIOUS
  <2>1. \A r \in RowIds : tries[r] <= MaxAttempts
    BY DEF Inductive, AttemptsAreCounted
  <2>2. \A a, b \in logged : a.row = b.row => a = b
    BY DEF Inductive, InOrder
  <2>3. \A a \in logged : a.row \notin Elements(queue) \cup Elements(pending)
    <3> TAKE a \in logged
    <3>1. a.row \in Int
      BY DEF Inductive, Typed, TypeOK, Records, RowIds
    <3>2. /\ \A i \in DOMAIN pending : a.row < pending[i]
          /\ \A j \in DOMAIN queue : a.row < queue[j]
      BY DEF Inductive, InOrder
    <3>3. \A i \in DOMAIN pending : a.row # pending[i]
      BY <3>1, <3>2
    <3>4. \A j \in DOMAIN queue : a.row # queue[j]
      BY <3>1, <3>2
    <3> QED BY <3>3, <3>4 DEF Elements
  <2> QED BY <2>1, <2>2, <2>3 DEF LoggedOnce
<1> QED BY <1>1, Invariance, PTL

\* Every submitted row is waiting, counted as dropped or uncertain, or
\* committed, also while the writer stops and a submission is under way.
THEOREM NothingIsLostUncounted == Spec => []Conservation
<1>1. Inductive => Conservation
  BY DEF Inductive, EachIsAccounted, Acknowledged, StoppedIsQuiet, Conservation
<1> QED BY <1>1, Invariance, PTL

-----------------------------------------------------------------------------
(* Retention, where a rolled back insert does not use up ids.              *)

\* Records whose ids follow their rows and have no gaps up to `next`.
Gapless(records, next) ==
    /\ records \subseteq Records
    /\ \A a \in records : a.id < next
    /\ \A a, b \in records : /\ a.id < b.id <=> a.row < b.row
                             /\ a.id = b.id => a = b
    /\ \A a \in records, i \in Nat :
          a.id <= i /\ i < next => \E b \in records : b.id = i

Lowermost(some, records) ==
    \A a \in records, b \in some : a.id < b.id => a \in some

\* The id of the first row of the batch, or of the next one.
FirstFree == IF pc = "commit" THEN nextId - Len(pending) ELSE nextId

\* What is removed, or is about to be, is the lower end of the table.
TableHasNoGaps ==
    /\ log \subseteq logged
    /\ Gapless(log, FirstFree)
    /\ pc # "commit" => staged = NothingStaged
    /\ Lowermost(staged.delete, log \cup staged.insert)

LEMMA GaplessWithoutLowermost ==
    ASSUME NEW records, NEW next \in Nat, NEW some,
           Gapless(records, next), Lowermost(some, records)
    PROVE  Gapless(records \ some, next)
<1>1. ASSUME NEW a \in records \ some, NEW i \in Nat, a.id <= i, i < next
      PROVE  \E b \in records \ some : b.id = i
  <2>1. PICK b \in records : b.id = i
    BY <1>1 DEF Gapless
  <2>2. a \in Records /\ b \in Records /\ (a.id = b.id => a = b)
    BY <2>1 DEF Gapless
  <2>3. b \in some => ~(a.id < b.id)
    BY DEF Lowermost
  <2>4. a.id \in Nat /\ (b \in some => a.id = b.id)
    BY <1>1, <2>1, <2>2, <2>3 DEF Records
  <2> QED BY <2>1, <2>2, <2>4
<1> QED BY <1>1 DEF Gapless

\* A batch goes on where the table ends.
LEMMA GaplessWithBatch ==
    ASSUME NEW records, NEW base \in Nat \ {0}, NEW s \in Seq(RowIds), Increasing(s),
           Gapless(records, base),
           \A a \in records : \A k \in DOMAIN s : a.row < s[k]
    PROVE  Gapless(records \cup {[id |-> base + k - 1, row |-> s[k]] : k \in DOMAIN s},
                   base + Len(s))
<1> DEFINE batch == {[id |-> base + k - 1, row |-> s[k]] : k \in DOMAIN s}
           all == records \cup batch
<1>1. /\ Len(s) \in Nat /\ DOMAIN s = 1..Len(s)
      /\ \A k \in 1..Len(s) : s[k] \in RowIds /\ s[k] \in Nat
  BY LenProperties, ElementOfSeq DEF RowIds
<1>2. \A b \in batch : \E k \in 1..Len(s) : b = [id |-> base + k - 1, row |-> s[k]]
                                             /\ b.id = base + k - 1 /\ b.row = s[k]
  BY <1>1
<1>3. \A k \in 1..Len(s) : \E b \in batch : b.id = base + k - 1 /\ b.row = s[k]
  <2> TAKE k \in 1..Len(s)
  <2> DEFINE b == [id |-> base + k - 1, row |-> s[k]]
  <2>1. b \in batch /\ b.id = base + k - 1 /\ b.row = s[k]
    BY <1>1
  <2> HIDE DEF b, batch
  <2> QED BY <2>1
<1>4. batch \subseteq Records
  BY <1>1 DEF Records
<1> HIDE DEF batch
<1>5. /\ records \subseteq Records /\ all \subseteq Records
      /\ \A a \in all : a.id \in Nat /\ a.row \in Nat
  BY <1>4 DEF Gapless, Records, RowIds
<1>6. \A a \in records : a.id < base
  BY DEF Gapless
<1>7. \A a \in records, b \in batch : a.id < b.id /\ a.row < b.row
  <2> TAKE a \in records, b \in batch
  <2>1. PICK k \in 1..Len(s) : b.id = base + k - 1 /\ b.row = s[k]
    BY <1>2
  <2> QED BY <2>1, <1>1, <1>5, <1>6
<1>8. \A a, b \in batch : (a.id < b.id <=> a.row < b.row) /\ (a.id = b.id => a = b)
  <2> TAKE a, b \in batch
  <2>1. PICK k \in 1..Len(s) : a = [id |-> base + k - 1, row |-> s[k]]
                                /\ a.id = base + k - 1 /\ a.row = s[k]
    BY <1>2
  <2>2. PICK l \in 1..Len(s) : b = [id |-> base + l - 1, row |-> s[l]]
                                /\ b.id = base + l - 1 /\ b.row = s[l]
    BY <1>2
  <2>3. (k < l => s[k] < s[l]) /\ (l < k => s[l] < s[k]) /\ (k = l => s[k] = s[l])
    BY <1>1 DEF Increasing
  <2>4. s[k] \in Nat /\ s[l] \in Nat
    BY <1>1
  <2> QED BY <2>1, <2>2, <2>3, <2>4
<1>9. \A a \in all : a.id < base + Len(s)
  <2> TAKE a \in all
  <2>1. CASE a \in records
    BY <2>1, <1>1, <1>5, <1>6
  <2>2. CASE a \in batch
    BY <2>2, <1>1, <1>2
  <2> QED BY <2>1, <2>2
<1>10. \A a, b \in all : (a.id < b.id <=> a.row < b.row) /\ (a.id = b.id => a = b)
  <2> TAKE a, b \in all
  <2>1. CASE a \in records /\ b \in records
    BY <2>1 DEF Gapless
  <2>2. CASE a \in batch /\ b \in batch
    BY <2>2, <1>8
  <2>3. CASE a \in records /\ b \in batch
    BY <2>3, <1>5, <1>7
  <2>4. CASE a \in batch /\ b \in records
    BY <2>4, <1>5, <1>7
  <2> QED BY <2>1, <2>2, <2>3, <2>4
<1>11. ASSUME NEW a \in all, NEW i \in Nat, a.id <= i, i < base + Len(s)
       PROVE  \E b \in all : b.id = i
  <2>1. CASE i < base
    <3>1. a \in records
      BY <2>1, <1>1, <1>2, <1>11
    <3> QED BY <3>1, <2>1, <1>11 DEF Gapless
  <2>2. CASE i >= base
    <3>1. i - base + 1 \in 1..Len(s)
      BY <2>2, <1>1, <1>11
    <3>2. PICK b \in batch : b.id = base + (i - base + 1) - 1
      BY <3>1, <1>3
    <3> QED BY <3>2
  <2> QED BY <2>1, <2>2
<1> QED BY <1>5, <1>9, <1>10, <1>11 DEF Gapless, batch

\* Both chunks are taken from the lower end, and the second leaves max_rows.
LEMMA RemovedAreLowermost ==
    ASSUME NEW records, NEW next \in Nat, Gapless(records, next), IsFiniteSet(records),
           aged \in Nat, keep \in Nat \ {0}
    PROVE  /\ Lowermost(ByAge(records), records)
           /\ Lowermost(Removed(records), records)
           /\ \A r \in ByCount(records) : /\ r \in records \ ByAge(records)
                                          /\ r.id <= next - 1 - keep
<1>0. \A a \in records : a.id \in Nat /\ a.row \in Nat
  BY DEF Gapless, Records, RowIds
<1>1. Lowermost(ByAge(records), records)
  <2> SUFFICES ASSUME NEW a \in records, NEW b \in ByAge(records), a.id < b.id
               PROVE  a \in ByAge(records)
    BY DEF Lowermost
  <2> DEFINE Before(r) == {s \in TooOld(records) : s.row < r.row}
  <2>1. b \in records /\ b.row <= aged /\ Cardinality(Before(b)) < PruneChunk
    BY DEF ByAge, Oldest, TooOld
  <2>2. a.row < b.row
    BY <2>1 DEF Gapless
  <2>3. a \in TooOld(records)
    BY <2>1, <2>2, <1>0 DEF TooOld
  <2>4. Before(a) \subseteq Before(b)
    BY <2>1, <2>2, <1>0 DEF TooOld
  <2>5. Before(b) \subseteq records
    BY DEF TooOld
  <2> HIDE DEF Before
  <2>6. IsFiniteSet(Before(b))
    BY <2>5, FS_Subset
  <2>7. IsFiniteSet(Before(a)) /\ Cardinality(Before(a)) <= Cardinality(Before(b))
    BY <2>4, <2>6, FS_Subset
  <2>8. Cardinality(Before(a)) \in Nat /\ Cardinality(Before(b)) \in Nat
    BY <2>6, <2>7, FS_CardinalityType
  <2>9. Cardinality(Before(a)) < PruneChunk
    BY <2>1, <2>7, <2>8
  <2> QED BY <2>3, <2>9 DEF ByAge, Oldest, Before
<1> DEFINE left == records \ ByAge(records)
           newest == CHOOSE r \in left : \A s \in left : s.id <= r.id
<1>2. ASSUME left # {}
      PROVE  newest \in left /\ newest.id = next - 1
  <2>1. PICK a \in left : TRUE
    BY <1>2
  <2>2. a.id <= next - 1 /\ next - 1 \in Nat
    BY <1>0 DEF Gapless
  <2>3. Gapless(left, next)
    BY <1>1, GaplessWithoutLowermost
  <2> HIDE DEF left
  <2>4. \E b \in left : b.id = next - 1
    BY <2>1, <2>2, <2>3 DEF Gapless
  <2>5. \A s \in left : s.id <= next - 1 /\ s.id \in Nat
    BY <2>3 DEF Gapless, Records
  <2>6. \E r \in left : \A s \in left : s.id <= r.id
    BY <2>4, <2>5
  <2>7. newest \in left /\ \A s \in left : s.id <= newest.id
    BY <2>6
  <2> QED BY <2>2, <2>4, <2>5, <2>7
<1>3. Excess(left) = {r \in left : r.id <= newest.id - keep}
  BY DEF Excess
<1> HIDE DEF newest
<1>4. \A r \in ByCount(records) : r \in left /\ r.id <= next - 1 - keep
  <2>1. ByCount(records) \subseteq Excess(left)
    BY DEF ByCount, Lowest
  <2> HIDE DEF left
  <2> QED BY <2>1, <1>2, <1>3
<1>5. ASSUME NEW a \in left, NEW b \in ByCount(records), a.id < b.id
      PROVE  a \in ByCount(records)
  <2> DEFINE Before(r) == {s \in Excess(left) : s.id < r.id}
  <2>1. b \in Excess(left) /\ Cardinality(Before(b)) < PruneChunk
    BY DEF ByCount, Lowest
  <2>2. b \in left /\ newest.id = next - 1 /\ b.id <= next - 1 - keep
    BY <2>1, <1>2, <1>3
  <2>3. a.id \in Nat /\ b.id \in Nat /\ a \in Excess(left)
    <3>1. a.id \in Nat /\ b.id \in Nat
      BY <2>2, <1>0
    <3>2. a.id <= newest.id - keep
      BY <2>2, <3>1, <1>5
    <3> HIDE DEF left
    <3> QED BY <3>1, <3>2, <1>3
  <2>4. Before(a) \subseteq Before(b)
    <3>1. \A s \in Excess(left) : s.id \in Nat
      BY <1>0, <1>3
    <3> HIDE DEF left
    <3> QED BY <3>1, <2>3, <1>5
  <2>5. Before(b) \subseteq records
    BY <1>3
  <2> HIDE DEF Before
  <2>6. IsFiniteSet(Before(b))
    BY <2>5, FS_Subset
  <2>7. IsFiniteSet(Before(a)) /\ Cardinality(Before(a)) <= Cardinality(Before(b))
    BY <2>4, <2>6, FS_Subset
  <2>8. Cardinality(Before(a)) \in Nat /\ Cardinality(Before(b)) \in Nat
    BY <2>6, <2>7, FS_CardinalityType
  <2>9. Cardinality(Before(a)) < PruneChunk
    BY <2>1, <2>7, <2>8
  <2> QED BY <2>3, <2>9 DEF ByCount, Lowest, Before
<1>6. Lowermost(Removed(records), records)
  <2> SUFFICES ASSUME NEW a \in records, NEW b \in Removed(records), a.id < b.id
               PROVE  a \in Removed(records)
    BY DEF Lowermost
  <2>1. CASE b \in ByAge(records)
    BY <2>1, <1>1 DEF Lowermost, Removed
  <2>2. CASE b \in ByCount(records)
    BY <2>2, <1>5 DEF Removed
  <2> QED BY <2>1, <2>2 DEF Removed
<1> QED BY <1>1, <1>4, <1>6

\* What is pruned by count leaves the max_rows newest.
LEMMA PruningLeavesEnough ==
    ASSUME NEW records, NEW next \in Nat, Gapless(records, next), IsFiniteSet(records),
           aged \in Nat, keep \in Nat \ {0}
    PROVE  LeavesEnough(Removed(records), records \ Removed(records))
<1> SUFFICES ASSUME NEW r \in Removed(records), ~(r.row <= aged)
             PROVE  Cardinality({s \in records \ Removed(records) : s.id > r.id}) >= keep
  BY DEF LeavesEnough
<1> DEFINE newer == {s \in records \ Removed(records) : s.id > r.id}
           places == (next - keep)..(next - 1)
           f == [s \in newer |-> s.id]
           ids == {s.id : s \in newer}
<1>1. r \notin ByAge(records) /\ r \in ByCount(records)
  BY DEF Removed, ByAge, Oldest, TooOld
<1>2. /\ r \in records /\ r.id <= next - 1 - keep
      /\ Lowermost(ByAge(records), records) /\ Lowermost(Removed(records), records)
      /\ \A s \in ByCount(records) : s.id <= next - 1 - keep
  BY <1>1, RemovedAreLowermost
<1>3. \A a \in records : a.id \in Nat
  BY DEF Gapless, Records
<1>4. \A i \in places : \E s \in newer : s.id = i
  <2> TAKE i \in places
  <2>1. i \in Nat /\ r.id <= i /\ i < next /\ i > r.id /\ i > next - 1 - keep
    BY <1>2, <1>3
  <2>2. PICK s \in records : s.id = i
    BY <2>1, <1>2 DEF Gapless
  <2>3. s \notin ByCount(records)
    BY <1>2, <2>1, <2>2
  <2>4. s \notin ByAge(records)
    BY <1>1, <1>2, <2>1, <2>2 DEF Lowermost
  <2> QED BY <2>1, <2>2, <2>3, <2>4 DEF Removed
<1>5. places \subseteq ids
  BY <1>4
<1>6. IsFiniteSet(newer)
  <2>1. newer \subseteq records
    OBVIOUS
  <2> HIDE DEF newer
  <2> QED BY <2>1, FS_Subset
<1>7. f \in Surjection(newer, ids)
  BY DEF Surjection
<1> HIDE DEF f, ids, newer
<1>8. IsFiniteSet(ids) /\ Cardinality(ids) <= Cardinality(newer)
  BY <1>6, <1>7, FS_Surjection
<1>9. Cardinality(places) = keep
  <2>1. Cardinality(places) = IF next - keep > next - 1 THEN 0
                              ELSE (next - 1) - (next - keep) + 1
    BY FS_Interval
  <2> QED BY <2>1
<1>10. Cardinality(places) <= Cardinality(ids)
  <2> HIDE DEF places
  <2> QED BY <1>5, <1>8, FS_Subset
<1>11. Cardinality(ids) \in Nat /\ Cardinality(newer) \in Nat
  BY <1>6, <1>8, FS_CardinalityType
<1>12. Cardinality(newer) >= keep
  <2> HIDE DEF places
  <2> QED BY <1>8, <1>9, <1>10, <1>11
<1> QED BY <1>12 DEF newer

LEMMA InitHasNoGaps == Init => TableHasNoGaps
<1> SUFFICES ASSUME Init PROVE TableHasNoGaps
  OBVIOUS
<1>1. log = {} /\ logged = {} /\ pc # "commit" /\ staged = NothingStaged
      /\ staged.delete = {} /\ staged.insert = {}
  BY DEF Init, NothingStaged
<1> QED BY <1>1 DEF TableHasNoGaps, Gapless, Lowermost

LEMMA TableIsTyped ==
    ASSUME Inductive, TableHasNoGaps
    PROVE  /\ nextId \in Nat \ {0} /\ Len(pending) \in Nat /\ aged \in Nat
           /\ keep \in Nat \ {0} /\ FirstFree \in Nat \ {0} /\ IsFiniteSet(log)
           /\ Increasing(pending) /\ pending \in Seq(RowIds)
           /\ \A a \in log : \A k \in DOMAIN pending : a.row < pending[k]
<1>1. /\ nextId \in Nat \ {0} /\ Len(pending) \in Nat /\ aged \in Nat
      /\ keep \in Nat \ {0} /\ pending \in Seq(RowIds) /\ IsFiniteSet(logged)
  BY DEF Inductive, Typed, TypeOK
<1>2. FirstFree \in Nat \ {0}
  BY <1>1 DEF FirstFree, Inductive, BatchIsStaged
<1>3. IsFiniteSet(log)
  BY <1>1, FS_Subset DEF TableHasNoGaps
<1> QED BY <1>1, <1>2, <1>3 DEF Inductive, InOrder, TableHasNoGaps

\* Before the transaction of a batch, and with its rows.
LEMMA TableWithBatch ==
    ASSUME Inductive, TableHasNoGaps
    PROVE  /\ pc = "write" => /\ Gapless(log \cup NewRecords, nextId + Len(pending))
                              /\ IsFiniteSet(log \cup NewRecords)
           /\ pc = "commit" => Gapless(log \cup staged.insert, nextId)
<1>1. ASSUME NEW base \in Nat \ {0}, base = FirstFree
      PROVE  Gapless(log \cup {[id |-> base + k - 1, row |-> pending[k]] :
                                   k \in DOMAIN pending}, base + Len(pending))
  <2>1. Gapless(log, base)
    BY <1>1 DEF TableHasNoGaps
  <2> QED BY <2>1, TableIsTyped, GaplessWithBatch
<1>2. ASSUME pc = "write"
      PROVE  /\ Gapless(log \cup NewRecords, nextId + Len(pending))
             /\ IsFiniteSet(log \cup NewRecords)
  <2>1. FirstFree = nextId
    BY <1>2 DEF FirstFree
  <2>2. Gapless(log \cup NewRecords, nextId + Len(pending))
    BY <1>1, <2>1, TableIsTyped DEF NewRecords
  <2>3. IsFiniteSet(NewRecords)
    BY TableIsTyped, BatchSize DEF NewRecords
  <2> QED BY <2>2, <2>3, TableIsTyped, FS_Union
<1>3. ASSUME pc = "commit"
      PROVE  Gapless(log \cup staged.insert, nextId)
  <2>1. FirstFree = nextId - Len(pending) /\ FirstFree + Len(pending) = nextId
    BY <1>3, TableIsTyped DEF FirstFree
  <2>2. staged.insert = {[id |-> FirstFree + k - 1, row |-> pending[k]] :
                            k \in DOMAIN pending}
    BY <1>3, <2>1 DEF Inductive, BatchIsStaged
  <2> QED BY <1>1, <2>1, <2>2, TableIsTyped
<1> QED BY <1>2, <1>3

\* A pruning outside of the transaction of a batch.
LEMMA PruningKeepsNoGaps ==
    ASSUME Inductive, TableHasNoGaps, log' \in {log, log \ Removed(log)},
           UNCHANGED <<pending, staged, nextId, logged>>, pc' = "commit" <=> pc = "commit"
    PROVE  /\ TableHasNoGaps'
           /\ LeavesEnough(log \ log', log')
<1>1. FirstFree' = FirstFree
  BY DEF FirstFree
<1>2. CASE log' = log
  <2>1. TableHasNoGaps'
    BY <1>1, <1>2 DEF TableHasNoGaps
  <2>2. log \ log' = {}
    BY <1>2
  <2> QED BY <2>1, <2>2 DEF LeavesEnough
<1>3. CASE log' = log \ Removed(log)
  <2>1. Gapless(log, FirstFree)
    BY DEF TableHasNoGaps
  <2>2. Lowermost(Removed(log), log) /\ LeavesEnough(Removed(log), log \ Removed(log))
    BY <2>1, TableIsTyped, RemovedAreLowermost, PruningLeavesEnough
  <2>3. Gapless(log', FirstFree)
    BY <1>3, <2>1, <2>2, TableIsTyped, GaplessWithoutLowermost
  <2>4. log' \subseteq log /\ log \ log' = Removed(log)
    BY <1>3, RemovedAreThere
  <2>5. Lowermost(staged'.delete, log' \cup staged'.insert)
    BY <2>4 DEF TableHasNoGaps, Lowermost
  <2>6. TableHasNoGaps'
    BY <1>1, <2>3, <2>4, <2>5 DEF TableHasNoGaps
  <2> QED BY <1>3, <2>2, <2>4, <2>6
<1> QED BY <1>2, <1>3

LEMMA WriteKeepsNoGaps ==
    ASSUME Inductive, TableHasNoGaps, Write
    PROVE  /\ TableHasNoGaps'
           /\ LeavesEnough(staged'.delete, (log \cup staged'.insert) \ staged'.delete)
<1> DEFINE after == log \cup NewRecords
<1>1. /\ pc = "write" /\ pc' = "commit" /\ nextId' = nextId + Len(pending)
      /\ staged'.insert = NewRecords /\ staged'.delete \in {{}, Removed(after)}
      /\ UNCHANGED <<log, logged, pending>>
  BY DEF Write, Writer
<1>2. Gapless(after, nextId + Len(pending)) /\ IsFiniteSet(after)
      /\ nextId + Len(pending) \in Nat /\ aged \in Nat /\ keep \in Nat \ {0}
  BY <1>1, TableWithBatch, TableIsTyped
<1> HIDE DEF after
<1>3. /\ Lowermost(Removed(after), after)
      /\ LeavesEnough(Removed(after), after \ Removed(after))
  BY <1>2, RemovedAreLowermost, PruningLeavesEnough
<1>4. Lowermost({}, after) /\ LeavesEnough({}, after)
  BY DEF Lowermost, LeavesEnough
<1>5. /\ Lowermost(staged'.delete, after)
      /\ LeavesEnough(staged'.delete, after \ staged'.delete)
  BY <1>1, <1>3, <1>4 DEF LeavesEnough
<1>6. FirstFree' = FirstFree
  BY <1>1, TableIsTyped DEF FirstFree
<1>7. TableHasNoGaps'
  BY <1>1, <1>5, <1>6 DEF TableHasNoGaps, after
<1> QED BY <1>1, <1>5, <1>7 DEF after

\* Without gaps, ids that a commit has not used are used again.
LEMMA CommitsKeepNoGaps ==
    ASSUME ~IdGaps, Inductive, TableHasNoGaps, Commit \/ CommitFails
    PROVE  TableHasNoGaps'
<1>1. pc = "commit" /\ pc' # "commit" /\ staged' = NothingStaged
  BY DEF Commit, CommitFails, Writer
<1>2. FirstFree' = nextId' /\ FirstFree = nextId - Len(pending)
  BY <1>1 DEF FirstFree
<1>3. Lowermost(staged'.delete, log' \cup staged'.insert)
  BY <1>1 DEF NothingStaged, Lowermost
<1>4. CASE TakesEffect /\ nextId' = nextId
  <2>1. Gapless(log \cup staged.insert, nextId)
    BY <1>1, TableWithBatch
  <2>2. Gapless(log', nextId)
    BY <1>4, <2>1, TableIsTyped, GaplessWithoutLowermost DEF TableHasNoGaps, TakesEffect
  <2>3. log' \subseteq logged'
    BY <1>4 DEF TableHasNoGaps, TakesEffect
  <2> QED BY <1>1, <1>2, <1>3, <1>4, <2>2, <2>3 DEF TableHasNoGaps
<1>5. CASE UNCHANGED <<log, logged>> /\ nextId' = nextId - Len(pending)
  BY <1>1, <1>2, <1>3, <1>5 DEF TableHasNoGaps
<1> QED BY <1>4, <1>5 DEF Commit, CommitFails, table, retention

\* All other steps leave the table alone.
LEMMA OthersKeepNoGaps ==
    ASSUME ~IdGaps, Inductive, TableHasNoGaps,
           \/ Connect \/ Disconnect \/ Gather \/ Finish \/ ConnectFails \/ WriteFails
           \/ PruneNowFails \/ Submit \/ Put \/ Close \/ DeadlinePasses \/ SaveRetention
           \/ RowAges \/ MinutePasses \/ UNCHANGED vars
    PROVE  TableHasNoGaps' /\ UNCHANGED <<log, staged>>
<1> USE DEF memory, table, retention, counters, bounds, Writer
<1>1. UNCHANGED <<log, staged, logged>>
  BY DEF Connect, Disconnect, Gather, Finish, ConnectFails, WriteFails, PruneNowFails, Submit,
     Put, Close, DeadlinePasses, SaveRetention, RowAges, MinutePasses, vars
<1>2. pc' = "commit" <=> pc = "commit"
  BY DEF Connect, Disconnect, Gather, Finish, ConnectFails, WriteFails, PruneNowFails, Submit,
     Put, Close, DeadlinePasses, SaveRetention, RowAges, MinutePasses, vars
<1>3. nextId' = nextId
  BY TableIsTyped DEF Connect, Disconnect, Gather, Finish, ConnectFails, WriteFails,
     PruneNowFails, Submit, Put, Close, DeadlinePasses, SaveRetention, RowAges, MinutePasses, vars
<1>4. pc = "commit" => pending' = pending
  BY DEF Connect, Disconnect, Gather, Finish, ConnectFails, WriteFails, PruneNowFails, Submit,
     Put, Close, DeadlinePasses, SaveRetention, RowAges, MinutePasses, vars
<1>5. FirstFree' = FirstFree
  BY <1>2, <1>3, <1>4 DEF FirstFree
<1> QED BY <1>1, <1>2, <1>5 DEF TableHasNoGaps

LEMMA StepsLeaveEnough ==
    ASSUME ~IdGaps, Inductive, TableHasNoGaps, [Next]_vars
    PROVE  /\ TableHasNoGaps'
           /\ LeavesEnough((log \ log') \ staged.delete, log')
           /\ LeavesEnough(staged'.delete \ staged.delete,
                           (log' \cup staged'.insert) \ staged'.delete)
<1>1. CASE PruneNow \/ IdlePrune \/ IdlePruneFails
  <2>1. /\ log' \in {log, log \ Removed(log)} /\ UNCHANGED <<pending, staged, nextId, logged>>
        /\ pc' = "commit" <=> pc = "commit"
    BY <1>1 DEF PruneNow, IdlePrune, IdlePruneFails, Idle, memory
  <2>2. TableHasNoGaps' /\ LeavesEnough(log \ log', log')
    BY <2>1, PruningKeepsNoGaps
  <2> QED BY <2>1, <2>2 DEF LeavesEnough
<1>2. CASE Write
  <2>1. log' = log /\ staged.delete = {}
    BY <1>2 DEF Write, Writer, TableHasNoGaps, NothingStaged
  <2> QED BY <1>2, <2>1, WriteKeepsNoGaps DEF LeavesEnough
<1>3. CASE Commit \/ CommitFails
  <2>1. staged'.delete = {} /\ (log \ log') \subseteq staged.delete
    BY <1>3 DEF Commit, CommitFails, TakesEffect, NothingStaged
  <2> QED BY <1>3, <2>1, CommitsKeepNoGaps DEF LeavesEnough
<1>4. CASE \/ Connect \/ Disconnect \/ Gather \/ Finish \/ ConnectFails \/ WriteFails
           \/ PruneNowFails \/ Submit \/ Put \/ Close \/ DeadlinePasses \/ SaveRetention
           \/ RowAges \/ MinutePasses \/ UNCHANGED vars
  BY <1>4, OthersKeepNoGaps DEF LeavesEnough
<1> QED BY <1>1, <1>2, <1>3, <1>4 DEF Next, WriterStep, Failure, Environment

\* Unless ids are used up by inserts that were rolled back, pruning removes what
\* is too old and what exceeds max_rows, and nothing else, whatever the limits
\* are, and whoever prunes while a transaction is open.
THEOREM PruningIsExact == ~IdGaps => (Spec => RemovesOnlyExcess)
<1> SUFFICES ASSUME ~IdGaps PROVE Spec => RemovesOnlyExcess
  OBVIOUS
<1>1. Init => TableHasNoGaps
  BY InitHasNoGaps
<1>2. Inductive /\ TableHasNoGaps /\ [Next]_vars => TableHasNoGaps'
  BY StepsLeaveEnough
<1>3. Inductive /\ TableHasNoGaps /\ [Next]_vars =>
         [/\ LeavesEnough((log \ log') \ staged.delete, log')
          /\ LeavesEnough(staged'.delete \ staged.delete,
                          (log' \cup staged'.insert) \ staged'.delete)]_vars
  BY StepsLeaveEnough
<1> QED BY <1>1, <1>2, <1>3, Invariance, PTL DEF Spec, RemovesOnlyExcess
=============================================================================
