-------------------------- MODULE PtrResolverProofs --------------------------
(***************************************************************************)
(* Theorems about PtrResolver, for every finite set of clients, every set  *)
(* of names and every bound: flushes are final, and stored names reach the *)
(* policy and leave no gap in the query log.  Stored is what the tables    *)
(* keep among themselves, each transaction with a lemma of its own; what   *)
(* the manager remembers of lookups is in LookupsAreCurrent.               *)
(***************************************************************************)
EXTENDS PtrResolver, FiniteSetTheorems, SequenceTheorems, TLAPS

USE ParametersOK

Rows == [client : Clients, name : NameOrNone]
Statuses == [state : {"untracked", "pending", "resolved", "no_ptr", "retry"},
             name : NameOrNone, due : BOOLEAN, epoch : 0..MaxFlushes]
Jobs == [name : NameOrNone, after : 0..MaxRows, through : 0..MaxRows]
Futures == [state : {"none", "running", "done", "cancelled", "stale"},
            epoch : 0..MaxFlushes]

TablesTyped ==
    /\ status \in [Clients -> Statuses]
    /\ identities \in [Clients -> NameOrNone]
    /\ log \in Seq(Rows) /\ Len(log) <= MaxRows
    /\ cursor \in 0..Len(log)
    /\ jobs \in [Clients -> Jobs]

MemoryTyped ==
    /\ observed \subseteq Clients
    /\ futures \in [Clients -> Futures]
    /\ Cardinality(InFlight) <= 2 * Workers
    /\ phase \in Phases /\ todo \subseteq Clients
    /\ told \in [Clients -> NameOrNone]
    /\ unheard \subseteq Clients
    /\ epoch \in 0..MaxFlushes /\ faults \in 0..MaxFaults

\* A status row that has a name has the one of the client.
StatusFitsName ==
    \A c \in Clients :
        status[c].name # NoName => status[c].name = identities[c]

Stored ==
    /\ TablesTyped /\ StatusFitsName
    /\ AnswersPostdateFlush /\ UnnamedRowsAreAhead

\* A lookup that will count began after the last flush, and what a tick
\* collects has ended.
LookupsAreCurrent ==
    /\ \A c \in Clients :
          futures[c].state \in {"running", "done"} => futures[c].epoch = epoch
    /\ Collecting => todo \subseteq Done

Inductive == Stored /\ MemoryTyped /\ LookupsAreCurrent /\ NamesAreHandedOn

-----------------------------------------------------------------------------
(* The rows a name job visits.                                             *)

\* The library's order of the naturals has least elements.
LEMMA LeastNatural ==
    ASSUME NEW S \in SUBSET Nat, S # {}
    PROVE  \E x \in S : \A y \in S : x <= y
<1>1. IsWellFoundedOn({ss \in Nat \X Nat : ss[1] < ss[2]}, Nat)
    BY NatLessThanWellFounded DEF OpToRel
<1>2. PICK x \in S : \A y \in S :
          ~ (<<y, x>> \in {ss \in Nat \X Nat : ss[1] < ss[2]})
    BY <1>1, WFMin
<1>3. ASSUME NEW y \in S
      PROVE  x <= y
    <2>1. <<y, x>> \in Nat \X Nat
        OBVIOUS
    <2>2. ~ (y < x)
        BY <1>2, <2>1
    <2>3. QED
        BY <2>2
<1>4. QED
    BY <1>3

\* A set of naturals with a bound has a greatest element.
LEMMA GreatestNatural ==
    ASSUME NEW n \in Nat, NEW S \in SUBSET (0..n), S # {}
    PROVE  \E x \in S : \A y \in S : y <= x
<1>1. DEFINE T == {k \in 0..n : n - k \in S}
<1>2. T \in SUBSET Nat /\ T # {}
    <2>1. PICK s \in S : TRUE
        OBVIOUS
    <2>2. n - s \in 0..n /\ n - (n - s) = s
        OBVIOUS
    <2>3. n - s \in T
        BY <2>1, <2>2
    <2>4. T \subseteq Nat
        OBVIOUS
    <2>5. QED
        BY <2>3, <2>4
<1>3. PICK k \in T : \A j \in T : k <= j
    BY <1>2, LeastNatural
<1>4. ASSUME NEW y \in S
      PROVE  y <= n - k
    <2>1. n - y \in T
        OBVIOUS
    <2>2. QED
        BY <1>3, <2>1
<1>5. QED
    BY <1>3, <1>4

\* A row that a chunk does not reach is after the chunk, which then is full
\* and goes on behind its last row.
LEMMA ChunkIsFirst ==
    ASSUME NEW rows \in Seq(Rows), NEW c, NEW n,
           NEW after \in Nat, NEW through \in Nat,
           NEW i \in DOMAIN rows, rows[i].client = c, after < i, i <= through,
           i \notin Visited(rows, c, after, through)
    PROVE  \E k \in Nat :
              /\ k < i
              /\ Advance(Visited(rows, c, after, through), n, through)
                    = [name |-> n, after |-> k, through |-> through]
<1>1. DEFINE mine == {j \in DOMAIN rows :
                         rows[j].client = c /\ j > after /\ j <= through}
             before(j) == {k \in mine : k < j}
             ids == {j \in mine : Cardinality(before(j)) < ChunkSize}
<1>2. Visited(rows, c, after, through) = ids
    BY DEF Visited
<1>3. DOMAIN rows = 1..Len(rows) /\ Len(rows) \in Nat
    OBVIOUS
<1>4. mine \in SUBSET (1..Len(rows)) /\ IsFiniteSet(mine)
    <2>1. mine \in SUBSET (1..Len(rows))
        BY <1>3
    <2>2. IsFiniteSet(1..Len(rows))
        BY <1>3, FS_Interval
    <2> HIDE DEF mine
    <2>3. QED
        BY <2>1, <2>2, FS_Subset
<1>5. i \in mine /\ i \notin ids
    BY <1>2
<1>6. \A S \in SUBSET mine : IsFiniteSet(S) /\ Cardinality(S) \in Nat
    BY <1>4, FS_Subset, FS_CardinalityType
<1>7. \A S \in SUBSET mine : \A T \in SUBSET S : Cardinality(T) <= Cardinality(S)
    BY <1>6, FS_Subset
<1>8. \A j \in mine : before(j) \in SUBSET mine
    OBVIOUS
<1>9. ASSUME NEW j \in ids
      PROVE  j < i
    <2>1. SUFFICES ASSUME i <= j
                   PROVE  FALSE
        BY <1>3
    <2>2. before(i) \in SUBSET before(j)
        BY <1>3, <2>1
    <2>3. Cardinality(before(i)) <= Cardinality(before(j))
        BY <1>7, <1>8, <2>2
    <2>4. Cardinality(before(i)) \in Nat /\ Cardinality(before(j)) \in Nat
        BY <1>5, <1>6, <1>8
    <2>5. QED
        BY <1>5, <2>3, <2>4
<1>10. Cardinality(ids) >= ChunkSize
    <2>1. mine \ ids \in SUBSET Nat
        BY <1>3
    <2>2. PICK m \in mine \ ids : \A j \in mine \ ids : m <= j
        BY <1>5, <2>1, LeastNatural
    <2>3. before(m) \in SUBSET ids
        <3>1. SUFFICES ASSUME NEW k \in mine, k < m, k \notin ids
                       PROVE  FALSE
            OBVIOUS
        <3>2. m <= k /\ k \in Nat /\ m \in Nat
            BY <1>3, <2>2, <3>1
        <3>3. QED
            BY <3>1, <3>2
    <2>4. ids \in SUBSET mine
        OBVIOUS
    <2>5. Cardinality(before(m)) <= Cardinality(ids)
        BY <1>7, <2>3, <2>4
    <2>6. Cardinality(before(m)) \in Nat /\ Cardinality(ids) \in Nat
        BY <1>6, <1>8, <2>4
    <2>7. QED
        BY <2>2, <2>5, <2>6
<1> HIDE DEF before
<1>11. ids # {}
    <2>1. ~ (0 >= ChunkSize)
        OBVIOUS
    <2>2. Cardinality({}) = 0
        BY FS_EmptySet
    <2> HIDE DEF ids
    <2>3. QED
        BY <1>10, <2>1, <2>2
<1>12. ids \in SUBSET (0..Len(rows))
    BY <1>3
<1>13. PICK k \in ids : \A j \in ids : j <= k
    BY <1>3, <1>11, <1>12, GreatestNatural
<1> HIDE DEF ids, mine
<1>14. DEFINE last == CHOOSE k1 \in ids : \A j \in ids : j <= k1
<1>15. last \in ids
    BY <1>13
<1> HIDE DEF last
<1>16. last < i /\ last \in Nat
    BY <1>9, <1>12, <1>15
<1>17. Cardinality(ids) \in Nat
    BY <1>6 DEF ids
<1>18. Advance(ids, n, through) = [name |-> n, after |-> last, through |-> through]
    <2>1. ~ (Cardinality(ids) < ChunkSize \/ last >= through)
        BY <1>3, <1>10, <1>16, <1>17
    <2>2. QED
        BY <2>1 DEF Advance, last
<1>19. QED
    BY <1>2, <1>16, <1>18

LEMMA VisitedAreRows ==
    ASSUME NEW rows \in Seq(Rows), NEW c, NEW after, NEW through
    PROVE  /\ Visited(rows, c, after, through) \subseteq 1..Len(rows)
           /\ \A i \in Visited(rows, c, after, through) : rows[i].client = c
<1>1. DOMAIN rows = 1..Len(rows)
    OBVIOUS
<1>2. QED
    BY <1>1 DEF Visited

LEMMA AdvanceType ==
    ASSUME NEW rows \in Seq(Rows), Len(rows) <= MaxRows, NEW c,
           NEW n \in NameOrNone, NEW after, NEW through \in 0..MaxRows
    PROVE  Advance(Visited(rows, c, after, through), n, through) \in Jobs
<1>1. DEFINE ids == Visited(rows, c, after, through)
             last == CHOOSE i \in ids : \A j \in ids : j <= i
<1>2. ids \in SUBSET (0..Len(rows)) /\ Len(rows) \in Nat
    BY VisitedAreRows
<1>3. NoJob \in Jobs
    BY DEF NoJob, Jobs, NameOrNone
<1> HIDE DEF ids
<1>4. CASE Advance(ids, n, through) = NoJob
    BY <1>3, <1>4 DEF ids
<1>5. CASE Advance(ids, n, through) # NoJob
    <2>1. ~ (Cardinality(ids) < ChunkSize)
        BY <1>5 DEF Advance
    <2>2. ids # {}
        <3>1. Cardinality({}) = 0 /\ 0 < ChunkSize
            BY FS_EmptySet
        <3>2. QED
            BY <2>1, <3>1
    <2>3. PICK k \in ids : \A j \in ids : j <= k
        BY <1>2, <2>2, GreatestNatural
    <2>4. last \in ids
        BY <2>3
    <2>5. last \in 0..MaxRows
        <3> HIDE DEF last
        <3>1. last \in 0..Len(rows)
            BY <1>2, <2>4
        <3>2. QED
            BY <1>2, <3>1
    <2>6. Advance(ids, n, through) = [name |-> n, after |-> last, through |-> through]
        BY <1>5 DEF Advance
    <2> HIDE DEF last
    <2>7. Advance(ids, n, through) \in Jobs
        BY <2>5, <2>6 DEF Jobs
    <2>8. QED
        BY <2>7 DEF ids
<1>6. QED
    BY <1>4, <1>5

\* Naming rows changes nothing but the names of rows that have none.
LEMMA NamingRows ==
    ASSUME NEW rows \in Seq(Rows), NEW ids, NEW names,
           \A i \in ids \cap DOMAIN rows : names[rows[i].client] \in NameOrNone
    PROVE  LET named == NameRows(rows, ids, names)
           IN  /\ named \in Seq(Rows) /\ Len(named) = Len(rows)
               /\ DOMAIN named = DOMAIN rows
               /\ \A i \in DOMAIN rows :
                     /\ named[i].client = rows[i].client
                     /\ rows[i].name # NoName => named[i].name = rows[i].name
                     /\ i \in ids /\ rows[i].name = NoName =>
                           named[i].name = names[rows[i].client]
                     /\ i \notin ids => named[i] = rows[i]
<1>1. DEFINE named == NameRows(rows, ids, names)
<1>2. DOMAIN rows = 1..Len(rows) /\ Len(rows) \in Nat
    OBVIOUS
<1>3. ASSUME NEW i \in DOMAIN rows
      PROVE  /\ named[i] \in Rows
             /\ named[i].client = rows[i].client
             /\ rows[i].name # NoName => named[i].name = rows[i].name
             /\ i \in ids /\ rows[i].name = NoName =>
                   named[i].name = names[rows[i].client]
             /\ i \notin ids => named[i] = rows[i]
    <2>1. rows[i] \in Rows
        BY <1>2
    <2>2. named[i] = IF i \in ids /\ rows[i].name = NoName
                     THEN [rows[i] EXCEPT !.name = names[rows[i].client]]
                     ELSE rows[i]
        BY DEF NameRows
    <2>3. i \in ids => names[rows[i].client] \in NameOrNone
        OBVIOUS
    <2> HIDE DEF named
    <2>4. QED
        BY <2>1, <2>2, <2>3 DEF Rows
<1>4. DOMAIN named = 1..Len(rows)
    BY <1>2 DEF NameRows
<1>5. named \in [1..Len(rows) -> Rows]
    BY <1>2, <1>3, <1>4 DEF NameRows
<1> HIDE DEF named
<1>6. named \in Seq(Rows) /\ Len(named) = Len(rows)
    BY <1>2, <1>5
<1>7. QED
    BY <1>2, <1>3, <1>4, <1>6 DEF named

-----------------------------------------------------------------------------
(* What the transactions leave in the tables.                              *)

LEMMA FixedTypes ==
    Untracked \in Statuses /\ Pending \in Statuses /\ NoFuture \in Futures
BY DEF Untracked, Pending, NoFuture, Statuses, Futures, NameOrNone

LEMMA TrackKeeps ==
    ASSUME Stored, NEW s, status' = Track(s), UNCHANGED epoch
    PROVE  /\ status' \in [Clients -> Statuses]
           /\ AnswersPostdateFlush'
           /\ \A c \in Clients : status'[c].name \in {status[c].name, NoName}
<1>1. status \in [Clients -> Statuses]
    BY DEF Stored, TablesTyped
<1>2. status' \in [Clients -> Statuses]
    BY <1>1, FixedTypes DEF Track
<1>3. \A c \in Clients : status'[c] = status[c] \/ status'[c] = Pending
    BY DEF Track
<1>4. Pending.state = "pending" /\ Pending.name = NoName
    BY DEF Pending
<1>5. AnswersPostdateFlush'
    BY <1>3, <1>4 DEF Stored, AnswersPostdateFlush, Tracked
<1>6. QED
    BY <1>2, <1>3, <1>4, <1>5

LEMMA ObservedAreTracked ==
    ASSUME Stored, status' = Track(observed),
           UNCHANGED <<identities, log, cursor, jobs, epoch>>
    PROVE  Stored'
<1>1. status' \in [Clients -> Statuses] /\ AnswersPostdateFlush'
    BY TrackKeeps
<1>2. StatusFitsName'
    BY TrackKeeps DEF Stored, StatusFitsName
<1>3. UnnamedRowsAreAhead' /\ TablesTyped'
    BY <1>1 DEF Stored, TablesTyped, UnnamedRowsAreAhead
<1>4. QED
    BY <1>1, <1>2, <1>3 DEF Stored

\* The job of a client: naming the rows that it visits and going on keeps every
\* row that is still to be named ahead, if the job and the client agree.
LEMMA ChunkKeepsAhead ==
    ASSUME TablesTyped, NEW c \in Clients, NEW n \in NameOrNone,
           NEW after \in 0..MaxRows, NEW through \in 0..MaxRows,
           BackfillChunk(c, n, after, through), UNCHANGED cursor,
           identities' \in [Clients -> NameOrNone],
           \A d \in Clients \ {c} : identities'[d] = identities[d],
           \A d \in Clients \ {c}, i \in DOMAIN log :
               log[i].client = d /\ log[i].name = NoName /\ identities[d] # NoName =>
                   \/ i > cursor
                   \/ /\ jobs[d].name = identities[d]
                      /\ jobs[d].after < i /\ i <= jobs[d].through,
           \A i \in DOMAIN log :
               log[i].client = c /\ log[i].name = NoName /\ identities'[c] # NoName =>
                   \/ i > cursor
                   \/ n = identities'[c] /\ after < i /\ i <= through
    PROVE  /\ log' \in Seq(Rows) /\ Len(log') <= MaxRows /\ cursor' \in 0..Len(log')
           /\ jobs' \in [Clients -> Jobs]
           /\ UnnamedRowsAreAhead'
<1>1. DEFINE ids == Visited(log, c, after, through)
             names == [d \in {c} |-> n]
<1>2. /\ log' = NameRows(log, ids, names)
      /\ jobs' = [jobs EXCEPT ![c] = Advance(ids, n, through)]
    BY DEF BackfillChunk
<1>3. log \in Seq(Rows) /\ Len(log) <= MaxRows /\ jobs \in [Clients -> Jobs]
      /\ cursor \in 0..Len(log)
    BY DEF TablesTyped
<1>4. ids \subseteq 1..Len(log) /\ \A i \in ids : log[i].client = c
    BY <1>3, VisitedAreRows
<1>5. names[c] = n
    OBVIOUS
<1>6. Advance(ids, n, through) \in Jobs
    BY <1>3, AdvanceType
<1> HIDE DEF names, ids
<1>7. /\ log' \in Seq(Rows) /\ Len(log') = Len(log) /\ DOMAIN log' = DOMAIN log
      /\ \A i \in DOMAIN log :
            /\ log'[i].client = log[i].client
            /\ log[i].name # NoName => log'[i].name = log[i].name
            /\ i \in ids /\ log[i].name = NoName => log'[i].name = names[log[i].client]
            /\ i \notin ids => log'[i] = log[i]
    BY <1>2, <1>3, <1>4, <1>5, NamingRows
<1>8. jobs' \in [Clients -> Jobs] /\ jobs'[c] = Advance(ids, n, through)
      /\ \A d \in Clients \ {c} : jobs'[d] = jobs[d]
    BY <1>2, <1>3, <1>6
<1>9. ASSUME NEW i \in DOMAIN log', log'[i].name = NoName,
             identities'[log'[i].client] # NoName
      PROVE  \/ i > cursor'
             \/ /\ jobs'[log'[i].client].name = identities'[log'[i].client]
                /\ jobs'[log'[i].client].after < i
                /\ i <= jobs'[log'[i].client].through
    <2>1. i \in DOMAIN log /\ log'[i].client = log[i].client /\ log[i].name = NoName
        BY <1>7, <1>9
    <2>2. log[i].client \in Clients
        <3>1. log[i] \in Rows
            BY <1>3, <2>1
        <3>2. QED
            BY <3>1 DEF Rows
    <2>3. CASE log[i].client # c
        BY <1>8, <1>9, <2>1, <2>2, <2>3
    <2>4. CASE log[i].client = c
        <3>1. i > cursor \/ (n = identities'[c] /\ after < i /\ i <= through)
            BY <1>9, <2>1, <2>4
        <3>2. CASE i > cursor
            BY <3>2
        <3>3. CASE n = identities'[c] /\ after < i /\ i <= through
            <4>1. n # NoName
                BY <1>9, <2>1, <2>4, <3>3
            <4>2. i \notin ids
                BY <1>5, <1>7, <1>9, <2>1, <2>4, <4>1
            <4>3. \E k \in Nat :
                      k < i /\ Advance(ids, n, through)
                                   = [name |-> n, after |-> k, through |-> through]
                <5>1. after \in Nat /\ through \in Nat
                    OBVIOUS
                <5>2. QED
                    BY <1>3, <2>1, <2>4, <3>3, <4>2, <5>1, ChunkIsFirst DEF ids
            <4>4. QED
                BY <1>8, <2>1, <2>4, <3>3, <4>3
        <3>4. QED
            BY <3>1, <3>2, <3>3
    <2>5. QED
        BY <2>3, <2>4
<1>10. UnnamedRowsAreAhead'
    BY <1>9 DEF UnnamedRowsAreAhead
<1>11. QED
    BY <1>3, <1>7, <1>8, <1>10

\* A row of the table of states after an answer that counts.
LEMMA AnswerKeeps ==
    ASSUME Stored, NEW c \in Clients, NEW s \in {"resolved", "no_ptr", "retry"},
           NEW n \in NameOrNone, Answered(c, s, n), UNCHANGED epoch,
           futures[c].epoch = epoch, epoch \in 0..MaxFlushes
    PROVE  /\ status' \in [Clients -> Statuses]
           /\ AnswersPostdateFlush'
           /\ status'[c].name = n
           /\ \A d \in Clients \ {c} : status'[d] = status[d]
<1>1. DEFINE row == [state |-> s, name |-> n, due |-> FALSE, epoch |-> epoch]
<1>2. status' = [status EXCEPT ![c] = row]
    BY DEF Answered
<1>3. row \in Statuses /\ row.name = n /\ row.epoch = epoch
    BY DEF Statuses
<1> HIDE DEF row
<1>4. status \in [Clients -> Statuses]
    BY DEF Stored, TablesTyped
<1>5. status'[c] = row /\ \A d \in Clients \ {c} : status'[d] = status[d]
    BY <1>2, <1>4
<1>6. AnswersPostdateFlush'
    BY <1>3, <1>5 DEF Stored, AnswersPostdateFlush, Tracked
<1>7. QED
    BY <1>2, <1>3, <1>4, <1>5, <1>6

LEMMA ResolvedKeeps ==
    ASSUME Stored, NEW c \in Clients, NEW n \in Names, PersistResolved(c, n),
           UNCHANGED epoch, futures[c].epoch = epoch, epoch \in 0..MaxFlushes
    PROVE  /\ Stored' /\ identities' = [identities EXCEPT ![c] = n]
<1>1. n \in NameOrNone
    BY DEF NameOrNone
<1>2. /\ status' \in [Clients -> Statuses] /\ AnswersPostdateFlush'
      /\ status'[c].name = n /\ \A d \in Clients \ {c} : status'[d] = status[d]
    BY <1>1, AnswerKeeps DEF PersistResolved
<1>3. identities' = [identities EXCEPT ![c] = n] /\ identities \in [Clients -> NameOrNone]
    BY DEF PersistResolved, Stored, TablesTyped
<1>4. /\ identities' \in [Clients -> NameOrNone] /\ identities'[c] = n
      /\ \A d \in Clients \ {c} : identities'[d] = identities[d]
    BY <1>1, <1>3
<1>5. StatusFitsName'
    BY <1>2, <1>4 DEF StatusFitsName, Stored
<1>6. log \in Seq(Rows) /\ Len(log) \in 0..MaxRows /\ DOMAIN log = 1..Len(log)
    BY DEF Stored, TablesTyped
<1>7. \A i \in DOMAIN log : 0 < i /\ i <= Len(log)
    BY <1>6
<1>8. TablesTyped /\ BackfillChunk(c, n, 0, Len(log)) /\ UNCHANGED cursor
    BY DEF Stored, PersistResolved
<1>9. \A d \in Clients \ {c}, i \in DOMAIN log :
          log[i].client = d /\ log[i].name = NoName /\ identities[d] # NoName =>
              \/ i > cursor
              \/ /\ jobs[d].name = identities[d]
                 /\ jobs[d].after < i /\ i <= jobs[d].through
    BY DEF Stored, UnnamedRowsAreAhead
<1>10. /\ log' \in Seq(Rows) /\ Len(log') <= MaxRows /\ cursor' \in 0..Len(log')
       /\ jobs' \in [Clients -> Jobs]
       /\ UnnamedRowsAreAhead'
    <2>1. 0 \in 0..MaxRows
        OBVIOUS
    <2>2. QED
        BY <1>1, <1>4, <1>6, <1>7, <1>8, <1>9, <2>1, ChunkKeepsAhead
<1>11. QED
    BY <1>2, <1>3, <1>4, <1>5, <1>10 DEF Stored, TablesTyped

LEMMA NoPtrKeeps ==
    ASSUME Stored, NEW c \in Clients, PersistNoPtr(c),
           UNCHANGED epoch, futures[c].epoch = epoch, epoch \in 0..MaxFlushes
    PROVE  /\ Stored' /\ identities' = [identities EXCEPT ![c] = NoName]
<1>1. NoName \in NameOrNone
    BY DEF NameOrNone
<1>2. /\ status' \in [Clients -> Statuses] /\ AnswersPostdateFlush'
      /\ status'[c].name = NoName /\ \A d \in Clients \ {c} : status'[d] = status[d]
    BY <1>1, AnswerKeeps DEF PersistNoPtr
<1>3. /\ identities' = [identities EXCEPT ![c] = NoName]
      /\ identities \in [Clients -> NameOrNone] /\ UNCHANGED <<log, cursor, jobs>>
    BY DEF PersistNoPtr, Stored, TablesTyped
<1>4. /\ identities' \in [Clients -> NameOrNone] /\ identities'[c] = NoName
      /\ \A d \in Clients \ {c} : identities'[d] = identities[d]
    BY <1>1, <1>3
<1>5. StatusFitsName'
    BY <1>2, <1>4 DEF StatusFitsName, Stored
<1>6. TablesTyped'
    BY <1>2, <1>3, <1>4 DEF Stored, TablesTyped
<1>7. \A i \in DOMAIN log : log[i].client \in Clients
    <2>1. log \in Seq(Rows)
        BY DEF Stored, TablesTyped
    <2>2. \A i \in DOMAIN log : log[i] \in Rows
        BY <2>1
    <2>3. QED
        BY <2>2 DEF Rows
<1>8. UnnamedRowsAreAhead'
    BY <1>3, <1>4, <1>7 DEF Stored, UnnamedRowsAreAhead
<1>9. QED
    BY <1>2, <1>3, <1>5, <1>6, <1>8 DEF Stored

LEMMA RetryKeeps ==
    ASSUME Stored, NEW c \in Clients, PersistRetry(c),
           UNCHANGED epoch, futures[c].epoch = epoch, epoch \in 0..MaxFlushes
    PROVE  Stored' /\ UNCHANGED identities
<1>1. status[c].name \in NameOrNone
    BY DEF Stored, TablesTyped, Statuses
<1>2. /\ status' \in [Clients -> Statuses] /\ AnswersPostdateFlush'
      /\ status'[c].name = status[c].name
      /\ \A d \in Clients \ {c} : status'[d] = status[d]
    BY <1>1, AnswerKeeps DEF PersistRetry
<1>3. UNCHANGED <<identities, log, cursor, jobs>>
    BY DEF PersistRetry
<1>4. StatusFitsName'
    BY <1>2, <1>3 DEF StatusFitsName, Stored
<1>5. TablesTyped' /\ UnnamedRowsAreAhead'
    BY <1>2, <1>3 DEF Stored, TablesTyped, UnnamedRowsAreAhead
<1>6. QED
    BY <1>2, <1>3, <1>4, <1>5 DEF Stored

LEMMA ChunkOfJobKeeps ==
    ASSUME Stored, NEW c \in Clients,
           BackfillChunk(c, jobs[c].name, jobs[c].after, jobs[c].through),
           UNCHANGED <<status, identities, cursor, epoch>>
    PROVE  Stored'
<1>1. jobs[c] \in Jobs
    BY DEF Stored, TablesTyped
<1>2. /\ jobs[c].name \in NameOrNone /\ jobs[c].after \in 0..MaxRows
      /\ jobs[c].through \in 0..MaxRows
    BY <1>1 DEF Jobs
<1>3. TablesTyped /\ identities' \in [Clients -> NameOrNone]
    BY DEF Stored, TablesTyped
<1>4. \A i \in DOMAIN log :
          LET d == log[i].client
          IN  log[i].name = NoName /\ identities[d] # NoName =>
              \/ i > cursor
              \/ /\ jobs[d].name = identities[d]
                 /\ jobs[d].after < i /\ i <= jobs[d].through
    BY DEF Stored, UnnamedRowsAreAhead
<1>5. \A d \in Clients \ {c}, i \in DOMAIN log :
          log[i].client = d /\ log[i].name = NoName /\ identities[d] # NoName =>
              \/ i > cursor
              \/ /\ jobs[d].name = identities[d]
                 /\ jobs[d].after < i /\ i <= jobs[d].through
    BY <1>4
<1>6. \A i \in DOMAIN log :
          log[i].client = c /\ log[i].name = NoName /\ identities'[c] # NoName =>
              \/ i > cursor
              \/ /\ jobs[c].name = identities'[c]
                 /\ jobs[c].after < i /\ i <= jobs[c].through
    BY <1>4
<1>7. /\ log' \in Seq(Rows) /\ Len(log') <= MaxRows /\ cursor' \in 0..Len(log')
      /\ jobs' \in [Clients -> Jobs]
      /\ UnnamedRowsAreAhead'
    BY <1>2, <1>3, <1>5, <1>6, ChunkKeepsAhead
<1>8. StatusFitsName' /\ AnswersPostdateFlush'
    BY DEF Stored, StatusFitsName, AnswersPostdateFlush, Tracked
<1>9. QED
    BY <1>7, <1>8 DEF Stored, TablesTyped

LEMMA SeedingKeeps ==
    ASSUME Stored, epoch \in 0..MaxFlushes, NEW s,
           status' = [c \in Clients |->
                         IF c \notin s THEN status[c]
                         ELSE [state |-> "resolved", name |-> identities[c],
                               due |-> FALSE, epoch |-> epoch]],
           UNCHANGED <<identities, log, cursor, jobs, epoch>>
    PROVE  Stored'
<1>1. status \in [Clients -> Statuses] /\ identities \in [Clients -> NameOrNone]
    BY DEF Stored, TablesTyped
<1>2. ASSUME NEW c \in Clients
      PROVE  /\ status'[c] \in Statuses
             /\ \/ status'[c] = status[c]
                \/ status'[c].name = identities[c] /\ status'[c].epoch = epoch
    BY <1>1 DEF Statuses
<1>3. status' \in [Clients -> Statuses]
    BY <1>2
<1>4. TablesTyped' /\ UnnamedRowsAreAhead'
    BY <1>3 DEF Stored, TablesTyped, UnnamedRowsAreAhead
<1>5. StatusFitsName' /\ AnswersPostdateFlush'
    BY <1>2 DEF Stored, StatusFitsName, AnswersPostdateFlush, Tracked
<1>6. QED
    BY <1>4, <1>5 DEF Stored

\* Walking gives the rows up to the new cursor the names there are.
LEMMA WalkingKeeps ==
    ASSUME Stored, NEW s, status' = Track(s),
           log' = NameRows(log, Candidates, identities),
           cursor' = cursor + Cardinality(Candidates),
           UNCHANGED <<identities, jobs, epoch>>
    PROVE  Stored'
<1>1. status' \in [Clients -> Statuses] /\ AnswersPostdateFlush'
    BY TrackKeeps
<1>2. StatusFitsName'
    BY TrackKeeps DEF Stored, StatusFitsName
<1>3. /\ log \in Seq(Rows) /\ Len(log) <= MaxRows /\ Len(log) \in Nat
      /\ DOMAIN log = 1..Len(log) /\ cursor \in 0..Len(log)
      /\ identities \in [Clients -> NameOrNone] /\ jobs \in [Clients -> Jobs]
    BY DEF Stored, TablesTyped
<1>4. \A i \in DOMAIN log : log[i].client \in Clients
    <2>1. \A i \in DOMAIN log : log[i] \in Rows
        BY <1>3
    <2>2. QED
        BY <2>1 DEF Rows
<1>5. PICK last \in cursor..Len(log) : Candidates = (cursor + 1)..last
    <2>1. Least(cursor + BatchSize, Len(log)) \in cursor..Len(log)
        BY <1>3 DEF Least
    <2>2. QED
        BY <2>1 DEF Candidates
<1>6. cursor' = last
    <2>1. Cardinality((cursor + 1)..last) = IF cursor + 1 > last THEN 0
                                            ELSE last - (cursor + 1) + 1
        BY <1>3, FS_Interval
    <2>2. QED
        BY <1>3, <1>5, <2>1
<1>7. /\ log' \in Seq(Rows) /\ Len(log') = Len(log) /\ DOMAIN log' = DOMAIN log
      /\ \A i \in DOMAIN log :
            /\ log'[i].client = log[i].client
            /\ log[i].name # NoName => log'[i].name = log[i].name
            /\ i \in Candidates /\ log[i].name = NoName =>
                  log'[i].name = identities[log[i].client]
            /\ i \notin Candidates => log'[i] = log[i]
    BY <1>3, <1>4, NamingRows
<1>8. ASSUME NEW i \in DOMAIN log', log'[i].name = NoName,
             identities'[log'[i].client] # NoName
      PROVE  \/ i > cursor'
             \/ /\ jobs'[log'[i].client].name = identities'[log'[i].client]
                /\ jobs'[log'[i].client].after < i
                /\ i <= jobs'[log'[i].client].through
    <2>1. /\ i \in DOMAIN log /\ log'[i].client = log[i].client
          /\ log[i].name = NoName /\ i \notin Candidates
        BY <1>7, <1>8
    <2>2. \/ i > cursor
          \/ /\ jobs[log[i].client].name = identities[log[i].client]
             /\ jobs[log[i].client].after < i
             /\ i <= jobs[log[i].client].through
        BY <1>8, <2>1 DEF Stored, UnnamedRowsAreAhead
    <2>3. i > cursor => i > last
        BY <1>3, <1>5, <2>1
    <2>4. QED
        BY <1>6, <2>1, <2>2, <2>3
<1>9. UnnamedRowsAreAhead'
    BY <1>8 DEF UnnamedRowsAreAhead
<1>10. TablesTyped'
    BY <1>1, <1>3, <1>5, <1>6, <1>7 DEF TablesTyped
<1>11. QED
    BY <1>1, <1>2, <1>9, <1>10 DEF Stored

\* A flush leaves no name, and no answer whose lookup could be too old.
LEMMA ClearingKeeps ==
    ASSUME Stored, ClearNames
    PROVE  Stored' /\ \A c \in Clients : identities'[c] = NoName
<1>1. status \in [Clients -> Statuses] /\ identities \in [Clients -> NameOrNone]
    BY DEF Stored, TablesTyped
<1>2. NoName \in NameOrNone /\ NoJob \in Jobs
    BY DEF NoJob, Jobs, NameOrNone
<1>3. status' \in [Clients -> Statuses]
    BY <1>1, FixedTypes DEF ClearNames, Requeued
<1>4. \A c \in Clients : identities'[c] = NoName
    BY DEF ClearNames
<1>5. TablesTyped'
    BY <1>2, <1>3 DEF ClearNames, Stored, TablesTyped
<1>6. ASSUME NEW c \in Clients
      PROVE  /\ status'[c].state \in {"pending", "untracked"}
             /\ status'[c].name = NoName
    <2>1. CASE c \in Tracked \cup NamedClients
        BY <2>1 DEF ClearNames, Requeued, Pending
    <2>2. CASE c \notin Tracked \cup NamedClients
        <3>1. status'[c] = status[c]
            BY <2>2 DEF ClearNames
        <3>2. status[c].state = "untracked" /\ identities[c] = NoName
            BY <2>2 DEF Tracked, NamedClients
        <3>3. QED
            BY <3>1, <3>2 DEF Stored, StatusFitsName
    <2>3. QED
        BY <2>1, <2>2
<1>7. StatusFitsName' /\ AnswersPostdateFlush'
    BY <1>6 DEF StatusFitsName, AnswersPostdateFlush, Tracked
<1>8. \A i \in DOMAIN log' : log'[i].client \in Clients
    <2>1. log' \in Seq(Rows)
        BY <1>5 DEF TablesTyped
    <2>2. \A i \in DOMAIN log' : log'[i] \in Rows
        BY <2>1
    <2>3. QED
        BY <2>2 DEF Rows
<1>9. UnnamedRowsAreAhead'
    BY <1>4, <1>8 DEF UnnamedRowsAreAhead
<1>10. QED
    BY <1>4, <1>5, <1>7, <1>9 DEF Stored

-----------------------------------------------------------------------------
(* The futures and what the manager remembers.                             *)

LEMMA FewInFlight ==
    ASSUME NEW S \in SUBSET Clients
    PROVE  IsFiniteSet(S) /\ Cardinality(S) \in Nat
BY FS_Subset, FS_CardinalityType

\* Futures that change their state, or go, are no more than they were.
LEMMA FuturesKeepTypes ==
    ASSUME MemoryTyped, futures' \in [Clients -> Futures],
           \A c \in Clients : futures'[c].state # "none" => futures[c].state # "none"
    PROVE  Cardinality(InFlight') <= 2 * Workers
<1>1. InFlight \in SUBSET Clients /\ InFlight' \in SUBSET InFlight
    BY DEF InFlight
<1>2. Cardinality(InFlight') <= Cardinality(InFlight)
    BY <1>1, FewInFlight, FS_Subset
<1>3. /\ Cardinality(InFlight') \in Nat /\ Cardinality(InFlight) \in Nat
      /\ Cardinality(InFlight) <= 2 * Workers
    BY <1>1, FewInFlight DEF MemoryTyped
<1>4. QED
    BY <1>2, <1>3

LEMMA StartedKeepTypes ==
    ASSUME MemoryTyped, NEW s \in SUBSET Clients,
           Cardinality(s) <= 2 * Workers - Cardinality(InFlight),
           InFlight' \in SUBSET (InFlight \cup s)
    PROVE  Cardinality(InFlight') <= 2 * Workers
<1>1. InFlight \in SUBSET Clients
    BY DEF InFlight
<1>2. /\ IsFiniteSet(InFlight) /\ IsFiniteSet(s) /\ IsFiniteSet(InFlight \cap s)
      /\ IsFiniteSet(InFlight \cup s)
      /\ Cardinality(InFlight) \in Nat /\ Cardinality(s) \in Nat
      /\ Cardinality(InFlight \cap s) \in Nat /\ Cardinality(InFlight \cup s) \in Nat
    BY <1>1, FewInFlight
<1>3. Cardinality(InFlight \cup s)
        = Cardinality(InFlight) + Cardinality(s) - Cardinality(InFlight \cap s)
    BY <1>2, FS_Union
<1>4. Cardinality(InFlight') <= Cardinality(InFlight \cup s)
      /\ Cardinality(InFlight') \in Nat
    BY <1>2, FS_Subset, FS_CardinalityType
<1>5. QED
    BY <1>2, <1>3, <1>4

\* A step that leaves the futures and the epoch alone.
LEMMA SamePhase ==
    ASSUME LookupsAreCurrent, UNCHANGED <<futures, epoch>>,
           \/ UNCHANGED <<phase, todo>>
           \/ phase' \in {"collect", "recollect"} => todo' = Done
    PROVE  LookupsAreCurrent'
<1>1. \A c \in Clients :
          futures'[c].state \in {"running", "done"} => futures'[c].epoch = epoch'
    BY DEF LookupsAreCurrent
<1>2. Collecting' => todo' \subseteq Done'
    BY DEF LookupsAreCurrent, Collecting, Done, InFlight
<1>3. QED
    BY <1>1, <1>2 DEF LookupsAreCurrent

-----------------------------------------------------------------------------
(* The steps beside the tick.                                              *)

\* A step that stores nothing that is handed on, and starts or ends no lookup.
LEMMA QuietStep ==
    ASSUME Inductive, Stored',
           UNCHANGED <<identities, futures, told, unheard, epoch>>,
           \/ UNCHANGED <<phase, todo>>
           \/ phase' \in {"collect", "recollect"} => todo' = Done,
           observed' \subseteq Clients, phase' \in Phases, todo' \subseteq Clients,
           faults' \in 0..MaxFaults
    PROVE  Inductive'
<1>1. MemoryTyped'
    BY DEF Inductive, MemoryTyped, InFlight
<1>2. LookupsAreCurrent'
    BY SamePhase DEF Inductive
<1>3. NamesAreHandedOn'
    BY DEF Inductive, NamesAreHandedOn
<1>4. QED
    BY <1>1, <1>2, <1>3 DEF Inductive

LEMMA TablesUnchanged ==
    ASSUME Stored, UNCHANGED tables, UNCHANGED epoch
    PROVE  Stored'
BY DEF Stored, TablesTyped, StatusFitsName, AnswersPostdateFlush, Tracked,
       UnnamedRowsAreAhead, tables

LEMMA ObserveKeeps ==
    ASSUME Inductive, NEW c \in Clients, Observe(c)
    PROVE  Inductive'
<1>1. UNCHANGED <<tables, epoch>>
    BY DEF Observe, history
<1>2. Stored'
    BY <1>1, TablesUnchanged DEF Inductive
<1>3. QED
    BY <1>2, QuietStep DEF Inductive, MemoryTyped, Observe, tables, history

LEMMA LogRowKeeps ==
    ASSUME Inductive, NEW c \in Clients, LogRow(c)
    PROVE  Inductive'
<1>1. UNCHANGED <<status, identities, cursor, jobs, memory, history, faults>>
    BY DEF LogRow
<1>2. PICK row \in Rows : log' = Append(log, row)
    <2>1. told[c] \in NameOrNone /\ NoName \in NameOrNone
        BY DEF Inductive, MemoryTyped, NameOrNone
    <2>2. PICK n \in NameOrNone : log' = Append(log, [client |-> c, name |-> n])
        BY <2>1 DEF LogRow
    <2>3. [client |-> c, name |-> n] \in Rows
        BY DEF Rows
    <2>4. QED
        BY <2>2, <2>3
<1>3. /\ log \in Seq(Rows) /\ Len(log) < MaxRows /\ Len(log) \in Nat
      /\ cursor \in 0..Len(log)
    BY DEF Inductive, Stored, TablesTyped, LogRow
<1>4. /\ log' \in Seq(Rows) /\ Len(log') = Len(log) + 1
      /\ \A i \in DOMAIN log' :
            \/ i \in DOMAIN log /\ log'[i] = log[i]
            \/ i = Len(log) + 1
    BY <1>2, <1>3
<1>5. TablesTyped'
    BY <1>1, <1>3, <1>4 DEF Inductive, Stored, TablesTyped
<1>6. UnnamedRowsAreAhead'
    <2>1. ASSUME NEW i \in DOMAIN log', log'[i].name = NoName,
                 identities'[log'[i].client] # NoName
          PROVE  \/ i > cursor'
                 \/ /\ jobs'[log'[i].client].name = identities'[log'[i].client]
                    /\ jobs'[log'[i].client].after < i
                    /\ i <= jobs'[log'[i].client].through
        <3>1. CASE i = Len(log) + 1
            BY <1>1, <1>3, <3>1
        <3>2. CASE i \in DOMAIN log /\ log'[i] = log[i]
            BY <1>1, <2>1, <3>2 DEF Inductive, Stored, UnnamedRowsAreAhead
        <3>3. QED
            BY <1>4, <3>1, <3>2
    <2>2. QED
        BY <2>1 DEF UnnamedRowsAreAhead
<1>7. StatusFitsName' /\ AnswersPostdateFlush'
    BY <1>1 DEF Inductive, Stored, StatusFitsName, AnswersPostdateFlush, Tracked,
                history
<1>8. Stored'
    BY <1>5, <1>6, <1>7 DEF Stored
<1>9. QED
    BY <1>1, <1>8, QuietStep DEF Inductive, MemoryTyped, memory, history

LEMMA TickKeeps ==
    ASSUME Inductive, NEW c \in Clients, Tick(c)
    PROVE  Inductive'
<1>1. /\ status' = [status EXCEPT ![c].due = TRUE]
      /\ UNCHANGED <<identities, log, cursor, jobs, memory, history, faults>>
    BY DEF Tick
<1>2. status \in [Clients -> Statuses]
    BY DEF Inductive, Stored, TablesTyped
<1>3. status'[c] = [status[c] EXCEPT !.due = TRUE]
      /\ \A d \in Clients \ {c} : status'[d] = status[d]
    BY <1>1, <1>2
<1>4. status'[c] \in Statuses
    BY <1>2, <1>3 DEF Statuses
<1>5. status'[c].state = status[c].state /\ status'[c].name = status[c].name
      /\ status'[c].epoch = status[c].epoch
    BY <1>2, <1>3 DEF Statuses
<1>6. status' \in [Clients -> Statuses]
    BY <1>1, <1>2, <1>4
<1>7. StatusFitsName' /\ AnswersPostdateFlush'
    BY <1>1, <1>3, <1>5 DEF Inductive, Stored, StatusFitsName,
                            AnswersPostdateFlush, Tracked, history
<1>8. TablesTyped' /\ UnnamedRowsAreAhead'
    BY <1>1, <1>6 DEF Inductive, Stored, TablesTyped, UnnamedRowsAreAhead
<1>9. Stored'
    BY <1>7, <1>8 DEF Stored
<1>10. QED
    BY <1>1, <1>9, QuietStep DEF Inductive, MemoryTyped, memory, history

LEMMA FinishLookupKeeps ==
    ASSUME Inductive, NEW c \in Clients, FinishLookup(c)
    PROVE  Inductive'
<1>1. UNCHANGED <<tables, observed, phase, todo, told, history, faults>>
    BY DEF FinishLookup
<1>2. futures \in [Clients -> Futures]
    BY DEF Inductive, MemoryTyped
<1>3. PICK s \in {"done", "stale"} :
          /\ futures' = [futures EXCEPT ![c].state = s]
          /\ futures[c].state = IF s = "done" THEN "running" ELSE "cancelled"
    BY DEF FinishLookup
<1>4. futures'[c] = [futures[c] EXCEPT !.state = s]
      /\ \A d \in Clients \ {c} : futures'[d] = futures[d]
    BY <1>2, <1>3
<1>5. /\ futures'[c] \in Futures /\ futures'[c].state = s
      /\ futures'[c].epoch = futures[c].epoch
    BY <1>2, <1>4 DEF Futures
<1>6. futures' \in [Clients -> Futures]
    BY <1>2, <1>3, <1>5
<1>7. \A d \in Clients : futures'[d].state # "none" => futures[d].state # "none"
    BY <1>3, <1>4
<1>8. Cardinality(InFlight') <= 2 * Workers
    BY <1>6, <1>7, FuturesKeepTypes DEF Inductive
<1>9. MemoryTyped'
    BY <1>1, <1>6, <1>8 DEF Inductive, MemoryTyped, history
<1>10. LookupsAreCurrent'
    <2>1. \A d \in Clients :
              futures'[d].state \in {"running", "done"} => futures'[d].epoch = epoch'
        BY <1>1, <1>3, <1>4, <1>5 DEF Inductive, LookupsAreCurrent, history
    <2>2. Done \subseteq Done'
        BY <1>3, <1>4, <1>5 DEF Done, InFlight
    <2>3. QED
        BY <1>1, <2>1, <2>2 DEF Inductive, LookupsAreCurrent, Collecting
<1>11. Stored' /\ NamesAreHandedOn'
    BY <1>1, TablesUnchanged DEF Inductive, NamesAreHandedOn, tables, history
<1>12. QED
    BY <1>9, <1>10, <1>11 DEF Inductive

LEMMA ReloadKeeps ==
    ASSUME Inductive, Reload
    PROVE  Inductive'
<1>1. Stored'
    BY TablesUnchanged DEF Inductive, Reload
<1>2. MemoryTyped'
    BY DEF Inductive, Stored, TablesTyped, MemoryTyped, Reload, InFlight
<1>3. LookupsAreCurrent'
    BY SamePhase DEF Inductive, Reload
<1>4. NamesAreHandedOn'
    BY DEF NamesAreHandedOn, Reload, tables
<1>5. QED
    BY <1>1, <1>2, <1>3, <1>4 DEF Inductive

-----------------------------------------------------------------------------
(* The tick.                                                               *)

LEMMA FaultType ==
    ASSUME MemoryTyped, Fault \/ UNCHANGED faults
    PROVE  faults' \in 0..MaxFaults
BY DEF MemoryTyped, Fault

LEMMA DoneAreClients == Done \subseteq Clients
BY DEF Done, InFlight

LEMMA FlushObservedKeeps ==
    ASSUME Inductive, FlushObserved
    PROVE  Inductive'
<1>1. /\ observed' = {}
      /\ UNCHANGED <<identities, futures, told, unheard, epoch, log, cursor, jobs>>
      /\ Fault \/ UNCHANGED faults
      /\ \/ phase' = "collect" /\ todo' = Done
         \/ phase' = "idle" /\ todo' = {}
      /\ status' = Track(observed) \/ UNCHANGED tables
    BY DEF FlushObserved, Write, Loop, Abort, history, tables
<1>2. CASE status' = Track(observed)
    <2>1. Stored'
        BY <1>1, <1>2, ObservedAreTracked DEF Inductive
    <2>2. QED
        BY <1>1, <2>1, QuietStep, FaultType, DoneAreClients DEF Inductive, Phases
<1>3. CASE UNCHANGED tables
    <2>1. Stored'
        BY <1>1, <1>3, TablesUnchanged DEF Inductive
    <2>2. QED
        BY <1>1, <2>1, QuietStep, FaultType, DoneAreClients DEF Inductive, Phases
<1>4. QED
    BY <1>1, <1>2, <1>3

LEMMA CollectedKeeps ==
    ASSUME Inductive, Collected
    PROVE  Inductive'
<1>1. /\ UNCHANGED <<tables, observed, futures, told, history, faults>>
      /\ phase' \in {"seed", "schedule", "jobs"} /\ todo' \subseteq Clients
    BY DEF Collected, Loop
<1>2. Stored'
    BY <1>1, TablesUnchanged DEF Inductive, history
<1>3. QED
    BY <1>1, <1>2, QuietStep DEF Inductive, MemoryTyped, Phases, tables, history

LEMMA EndTickKeeps ==
    ASSUME Inductive, EndTick
    PROVE  Inductive'
<1>1. /\ UNCHANGED <<tables, observed, futures, told, history, faults>>
      /\ phase' = "idle" /\ todo' = {}
    BY DEF EndTick, Loop
<1>2. Stored'
    BY <1>1, TablesUnchanged DEF Inductive, history
<1>3. QED
    BY <1>1, <1>2, QuietStep DEF Inductive, MemoryTyped, Phases, tables, history

LEMMA SeedKeeps ==
    ASSUME Inductive, Seed
    PROVE  Inductive'
<1>1. UNCHANGED <<observed, futures, told, unheard, epoch>>
    BY DEF Seed, history
<1>2. PICK s :
          /\ \/ UNCHANGED tables
             \/ /\ status' = [c \in Clients |->
                       IF c \notin s THEN status[c]
                       ELSE [state |-> "resolved", name |-> identities[c],
                             due |-> FALSE, epoch |-> epoch]]
                /\ UNCHANGED <<identities, log, cursor, jobs>>
          /\ Fault \/ UNCHANGED faults
          /\ phase' \in {"walk", "idle"} /\ todo' = {}
    BY DEF Seed, Write, Loop, Abort
<1>3. Stored' /\ UNCHANGED identities
    <2>1. CASE UNCHANGED tables
        BY <1>1, <2>1, TablesUnchanged DEF Inductive, tables
    <2>2. CASE ~ UNCHANGED tables
        BY <1>1, <1>2, <2>2, SeedingKeeps DEF Inductive, MemoryTyped
    <2>3. QED
        BY <2>1, <2>2
<1>4. QED
    BY <1>1, <1>2, <1>3, QuietStep, FaultType DEF Inductive, MemoryTyped, Phases

LEMMA WalkKeeps ==
    ASSUME Inductive, Walk
    PROVE  Inductive'
<1>1. UNCHANGED <<observed, futures, told, unheard, epoch>>
    BY DEF Walk, history
<1>2. DEFINE s == {log[i].client : i \in Candidates \cap DOMAIN log}
<1>3. /\ \/ UNCHANGED tables
         \/ /\ status' = Track(s)
            /\ log' = NameRows(log, Candidates, identities)
            /\ cursor' = cursor + Cardinality(Candidates)
            /\ UNCHANGED <<identities, jobs>>
      /\ Fault \/ UNCHANGED faults
      /\ phase' \in {"schedule", "idle"} /\ todo' = {}
    BY DEF Walk, Write, Loop, Abort
<1> HIDE DEF s
<1>4. Stored' /\ UNCHANGED identities
    <2>1. CASE UNCHANGED tables
        BY <1>1, <2>1, TablesUnchanged DEF Inductive, tables
    <2>2. CASE ~ UNCHANGED tables
        BY <1>1, <1>3, <2>2, WalkingKeeps DEF Inductive
    <2>3. QED
        BY <2>1, <2>2
<1>5. QED
    BY <1>1, <1>3, <1>4, QuietStep, FaultType DEF Inductive, MemoryTyped, Phases

LEMMA NameJobKeeps ==
    ASSUME Inductive, NEW c \in Clients, NameJob(c)
    PROVE  Inductive'
<1>1. UNCHANGED <<observed, futures, told, unheard, epoch>>
    BY DEF NameJob, history
<1>2. /\ \/ UNCHANGED tables
         \/ /\ BackfillChunk(c, jobs[c].name, jobs[c].after, jobs[c].through)
            /\ UNCHANGED <<status, identities, cursor>>
      /\ Fault \/ UNCHANGED faults
      /\ phase' \in {"jobs", "idle"} /\ todo' \subseteq todo
    BY DEF NameJob, Write, Loop, Abort
<1>3. Stored' /\ UNCHANGED identities
    <2>1. CASE UNCHANGED tables
        BY <1>1, <2>1, TablesUnchanged DEF Inductive, tables
    <2>2. CASE ~ UNCHANGED tables
        BY <1>1, <1>2, <2>2, ChunkOfJobKeeps DEF Inductive
    <2>3. QED
        BY <2>1, <2>2
<1>4. QED
    BY <1>1, <1>2, <1>3, QuietStep, FaultType DEF Inductive, MemoryTyped, Phases

LEMMA ScheduleKeeps ==
    ASSUME Inductive, Schedule
    PROVE  Inductive'
<1>1. /\ UNCHANGED <<tables, observed, told, history, faults>>
      /\ phase' = "recollect" /\ todo' = Done
    BY DEF Schedule, Loop
<1>2. DEFINE due == {c \in Tracked : status[c].due}
             capacity == 2 * Workers - Cardinality(InFlight)
             started == [NoFuture EXCEPT !.state = "running", !.epoch = epoch]
<1>3. PICK s \in Some(Least(BatchSize, capacity), due) :
          futures' = [c \in Clients |->
                         IF c \in s \ InFlight THEN started ELSE futures[c]]
    BY DEF Schedule
<1>4. started \in Futures /\ started.state = "running" /\ started.epoch = epoch
    BY DEF Inductive, MemoryTyped, NoFuture, Futures
<1>5. due \in SUBSET Clients /\ InFlight \in SUBSET Clients
    BY DEF Tracked, InFlight
<1> HIDE DEF due, started
<1>6. /\ s \in SUBSET due
      /\ Cardinality(s) = Least(Least(BatchSize, capacity), Cardinality(due))
    BY DEF Some
<1>7. Cardinality(s) <= capacity
    <2>1. Cardinality(due) \in Nat /\ capacity \in Int
        BY <1>5, FewInFlight
    <2> HIDE DEF capacity
    <2>2. QED
        BY <1>6, <2>1 DEF Least
<1>8. s \in SUBSET Clients
    BY <1>5, <1>6
<1>9. futures' \in [Clients -> Futures]
    BY <1>3, <1>4 DEF Inductive, MemoryTyped
<1>10. Cardinality(InFlight') <= 2 * Workers
    <2>1. InFlight' \in SUBSET (InFlight \cup s)
        BY <1>3 DEF InFlight
    <2>2. QED
        BY <1>7, <1>8, <2>1, StartedKeepTypes DEF Inductive
<1>11. MemoryTyped'
    BY <1>1, <1>9, <1>10, DoneAreClients DEF Inductive, MemoryTyped, Phases, history
<1>12. LookupsAreCurrent'
    <2>1. \A c \in Clients :
              futures'[c].state \in {"running", "done"} => futures'[c].epoch = epoch'
        BY <1>1, <1>3, <1>4 DEF Inductive, LookupsAreCurrent, history
    <2>2. Done \subseteq Done'
        BY <1>3 DEF Done, InFlight
    <2>3. QED
        BY <1>1, <2>1, <2>2 DEF LookupsAreCurrent
<1>13. Stored' /\ NamesAreHandedOn'
    BY <1>1, TablesUnchanged DEF Inductive, NamesAreHandedOn, tables, history
<1>14. QED
    BY <1>11, <1>12, <1>13 DEF Inductive

\* What an answer makes of the tables.
LEMMA PersistKeeps ==
    ASSUME Stored, NEW c \in Clients, NEW a \in Answers, Persist(c, a),
           UNCHANGED epoch, futures[c].epoch = epoch, epoch \in 0..MaxFlushes
    PROVE  /\ Stored'
           /\ \/ /\ a.kind = "resolved" /\ a.name \in Names
                 /\ identities' = [identities EXCEPT ![c] = a.name]
              \/ /\ a.kind = "no_ptr" /\ a.name = NoName
                 /\ identities' = [identities EXCEPT ![c] = a.name]
              \/ a.kind = "retry" /\ UNCHANGED identities
<1>1. CASE a.kind = "resolved"
    <2>1. a.name \in Names
        BY <1>1 DEF Answers
    <2>2. PersistResolved(c, a.name)
        BY <1>1 DEF Persist
    <2>3. QED
        BY <1>1, <2>1, <2>2, ResolvedKeeps
<1>2. CASE a.kind = "no_ptr"
    <2>1. a.name = NoName
        BY <1>2 DEF Answers
    <2>2. PersistNoPtr(c)
        BY <1>2 DEF Persist
    <2>3. QED
        BY <1>2, <2>1, <2>2, NoPtrKeeps
<1>3. CASE a.kind = "retry"
    <2>1. PersistRetry(c)
        BY <1>3 DEF Persist
    <2>2. QED
        BY <1>3, <2>1, RetryKeeps
<1>4. a.kind \in {"resolved", "no_ptr", "retry"}
    BY DEF Answers
<1>5. QED
    BY <1>1, <1>2, <1>3, <1>4

\* The name that was stored is handed on, or is the one that was handed on.
LEMMA HandingOn ==
    ASSUME Stored, NamesAreHandedOn, told \in [Clients -> NameOrNone],
           NEW c \in Clients, NEW a \in Answers, Persist(c, a), HandOn(c, a),
           UNCHANGED epoch, futures[c].epoch = epoch, epoch \in 0..MaxFlushes
    PROVE  NamesAreHandedOn' /\ told' \in [Clients -> NameOrNone]
           /\ unheard' \subseteq unheard
<1>1. identities \in [Clients -> NameOrNone] /\ NoName \notin Names
    BY DEF Stored, TablesTyped
<1>2. CASE Updates(c, a)
    <2>1. told' = [told EXCEPT ![c] = a.name] /\ unheard' = unheard \ {c}
        BY <1>2 DEF HandOn
    <2>2. /\ a.name \in NameOrNone
          /\ identities' = [identities EXCEPT ![c] = a.name]
        BY <1>2, PersistKeeps DEF Updates, NameOrNone
    <2>3. \A d \in Clients \ unheard' : told'[d] = identities'[d]
        BY <1>1, <2>1, <2>2 DEF NamesAreHandedOn
    <2>4. QED
        BY <2>1, <2>2, <2>3 DEF NamesAreHandedOn
<1>3. CASE ~ Updates(c, a)
    <2>1. UNCHANGED <<told, unheard>>
        BY <1>3 DEF HandOn
    <2>2. \/ UNCHANGED identities
          \/ /\ a.name \in Names /\ a.name = status[c].name
             /\ identities' = [identities EXCEPT ![c] = a.name]
        BY <1>3, PersistKeeps DEF Updates
    <2>3. UNCHANGED identities
        BY <1>1, <2>2 DEF Stored, StatusFitsName
    <2>4. QED
        BY <2>1, <2>3 DEF NamesAreHandedOn
<1>4. QED
    BY <1>2, <1>3

LEMMA CollectKeeps ==
    ASSUME Inductive, NEW c \in Clients, Collect(c)
    PROVE  Inductive'
<1>1. /\ Collecting /\ c \in todo /\ UNCHANGED <<observed, epoch>>
      /\ futures' = [futures EXCEPT ![c] = NoFuture]
    BY DEF Collect
<1>2. futures \in [Clients -> Futures] /\ epoch \in 0..MaxFlushes
      /\ told \in [Clients -> NameOrNone]
    BY DEF Inductive, MemoryTyped
<1>3. futures'[c] = NoFuture /\ \A d \in Clients \ {c} : futures'[d] = futures[d]
    BY <1>1, <1>2
<1>4. NoFuture.state = "none" /\ NoFuture \in Futures
    BY FixedTypes DEF NoFuture
<1>5. futures' \in [Clients -> Futures] /\ Cardinality(InFlight') <= 2 * Workers
    <2>1. futures' \in [Clients -> Futures]
        BY <1>1, <1>2, <1>4
    <2>2. QED
        BY <1>3, <1>4, <2>1, FuturesKeepTypes DEF Inductive
<1>6. c \in Done
    BY <1>1 DEF Inductive, LookupsAreCurrent
<1>7. /\ Fault \/ UNCHANGED faults
      /\ \/ todo' = todo \ {c} /\ UNCHANGED phase
         \/ phase' = "idle" /\ todo' = {}
    BY DEF Collect, Abort
<1>8. LookupsAreCurrent'
    <2>1. \A d \in Clients :
              futures'[d].state \in {"running", "done"} => futures'[d].epoch = epoch'
        BY <1>1, <1>3, <1>4 DEF Inductive, LookupsAreCurrent
    <2>2. Done \ {c} \subseteq Done'
        BY <1>3 DEF Done, InFlight
    <2>3. Collecting' => todo' \subseteq Done'
        BY <1>1, <1>7, <2>2 DEF Inductive, LookupsAreCurrent, Collecting
    <2>4. QED
        BY <2>1, <2>3 DEF LookupsAreCurrent
<1>9. /\ Stored' /\ NamesAreHandedOn'
      /\ told' \in [Clients -> NameOrNone] /\ unheard' \subseteq Clients
    <2>1. CASE UNCHANGED <<tables, told, unheard>>
        <3>1. Stored'
            BY <1>1, <2>1, TablesUnchanged DEF Inductive
        <3>2. NamesAreHandedOn'
            BY <2>1 DEF Inductive, NamesAreHandedOn, tables
        <3>3. QED
            BY <1>2, <2>1, <3>1, <3>2 DEF Inductive, MemoryTyped
    <2>2. CASE ~ UNCHANGED <<tables, told, unheard>>
        <3>1. ~ Discards(c)
            BY <2>2 DEF Collect
        <3>2. futures[c].epoch = epoch
            BY <1>6, <3>1 DEF Inductive, LookupsAreCurrent, Done, Discards
        <3>3. PICK a \in Answers :
                  /\ Persist(c, a)
                  /\ \/ HandOn(c, a)
                     \/ /\ unheard' = IF identities'[c] # identities[c]
                                      THEN unheard \cup {c} ELSE unheard
                        /\ UNCHANGED told
            BY <2>2, <3>1 DEF Collect
        <3>4. Stored'
            BY <1>1, <1>2, <3>2, <3>3, PersistKeeps DEF Inductive
        <3>5. CASE HandOn(c, a)
            BY <1>1, <1>2, <3>2, <3>3, <3>4, <3>5, HandingOn
               DEF Inductive, MemoryTyped
        <3>6. CASE ~ HandOn(c, a)
            <4>1. \A d \in Clients \ {c} : identities'[d] = identities[d]
                BY <1>1, <1>2, <3>2, <3>3, PersistKeeps
                   DEF Inductive, Stored, TablesTyped
            <4>2. /\ unheard' \subseteq Clients /\ unheard \subseteq unheard'
                  /\ c \notin unheard' => identities'[c] = identities[c]
                BY <3>3, <3>6 DEF Inductive, MemoryTyped
            <4>3. \A d \in Clients \ unheard' : told'[d] = identities'[d]
                BY <3>3, <3>6, <4>1, <4>2 DEF Inductive, NamesAreHandedOn
            <4>4. NamesAreHandedOn'
                BY <4>3 DEF NamesAreHandedOn
            <4>5. UNCHANGED told
                BY <3>3, <3>6
            <4>6. QED
                BY <1>2, <3>4, <4>2, <4>4, <4>5
        <3>7. QED
            BY <3>5, <3>6
    <2>3. QED
        BY <2>1, <2>2
<1>10. MemoryTyped'
    <2>1. faults' \in 0..MaxFaults
        BY <1>7, FaultType DEF Inductive
    <2>2. phase' \in Phases /\ todo' \subseteq Clients
        BY <1>7 DEF Inductive, MemoryTyped, Phases
    <2>3. QED
        BY <1>1, <1>5, <1>9, <2>1, <2>2 DEF Inductive, MemoryTyped
<1>11. QED
    BY <1>8, <1>9, <1>10 DEF Inductive

-----------------------------------------------------------------------------
(* Flushes and restarts.                                                   *)

LEMMA FlushKeeps ==
    ASSUME Inductive, Flush
    PROVE  Inductive'
<1>1. /\ phase = "idle" /\ epoch < MaxFlushes /\ ClearNames /\ epoch' = epoch + 1
      /\ UNCHANGED <<observed, phase, todo, faults>>
    BY DEF Flush
<1>2. Stored' /\ \A c \in Clients : identities'[c] = NoName
    BY <1>1, ClearingKeeps DEF Inductive
<1>3. epoch' \in 0..MaxFlushes
    BY <1>1 DEF Inductive, MemoryTyped
<1>4. ASSUME NEW c \in Clients
      PROVE  /\ futures'[c] \in Futures
             /\ futures'[c].state \notin {"running", "done"}
             /\ futures'[c].state # "none" => futures[c].state # "none"
    <2>1. futures[c] \in Futures
        BY DEF Inductive, MemoryTyped
    <2>2. CASE futures[c].state = "running"
        <3>1. futures'[c] = [futures[c] EXCEPT !.state = "cancelled"]
            BY <2>2 DEF Flush
        <3>2. QED
            BY <2>1, <2>2, <3>1 DEF Futures
    <2>3. CASE futures[c].state = "done"
        <3>1. futures'[c] = [futures[c] EXCEPT !.state = "stale"]
            BY <2>3 DEF Flush
        <3>2. QED
            BY <2>1, <2>3, <3>1 DEF Futures
    <2>4. CASE futures[c].state \notin {"running", "done"}
        <3>1. futures'[c] = futures[c]
            BY <2>4 DEF Flush
        <3>2. QED
            BY <2>1, <2>4, <3>1
    <2>5. QED
        BY <2>2, <2>3, <2>4
<1>5. futures' \in [Clients -> Futures]
    BY <1>4 DEF Flush
<1>6. Cardinality(InFlight') <= 2 * Workers
    BY <1>4, <1>5, FuturesKeepTypes DEF Inductive
<1>7. told' \in [Clients -> NameOrNone] /\ unheard' \subseteq Clients
    BY DEF Inductive, MemoryTyped, Flush, NameOrNone
<1>8. MemoryTyped'
    BY <1>1, <1>3, <1>5, <1>6, <1>7 DEF Inductive, MemoryTyped
<1>9. LookupsAreCurrent'
    BY <1>1, <1>4 DEF LookupsAreCurrent, Collecting
<1>10. NamesAreHandedOn'
    <2>1. ASSUME NEW c \in Clients, c \notin unheard'
          PROVE  told'[c] = NoName
        <3>1. told'[c] = IF c \in NamedClients THEN NoName ELSE told[c]
            BY DEF Flush
        <3>2. c \notin NamedClients => told[c] = identities[c] /\ identities[c] = NoName
            BY <2>1 DEF Flush, Inductive, NamesAreHandedOn, NamedClients
        <3>3. QED
            BY <3>1, <3>2
    <2>2. QED
        BY <1>2, <2>1 DEF NamesAreHandedOn
<1>11. QED
    BY <1>2, <1>8, <1>9, <1>10 DEF Inductive

LEMMA FlushFailsKeeps ==
    ASSUME Inductive, FlushFails
    PROVE  Inductive'
<1>1. UNCHANGED <<memory, epoch>> /\ faults' \in 0..MaxFaults
    BY FaultType DEF FlushFails, Inductive
<1>2. LookupsAreCurrent'
    BY <1>1, SamePhase DEF Inductive, memory
<1>3. CASE UNCHANGED <<tables, unheard>>
    <2>1. Stored' /\ NamesAreHandedOn'
        BY <1>1, <1>3, TablesUnchanged DEF Inductive, NamesAreHandedOn, tables, memory
    <2>2. MemoryTyped'
        BY <1>1, <1>3 DEF Inductive, MemoryTyped, memory, InFlight
    <2>3. QED
        BY <1>2, <2>1, <2>2 DEF Inductive
<1>4. CASE ClearNames /\ unheard' = unheard \cup NamedClients
    <2>1. Stored' /\ \A c \in Clients : identities'[c] = NoName
        BY <1>4, ClearingKeeps DEF Inductive
    <2>2. NamesAreHandedOn'
        BY <1>1, <1>4, <2>1 DEF Inductive, NamesAreHandedOn, NamedClients, memory
    <2>3. MemoryTyped'
        BY <1>1, <1>4 DEF Inductive, MemoryTyped, NamedClients, memory, InFlight
    <2>4. QED
        BY <1>2, <2>1, <2>2, <2>3 DEF Inductive
<1>5. QED
    BY <1>3, <1>4 DEF FlushFails

\* Without a lookup.
LEMMA NothingInFlight ==
    ASSUME futures = [c \in Clients |-> NoFuture]
    PROVE  /\ futures \in [Clients -> Futures]
           /\ Cardinality(InFlight) <= 2 * Workers
           /\ \A c \in Clients : futures[c].state = "none"
<1>1. \A c \in Clients : futures[c].state = "none"
    BY DEF NoFuture
<1>2. InFlight = {}
    BY <1>1 DEF InFlight
<1>3. Cardinality(InFlight) = 0
    BY <1>2, FS_EmptySet
<1>4. QED
    BY <1>1, <1>3, FixedTypes

LEMMA RestartKeeps ==
    ASSUME Inductive, Restart
    PROVE  Inductive'
<1>1. /\ observed' = {} /\ phase' = "idle" /\ todo' = {}
      /\ told' = identities /\ unheard' = {} /\ UNCHANGED <<tables, epoch>>
      /\ futures' = [c \in Clients |-> NoFuture] /\ faults' \in 0..MaxFaults
    BY FaultType DEF Restart, Abort, Inductive
<1>2. /\ futures' \in [Clients -> Futures]
      /\ Cardinality(InFlight') <= 2 * Workers
      /\ \A c \in Clients : futures'[c].state = "none"
    <2>1. \A c \in Clients : futures'[c] = NoFuture /\ futures'[c].state = "none"
        BY <1>1 DEF NoFuture
    <2>2. futures' \in [Clients -> Futures]
        BY <1>1, FixedTypes
    <2>3. QED
        BY <2>1, <2>2, FuturesKeepTypes DEF Inductive
<1>3. Stored'
    BY <1>1, TablesUnchanged DEF Inductive
<1>4. MemoryTyped'
    BY <1>1, <1>2 DEF Inductive, Stored, TablesTyped, MemoryTyped, Phases
<1>5. LookupsAreCurrent'
    BY <1>1, <1>2 DEF LookupsAreCurrent, Collecting
<1>6. NamesAreHandedOn'
    BY <1>1 DEF NamesAreHandedOn, tables
<1>7. QED
    BY <1>3, <1>4, <1>5, <1>6 DEF Inductive

LEMMA InitIsInductive == Init => Inductive
<1> SUFFICES ASSUME Init
             PROVE  Inductive
    OBVIOUS
<1>1. /\ status = [c \in Clients |-> Untracked]
      /\ identities \in [Clients -> NameOrNone] /\ log = <<>> /\ cursor = 0
      /\ jobs = [c \in Clients |-> NoJob] /\ observed = {}
      /\ futures = [c \in Clients |-> NoFuture] /\ phase = "idle" /\ todo = {}
      /\ told = identities /\ unheard = {} /\ epoch = 0 /\ faults = 0
    BY DEF Init
<1>2. NoJob \in Jobs
    BY DEF NoJob, Jobs, NameOrNone
<1>3. \A c \in Clients : status[c].state = "untracked" /\ status[c].name = NoName
    BY <1>1 DEF Untracked
<1>4. TablesTyped
    <2>1. log \in Seq(Rows) /\ Len(log) = 0
        BY <1>1
    <2>2. QED
        BY <1>1, <1>2, <2>1, FixedTypes DEF TablesTyped
<1>5. Stored
    BY <1>1, <1>3, <1>4 DEF Stored, StatusFitsName, AnswersPostdateFlush, Tracked,
                            UnnamedRowsAreAhead
<1>6. MemoryTyped
    <2>1. 0 \in 0..MaxFlushes /\ 0 \in 0..MaxFaults
        OBVIOUS
    <2>2. QED
        BY <1>1, <2>1, NothingInFlight DEF MemoryTyped, Phases
<1>7. LookupsAreCurrent /\ NamesAreHandedOn
    BY <1>1, NothingInFlight DEF LookupsAreCurrent, Collecting, NamesAreHandedOn
<1>8. QED
    BY <1>5, <1>6, <1>7 DEF Inductive

\* Every step keeps the invariant.
LEMMA NextKeeps == Inductive /\ [Next]_vars => Inductive'
<1> SUFFICES ASSUME Inductive, [Next]_vars
             PROVE  Inductive'
    OBVIOUS
<1>1. CASE UNCHANGED vars
    <2>1. UNCHANGED <<tables, memory, history, faults>>
        BY <1>1 DEF vars
    <2>2. Stored'
        BY <2>1, TablesUnchanged DEF Inductive, history
    <2>3. QED
        BY <2>1, <2>2, QuietStep DEF Inductive, MemoryTyped, tables, memory, history
<1>2. CASE TickStep
    <2>1. ASSUME NEW c \in Clients, Collect(c) \/ NameJob(c)
          PROVE  Inductive'
        BY <2>1, CollectKeeps, NameJobKeeps
    <2>2. CASE FlushObserved \/ Collected \/ Seed \/ Walk \/ Schedule \/ EndTick
        BY <2>2, FlushObservedKeeps, CollectedKeeps, SeedKeeps, WalkKeeps,
           ScheduleKeeps, EndTickKeeps
    <2>3. QED
        BY <1>2, <2>1, <2>2 DEF TickStep
<1>3. ASSUME NEW c \in Clients, Observe(c) \/ LogRow(c) \/ Tick(c) \/ FinishLookup(c)
      PROVE  Inductive'
    BY <1>3, ObserveKeeps, LogRowKeeps, TickKeeps, FinishLookupKeeps
<1>4. CASE Reload \/ Flush \/ FlushFails \/ Restart
    BY <1>4, ReloadKeeps, FlushKeeps, FlushFailsKeeps, RestartKeeps
<1>5. QED
    BY <1>1, <1>2, <1>3, <1>4 DEF Next

-----------------------------------------------------------------------------
(* Theorems.                                                               *)

\* The tables, the lookups and the names that were handed on agree in every
\* reachable state as Inductive says: what the manager relies on at each step
\* of a tick, whatever falls between.
THEOREM Invariance == Spec => []Inductive
<1>1. QED
    BY InitIsInductive, NextKeeps, PTL DEF Spec

\* The tables and the fields of PtrResolutionManager keep their types, and no
\* more lookups are in flight than two for every worker.
THEOREM TypeCorrect == Spec => []TypeOK
<1>1. Inductive => TypeOK
    BY DEF Inductive, Stored, TablesTyped, MemoryTyped, TypeOK, Rows, Statuses,
           Jobs, Futures
<1>2. QED
    BY <1>1, Invariance, PTL

\* flush_cache() is final: after an acknowledged flush no status row holds the
\* answer of a lookup that began before it.
THEOREM FlushesAreFinal == Spec => []AnswersPostdateFlush
<1>1. Inductive => AnswersPostdateFlush
    BY DEF Inductive, Stored
<1>2. QED
    BY <1>1, Invariance, PTL

\* A stored name is on its way to the policy, and to every row of the query log
\* that was written without one, whatever transaction fails.
THEOREM NamesAreOnTheirWay == Spec => []NamesArrive
<1>1. Inductive => NamesArrive
    BY DEF Inductive, Stored, NamesArrive
<1>2. QED
    BY <1>1, Invariance, PTL
=============================================================================
