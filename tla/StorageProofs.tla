---------------------------- MODULE StorageProofs ----------------------------
(***************************************************************************)
(* Theorems about the storage (MCStorage) and the API keys (ApiKeys), for  *)
(* every finite set of threads, every size of the pool and every number of *)
(* rows, minutes, transactions, keys, handlers, lists, domains and         *)
(* targets.  The slots of the pool are conserved and none of its           *)
(* connections carries the work of another thread; while the application   *)
(* runs, the retained counters are those of the log, and a transaction     *)
(* that deadlocks has committed a round before; one key stays enabled, the *)
(* loaded keys and the cached answers follow the enabled ones, and what is *)
(* accepted was loaded; lists keep their domains and right counts;         *)
(* upgrades of a database keep what its users have put in it, and          *)
(* migrations copy one state of their source.                              *)
(***************************************************************************)
EXTENDS MCStorage, ApiKeys, FiniteSetTheorems, SequenceTheorems, TLAPS

-----------------------------------------------------------------------------
(* The pool of connections (MySQLPool).                                    *)

PoolWithConnection == {"ping", "use", "release", "store"}
PoolThreadStates ==
    [pc : {"idle", "wait", "take", "connect", "free"} \cup PoolWithConnection,
     con : PoolConnections \cup {Pool!None}]

PoolTyped ==
    /\ slots \in Nat /\ pool \in Seq(PoolConnections)
    /\ open \subseteq PoolConnections
    /\ pending \in [PoolConnections -> PoolThreads \cup {Pool!None}]
    /\ thread \in [PoolThreads -> PoolThreadStates]
    /\ \A t \in PoolThreads : thread[t].con # Pool!None <=> thread[t].pc \in PoolWithConnection

PoolHolders == {t \in PoolThreads : Pool!HoldsSlot(t)}

\* The threads that have a connection or have found the pool empty.
PoolBusy == {t \in PoolThreads : thread[t].pc \in {"connect"} \cup PoolWithConnection}

\* A thread that opens a connection has found none: all that were open belonged
\* to holders of slots, and what they put back since, they do not have.
PoolHasRoom == Len(pool) + Cardinality(PoolBusy) <= PoolSize

\* Each open connection is in one place.
PoolEachHasOnePlace ==
    /\ \A i, j \in DOMAIN pool : pool[i] = pool[j] => i = j
    /\ \A i \in DOMAIN pool, t \in PoolThreads : pool[i] # thread[t].con
    /\ \A t, u \in PoolThreads : t # u /\ thread[t].con # Pool!None =>
          thread[t].con # thread[u].con
    /\ \A c \in PoolConnections : c \in open <=>
          \/ \E i \in DOMAIN pool : pool[i] = c
          \/ \E t \in PoolThreads : thread[t].con = c

\* Where there can be no uncommitted work.
PoolClosedAndIdleAreClean ==
    /\ \A c \in PoolConnections \ open : pending[c] = Pool!None
    /\ \A i \in DOMAIN pool : pending[pool[i]] = Pool!None
    /\ \A t \in PoolThreads :
          /\ thread[t].pc \in {"ping", "store"} => pending[thread[t].con] = Pool!None
          /\ thread[t].con # Pool!None => pending[thread[t].con] \in {Pool!None, t}

PoolInductive ==
    /\ PoolTyped /\ Pool!SlotsConserved /\ PoolHasRoom
    /\ PoolEachHasOnePlace /\ PoolClosedAndIdleAreClean

LEMMA PoolCount == ASSUME NEW S PROVE Pool!Cardinality(S) = Cardinality(S)
BY DEF Cardinality, Pool!Cardinality

-----------------------------------------------------------------------------
(* One thread moves.                                                       *)

\* A thread's move as an assignment to its whole state.
LEMMA PoolMoveOfPc ==
    ASSUME PoolTyped, NEW t \in PoolThreads, NEW pc, Pool!To(t, pc)
    PROVE  thread' = [thread EXCEPT ![t] = [pc |-> pc, con |-> thread[t].con]]
<1>1. thread \in [PoolThreads -> PoolThreadStates]
  BY DEF PoolTyped
<1>2. thread[t] = [pc |-> thread[t].pc, con |-> thread[t].con]
  BY <1>1 DEF PoolThreadStates
<1>3. [thread[t] EXCEPT !.pc = pc] = [pc |-> pc, con |-> thread[t].con]
  BY <1>2
<1> QED BY <1>1, <1>3 DEF Pool!To

\* What a move of one thread means for the numbers and for the others.
LEMMA PoolOneMoves ==
    ASSUME PoolTyped, NEW t \in PoolThreads, NEW r \in PoolThreadStates,
           thread' = [thread EXCEPT ![t] = r]
    PROVE  /\ thread' \in [PoolThreads -> PoolThreadStates]
           /\ thread'[t] = r /\ \A u \in PoolThreads \ {t} : thread'[u] = thread[u]
           /\ IsFiniteSet(PoolHolders) /\ Cardinality(PoolHolders) \in Nat
           /\ IsFiniteSet(PoolBusy) /\ Cardinality(PoolBusy) \in Nat
           /\ Cardinality(PoolHolders') = Cardinality(PoolHolders)
                - (IF t \in PoolHolders THEN 1 ELSE 0)
                + (IF r.pc \notin {"idle", "wait"} THEN 1 ELSE 0)
           /\ Cardinality(PoolBusy') = Cardinality(PoolBusy)
                - (IF t \in PoolBusy THEN 1 ELSE 0)
                + (IF r.pc \in {"connect"} \cup PoolWithConnection THEN 1 ELSE 0)
<1>1. thread \in [PoolThreads -> PoolThreadStates]
  BY DEF PoolTyped
<1>2. /\ thread' \in [PoolThreads -> PoolThreadStates] /\ thread'[t] = r
      /\ \A u \in PoolThreads \ {t} : thread'[u] = thread[u]
  BY <1>1
<1>3. IsFiniteSet(PoolHolders) /\ IsFiniteSet(PoolBusy)
  <2>1. PoolHolders \subseteq PoolThreads /\ PoolBusy \subseteq PoolThreads
    BY DEF PoolHolders, PoolBusy
  <2> QED BY <2>1, FS_Subset, PoolConstants
<1>4. Cardinality(PoolHolders) \in Nat /\ Cardinality(PoolBusy) \in Nat
  BY <1>3, FS_CardinalityType
<1>5. \A S : IsFiniteSet(S) =>
         /\ IsFiniteSet(S \ {t}) /\ Cardinality(S \ {t}) \in Nat
         /\ Cardinality(S \ {t}) = Cardinality(S) - (IF t \in S THEN 1 ELSE 0)
         /\ Cardinality((S \ {t}) \cup {t}) = Cardinality(S \ {t}) + 1
  <2> TAKE S
  <2> HAVE IsFiniteSet(S)
  <2>1. /\ IsFiniteSet(S \ {t})
        /\ Cardinality(S \ {t}) = IF t \in S THEN Cardinality(S) - 1
                                             ELSE Cardinality(S)
    BY FS_RemoveElement
  <2>2. Cardinality((S \ {t}) \cup {t}) = Cardinality(S \ {t}) + 1
    <3>1. t \notin S \ {t}
      OBVIOUS
    <3> QED BY <2>1, <3>1, FS_AddElement
  <2>3. Cardinality(S \ {t}) \in Nat /\ Cardinality(S) \in Nat
    BY <2>1, FS_CardinalityType
  <2> QED BY <2>1, <2>2, <2>3
<1>6. PoolHolders' = IF r.pc \notin {"idle", "wait"} THEN (PoolHolders \ {t}) \cup {t}
                                               ELSE PoolHolders \ {t}
  BY <1>2 DEF PoolHolders, Pool!HoldsSlot
<1>7. PoolBusy' = IF r.pc \in {"connect"} \cup PoolWithConnection
              THEN (PoolBusy \ {t}) \cup {t} ELSE PoolBusy \ {t}
  BY <1>2 DEF PoolBusy
<1>8. Cardinality(PoolHolders') = Cardinality(PoolHolders)
                - (IF t \in PoolHolders THEN 1 ELSE 0)
                + (IF r.pc \notin {"idle", "wait"} THEN 1 ELSE 0)
  <2>1. /\ Cardinality(PoolHolders \ {t}) \in Nat
        /\ Cardinality(PoolHolders \ {t})
             = Cardinality(PoolHolders) - (IF t \in PoolHolders THEN 1 ELSE 0)
        /\ Cardinality((PoolHolders \ {t}) \cup {t}) = Cardinality(PoolHolders \ {t}) + 1
    BY <1>3, <1>5
  <2> QED BY <2>1, <1>4, <1>6
<1>9. Cardinality(PoolBusy') = Cardinality(PoolBusy)
                - (IF t \in PoolBusy THEN 1 ELSE 0)
                + (IF r.pc \in {"connect"} \cup PoolWithConnection THEN 1 ELSE 0)
  <2>1. /\ Cardinality(PoolBusy \ {t}) \in Nat
        /\ Cardinality(PoolBusy \ {t})
             = Cardinality(PoolBusy) - (IF t \in PoolBusy THEN 1 ELSE 0)
        /\ Cardinality((PoolBusy \ {t}) \cup {t}) = Cardinality(PoolBusy \ {t}) + 1
    BY <1>3, <1>5
  <2> QED BY <2>1, <1>4, <1>7
<1> QED BY <1>2, <1>3, <1>4, <1>8, <1>9

LEMMA PoolIsTyped ==
    ASSUME PoolTyped
    PROVE  /\ pool \in Seq(PoolConnections) /\ Len(pool) \in Nat
           /\ DOMAIN pool = 1..Len(pool)
           /\ \A i \in DOMAIN pool : pool[i] \in PoolConnections
BY LenProperties, ElementOfSeq DEF PoolTyped

-----------------------------------------------------------------------------
(* The forms that the moves have.                                          *)

\* A thread without a connection moves on, and gets a slot or gives one back.
LEMMA PoolMovesWithout ==
    ASSUME PoolInductive, NEW t \in PoolThreads,
           NEW pc \in {"idle", "wait", "take", "connect", "free"},
           thread[t].pc \notin PoolWithConnection,
           thread' = [thread EXCEPT ![t] = [pc |-> pc, con |-> Pool!None]],
           UNCHANGED <<pool, Pool!wire>>, slots' \in Nat,
           slots' = slots + (IF Pool!HoldsSlot(t) THEN 1 ELSE 0)
                          - (IF pc \notin {"idle", "wait"} THEN 1 ELSE 0),
           pc = "connect" => pool = <<>>
    PROVE  PoolInductive'
<1> DEFINE r == [pc |-> pc, con |-> Pool!None]
<1>1. PoolTyped
  BY DEF PoolInductive
<1>2. r \in PoolThreadStates /\ r.pc = pc /\ r.con = Pool!None /\ r.pc \notin PoolWithConnection
  BY DEF PoolThreadStates, PoolWithConnection
<1>3. thread' = [thread EXCEPT ![t] = r]
  OBVIOUS
<1> HIDE DEF r
<1>4. /\ thread' \in [PoolThreads -> PoolThreadStates]
      /\ thread'[t] = r /\ \A u \in PoolThreads \ {t} : thread'[u] = thread[u]
      /\ Cardinality(PoolHolders) \in Nat /\ Cardinality(PoolBusy) \in Nat
      /\ Cardinality(PoolHolders') = Cardinality(PoolHolders)
           - (IF t \in PoolHolders THEN 1 ELSE 0)
           + (IF r.pc \notin {"idle", "wait"} THEN 1 ELSE 0)
      /\ Cardinality(PoolBusy') = Cardinality(PoolBusy)
           - (IF t \in PoolBusy THEN 1 ELSE 0)
           + (IF r.pc \in {"connect"} \cup PoolWithConnection THEN 1 ELSE 0)
  BY <1>1, <1>2, <1>3, PoolOneMoves
<1>5. \A u \in PoolThreads : thread'[u].con = thread[u].con
  BY <1>1, <1>2, <1>4 DEF PoolTyped
<1>6. \A u \in PoolThreads : thread'[u].pc \in PoolWithConnection =>
         u # t /\ thread'[u] = thread[u]
  BY <1>2, <1>4
<1>7. PoolTyped'
  <2>1. UNCHANGED <<open, pending, pool>>
    BY DEF Pool!wire
  <2>2. \A u \in PoolThreads : thread'[u].con # Pool!None <=> thread'[u].pc \in PoolWithConnection
    BY <1>1, <1>2, <1>4 DEF PoolTyped
  <2> QED BY <2>1, <2>2, <1>1, <1>4 DEF PoolTyped
<1>8. Pool!SlotsConserved'
  <2>1. t \in PoolHolders <=> Pool!HoldsSlot(t)
    BY DEF PoolHolders
  <2>2. slots + Cardinality(PoolHolders) = PoolSize
    BY PoolCount DEF PoolInductive, Pool!SlotsConserved, PoolHolders
  <2>3. slots' + Cardinality(PoolHolders') = PoolSize
    <3>1. slots \in Nat
      BY <1>1 DEF PoolTyped
    <3>2. /\ Cardinality(PoolHolders) \in Nat
          /\ Cardinality(PoolHolders') = Cardinality(PoolHolders)
               - (IF Pool!HoldsSlot(t) THEN 1 ELSE 0)
               + (IF pc \notin {"idle", "wait"} THEN 1 ELSE 0)
      BY <2>1, <1>2, <1>4
    <3> QED BY <3>1, <3>2, <2>2
  <2> QED BY <2>3, PoolCount DEF Pool!SlotsConserved, PoolHolders
<1>9. PoolHasRoom'
  <2>1. CASE pc = "connect"
    <3>1. Len(pool') = 0
      BY <2>1, EmptySeq
    <3>2. PoolBusy' \subseteq PoolHolders' /\ PoolHolders' \subseteq PoolThreads
      BY DEF PoolBusy, PoolHolders, Pool!HoldsSlot, PoolWithConnection
    <3>3. IsFiniteSet(PoolHolders')
      BY <3>2, FS_Subset, PoolConstants
    <3>4. Cardinality(PoolBusy') <= Cardinality(PoolHolders')
      BY <3>2, <3>3, FS_Subset
    <3>5. IsFiniteSet(PoolBusy') /\ Cardinality(PoolBusy') \in Nat /\ Cardinality(PoolHolders') \in Nat
      BY <3>2, <3>3, FS_Subset, FS_CardinalityType
    <3>6. slots' + Cardinality(PoolHolders') = PoolSize
      BY <1>8, PoolCount DEF Pool!SlotsConserved, PoolHolders
    <3> QED BY <3>1, <3>4, <3>5, <3>6, PoolConstants DEF PoolHasRoom
  <2>2. CASE pc # "connect"
    <3>1. Cardinality(PoolBusy') <= Cardinality(PoolBusy)
      BY <2>2, <1>2, <1>4
    <3>2. Len(pool') = Len(pool) /\ Len(pool) \in Nat
      BY <1>1, PoolIsTyped
    <3>3. Cardinality(PoolBusy') \in Int
      BY <1>4
    <3> QED BY <3>1, <3>2, <3>3, <1>4, PoolConstants DEF PoolInductive, PoolHasRoom
  <2> QED BY <2>1, <2>2
<1>10. PoolEachHasOnePlace'
  BY <1>5 DEF PoolInductive, PoolEachHasOnePlace, Pool!wire
<1>11. PoolClosedAndIdleAreClean'
  <2>1. PoolClosedAndIdleAreClean
    BY DEF PoolInductive
  <2>2. \A u \in PoolThreads : thread'[u].pc \in {"ping", "store"} =>
           thread'[u].pc \in PoolWithConnection
    BY DEF PoolWithConnection
  <2>3. \A u \in PoolThreads : thread'[u].pc \in {"ping", "store"} =>
           thread'[u] = thread[u]
    BY <1>6, <2>2
  <2> QED BY <2>1, <2>3, <1>5 DEF PoolClosedAndIdleAreClean, Pool!wire
<1> QED BY <1>7, <1>8, <1>9, <1>10, <1>11 DEF PoolInductive

\* A thread goes on with its connection, whose work is its own or gone.
LEMMA PoolMovesWith ==
    ASSUME PoolInductive, NEW t \in PoolThreads, NEW pc \in PoolWithConnection,
           thread[t].pc \in PoolWithConnection,
           thread' = [thread EXCEPT ![t] = [pc |-> pc, con |-> thread[t].con]],
           NEW left \in {Pool!None, t}, pc \in {"ping", "store"} => left = Pool!None,
           pending' = [pending EXCEPT ![thread[t].con] = left],
           UNCHANGED <<slots, pool, open>>
    PROVE  PoolInductive'
<1> DEFINE r == [pc |-> pc, con |-> thread[t].con]
<1>1. PoolTyped
  BY DEF PoolInductive
<1>2. /\ thread[t] \in PoolThreadStates /\ thread[t].con \in PoolConnections
      /\ thread[t].con # Pool!None
  BY <1>1 DEF PoolTyped, PoolThreadStates
<1>3. r \in PoolThreadStates /\ r.pc = pc /\ r.con = thread[t].con
  BY <1>2 DEF PoolThreadStates
<1>4. thread' = [thread EXCEPT ![t] = r]
  OBVIOUS
<1> HIDE DEF r
<1>5. /\ thread' \in [PoolThreads -> PoolThreadStates]
      /\ thread'[t] = r /\ \A u \in PoolThreads \ {t} : thread'[u] = thread[u]
      /\ Cardinality(PoolHolders) \in Nat /\ Cardinality(PoolBusy) \in Nat
      /\ Cardinality(PoolHolders') = Cardinality(PoolHolders)
           - (IF t \in PoolHolders THEN 1 ELSE 0)
           + (IF r.pc \notin {"idle", "wait"} THEN 1 ELSE 0)
      /\ Cardinality(PoolBusy') = Cardinality(PoolBusy)
           - (IF t \in PoolBusy THEN 1 ELSE 0)
           + (IF r.pc \in {"connect"} \cup PoolWithConnection THEN 1 ELSE 0)
  BY <1>1, <1>3, <1>4, PoolOneMoves
<1>6. t \in PoolHolders /\ t \in PoolBusy /\ r.pc \notin {"idle", "wait"}
  BY <1>3 DEF PoolHolders, Pool!HoldsSlot, PoolBusy, PoolWithConnection
<1>7. /\ Cardinality(PoolHolders') = Cardinality(PoolHolders)
      /\ Cardinality(PoolBusy') = Cardinality(PoolBusy)
  BY <1>3, <1>5, <1>6
<1>8. \A u \in PoolThreads : thread'[u].con = thread[u].con
  BY <1>3, <1>5
<1>9. PoolTyped'
  <2>1. \A u \in PoolThreads : thread'[u].con # Pool!None <=> thread'[u].pc \in PoolWithConnection
    BY <1>1, <1>2, <1>3, <1>5 DEF PoolTyped
  <2> QED BY <2>1, <1>1, <1>5 DEF PoolTyped
<1>10. Pool!SlotsConserved' /\ PoolHasRoom'
  BY <1>7, PoolCount DEF PoolInductive, Pool!SlotsConserved, PoolHolders, PoolHasRoom
<1>11. PoolEachHasOnePlace'
  BY <1>8 DEF PoolInductive, PoolEachHasOnePlace
<1>12. PoolClosedAndIdleAreClean'
  <2>1. PoolClosedAndIdleAreClean /\ PoolEachHasOnePlace
    BY DEF PoolInductive
  <2>2. \A c \in PoolConnections : pending'[c] = IF c = thread[t].con THEN left
                                                                  ELSE pending[c]
    BY <1>1 DEF PoolTyped
  <2>3. thread[t].con \in open
    BY <1>2, <2>1 DEF PoolEachHasOnePlace
  <2>4. \A c \in PoolConnections \ open' : pending'[c] = Pool!None
    BY <2>1, <2>2, <2>3 DEF PoolClosedAndIdleAreClean
  <2>5. \A i \in DOMAIN pool' : pending'[pool'[i]] = Pool!None
    BY <1>1, <2>1, <2>2, PoolIsTyped DEF PoolClosedAndIdleAreClean, PoolEachHasOnePlace
  <2>6. \A u \in PoolThreads :
          /\ thread'[u].pc \in {"ping", "store"} => pending'[thread'[u].con] = Pool!None
          /\ thread'[u].con # Pool!None => pending'[thread'[u].con] \in {Pool!None, u}
    <3> TAKE u \in PoolThreads
    <3>1. CASE u = t
      BY <3>1, <1>2, <1>3, <1>5, <2>2
    <3>2. CASE u # t
      <4>1. thread'[u] = thread[u]
        BY <3>2, <1>5
      <4>2. thread[u].pc \in {"ping", "store"} => thread[u].con # Pool!None
        BY <1>1 DEF PoolTyped, PoolWithConnection
      <4>3. thread[u].con # Pool!None =>
               thread[u].con \in PoolConnections /\ thread[u].con # thread[t].con
        <5>1. thread[u] \in PoolThreadStates
          BY <1>1 DEF PoolTyped
        <5> QED BY <5>1, <3>2, <2>1 DEF PoolEachHasOnePlace, PoolThreadStates
      <4>4. thread[u].con # Pool!None => pending'[thread[u].con] = pending[thread[u].con]
        BY <4>3, <2>2
      <4> QED BY <4>1, <4>2, <4>4, <2>1 DEF PoolClosedAndIdleAreClean
    <3> QED BY <3>1, <3>2
  <2> QED BY <2>4, <2>5, <2>6 DEF PoolClosedAndIdleAreClean
<1> QED BY <1>9, <1>10, <1>11, <1>12 DEF PoolInductive

\* A thread closes its connection and goes on without.
LEMMA PoolMovesAfterClose ==
    ASSUME PoolInductive, NEW t \in PoolThreads, NEW pc \in {"take", "free"},
           thread[t].pc \in PoolWithConnection,
           thread' = [thread EXCEPT ![t] = [pc |-> pc, con |-> Pool!None]],
           Pool!Close(thread[t].con), UNCHANGED <<slots, pool>>
    PROVE  PoolInductive'
<1> DEFINE r == [pc |-> pc, con |-> Pool!None]
<1>1. PoolTyped
  BY DEF PoolInductive
<1>2. /\ thread[t] \in PoolThreadStates /\ thread[t].con \in PoolConnections
      /\ thread[t].con # Pool!None
  BY <1>1 DEF PoolTyped, PoolThreadStates
<1>3. r \in PoolThreadStates /\ r.pc = pc /\ r.con = Pool!None /\ r.pc \notin PoolWithConnection
  BY DEF PoolThreadStates, PoolWithConnection
<1>4. thread' = [thread EXCEPT ![t] = r]
  OBVIOUS
<1> HIDE DEF r
<1>5. /\ thread' \in [PoolThreads -> PoolThreadStates]
      /\ thread'[t] = r /\ \A u \in PoolThreads \ {t} : thread'[u] = thread[u]
      /\ Cardinality(PoolHolders) \in Nat /\ Cardinality(PoolBusy) \in Nat
      /\ Cardinality(PoolHolders') = Cardinality(PoolHolders)
           - (IF t \in PoolHolders THEN 1 ELSE 0)
           + (IF r.pc \notin {"idle", "wait"} THEN 1 ELSE 0)
      /\ Cardinality(PoolBusy') = Cardinality(PoolBusy)
           - (IF t \in PoolBusy THEN 1 ELSE 0)
           + (IF r.pc \in {"connect"} \cup PoolWithConnection THEN 1 ELSE 0)
  BY <1>1, <1>3, <1>4, PoolOneMoves
<1>6. t \in PoolHolders /\ t \in PoolBusy /\ r.pc \notin {"idle", "wait", "connect"}
  BY <1>3 DEF PoolHolders, Pool!HoldsSlot, PoolBusy, PoolWithConnection
<1>7. /\ Cardinality(PoolHolders') = Cardinality(PoolHolders)
      /\ Cardinality(PoolBusy') <= Cardinality(PoolBusy) /\ Cardinality(PoolBusy') \in Int
  BY <1>3, <1>5, <1>6
<1>8. /\ \A c \in PoolConnections : pending'[c] = IF c = thread[t].con THEN Pool!None
                                                                   ELSE pending[c]
      /\ pending' \in [PoolConnections -> PoolThreads \cup {Pool!None}]
      /\ open' = open \ {thread[t].con}
  BY <1>1 DEF PoolTyped, Pool!Close
<1>9. PoolTyped'
  <2>1. \A u \in PoolThreads : thread'[u].con # Pool!None <=> thread'[u].pc \in PoolWithConnection
    BY <1>1, <1>2, <1>3, <1>5 DEF PoolTyped
  <2> QED BY <2>1, <1>1, <1>5, <1>8 DEF PoolTyped
<1>10. Pool!SlotsConserved'
  BY <1>7, PoolCount DEF PoolInductive, Pool!SlotsConserved, PoolHolders
<1>11. PoolHasRoom'
  <2>1. Len(pool') = Len(pool) /\ Len(pool) \in Nat
    BY <1>1, PoolIsTyped
  <2>2. Len(pool) + Cardinality(PoolBusy) <= PoolSize
    BY DEF PoolInductive, PoolHasRoom
  <2> QED BY <2>1, <2>2, <1>5, <1>7, PoolConstants DEF PoolHasRoom
<1>12. PoolEachHasOnePlace /\ PoolClosedAndIdleAreClean
  BY DEF PoolInductive
<1>13. PoolEachHasOnePlace'
  <2>1. \A u \in PoolThreads \ {t} : thread[u].con # thread[t].con
    BY <1>2, <1>12 DEF PoolEachHasOnePlace
  <2>2. \A i \in DOMAIN pool : pool[i] # Pool!None
    BY <1>1, PoolIsTyped, PoolConstants
  <2>3. /\ \A i, j \in DOMAIN pool' : pool'[i] = pool'[j] => i = j
        /\ \A i \in DOMAIN pool', u \in PoolThreads : pool'[i] # thread'[u].con
        /\ \A u, v \in PoolThreads : u # v /\ thread'[u].con # Pool!None =>
              thread'[u].con # thread'[v].con
    BY <2>2, <1>3, <1>5, <1>12 DEF PoolEachHasOnePlace
  <2>4. \A c \in PoolConnections : c \in open' <=>
          \/ \E i \in DOMAIN pool' : pool'[i] = c
          \/ \E u \in PoolThreads : thread'[u].con = c
    <3> TAKE c \in PoolConnections
    <3>1. CASE c = thread[t].con
      <4>1. c \notin open' /\ c # Pool!None
        BY <3>1, <1>2, <1>8
      <4>2. \A i \in DOMAIN pool' : pool'[i] # c
        BY <3>1, <1>12 DEF PoolEachHasOnePlace
      <4>3. \A u \in PoolThreads : thread'[u].con # c
        BY <3>1, <4>1, <2>1, <1>3, <1>5
      <4> QED BY <4>1, <4>2, <4>3
    <3>2. CASE c # thread[t].con
      <4>1. c \in open' <=> c \in open
        BY <3>2, <1>8
      <4>2. \A u \in PoolThreads : thread'[u].con = c <=> thread[u].con = c
        <5>1. c # Pool!None
          BY PoolConstants
        <5> QED BY <5>1, <3>2, <1>3, <1>5
      <4> QED BY <4>1, <4>2, <1>12 DEF PoolEachHasOnePlace
    <3> QED BY <3>1, <3>2
  <2> QED BY <2>3, <2>4 DEF PoolEachHasOnePlace
<1>14. PoolClosedAndIdleAreClean'
  <2>1. \A c \in PoolConnections : pending[c] = Pool!None => pending'[c] = Pool!None
    BY <1>8
  <2>2. \A c \in PoolConnections \ open' : pending'[c] = Pool!None
    BY <2>1, <1>8, <1>12 DEF PoolClosedAndIdleAreClean
  <2>3. \A i \in DOMAIN pool' : pending'[pool'[i]] = Pool!None
    BY <1>1, <2>1, <1>12, PoolIsTyped DEF PoolClosedAndIdleAreClean
  <2>4. \A u \in PoolThreads :
          /\ thread'[u].pc \in {"ping", "store"} => pending'[thread'[u].con] = Pool!None
          /\ thread'[u].con # Pool!None => pending'[thread'[u].con] \in {Pool!None, u}
    <3> TAKE u \in PoolThreads
    <3>1. CASE u = t
      BY <3>1, <1>3, <1>5 DEF PoolWithConnection
    <3>2. CASE u # t
      <4>1. thread'[u] = thread[u]
        BY <3>2, <1>5
      <4>2. thread[u].pc \in {"ping", "store"} => thread[u].con # Pool!None
        BY <1>1 DEF PoolTyped, PoolWithConnection
      <4>3. thread[u].con # Pool!None => thread[u].con \in PoolConnections
        BY <1>1 DEF PoolTyped, PoolThreadStates
      <4> QED BY <4>1, <4>2, <4>3, <1>8, <1>12 DEF PoolClosedAndIdleAreClean
    <3> QED BY <3>1, <3>2
  <2> QED BY <2>2, <2>3, <2>4 DEF PoolClosedAndIdleAreClean
<1> QED BY <1>9, <1>10, <1>11, <1>13, <1>14 DEF PoolInductive

-----------------------------------------------------------------------------
(* The pool.                                                               *)

PoolFront == SubSeq(pool, 1, Len(pool) - 1)
PoolLast == pool[Len(pool)]

\* Taking leaves the pool without its last connection.
LEMMA PoolIsShortened ==
    ASSUME PoolTyped, pool # <<>>
    PROVE  /\ PoolFront \in Seq(PoolConnections)
           /\ Len(PoolFront) = Len(pool) - 1
           /\ \A i \in DOMAIN PoolFront :
                 i \in DOMAIN pool /\ i # Len(pool) /\ PoolFront[i] = pool[i]
           /\ \A i \in DOMAIN pool : i \in DOMAIN PoolFront \/ i = Len(pool)
           /\ Len(pool) \in DOMAIN pool /\ PoolLast = pool[Len(pool)]
           /\ PoolLast \in PoolConnections
<1>1. /\ pool \in Seq(PoolConnections) /\ Len(pool) \in Nat \ {0}
      /\ DOMAIN pool = 1..Len(pool)
      /\ \A i \in DOMAIN pool : pool[i] \in PoolConnections
  BY PoolIsTyped, EmptySeq
<1>2. \A i \in 1..(Len(pool) - 1) : pool[i] \in PoolConnections
  BY <1>1
<1>3. 1 \in Int /\ Len(pool) - 1 \in Int
  BY <1>1
<1>4. /\ SubSeq(pool, 1, Len(pool) - 1) \in Seq(PoolConnections)
      /\ Len(SubSeq(pool, 1, Len(pool) - 1))
           = IF 1 <= Len(pool) - 1 THEN Len(pool) - 1 - 1 + 1 ELSE 0
      /\ \A i \in 1..(Len(pool) - 1 - 1 + 1) :
            SubSeq(pool, 1, Len(pool) - 1)[i] = pool[1 + i - 1]
  BY <1>2, <1>3, SubSeqProperties
<1>5. /\ Len(PoolFront) = Len(pool) - 1
      /\ \A i \in 1..(Len(pool) - 1) : PoolFront[i] = pool[i]
  BY <1>1, <1>4 DEF PoolFront
<1>6. PoolFront \in Seq(PoolConnections)
  BY <1>4 DEF PoolFront
<1>7. DOMAIN PoolFront = 1..(Len(pool) - 1)
  BY <1>5, <1>6, LenProperties
<1>8. Len(pool) \in DOMAIN pool /\ PoolLast = pool[Len(pool)]
  BY <1>1 DEF PoolLast
<1>9. \A n \in Nat \ {0} : \A i \in 1..n : i \in 1..(n - 1) <=> i # n
  OBVIOUS
<1>10. \A n \in Nat \ {0} : \A i \in 1..(n - 1) : i \in 1..n
  OBVIOUS
<1>11. \A i \in DOMAIN PoolFront :
         i \in DOMAIN pool /\ i # Len(pool) /\ PoolFront[i] = pool[i]
  BY <1>1, <1>5, <1>7, <1>9, <1>10
<1>12. \A i \in DOMAIN pool : i \in DOMAIN PoolFront \/ i = Len(pool)
  BY <1>1, <1>7, <1>9
<1> QED BY <1>1, <1>5, <1>6, <1>8, <1>11, <1>12

\* An old connection is taken from the pool and closed.
LEMMA PoolOldIsClosed ==
    ASSUME PoolInductive, pool # <<>>, pool' = PoolFront,
           Pool!Close(PoolLast), UNCHANGED <<slots, thread>>
    PROVE  PoolInductive'
<1>1. PoolTyped /\ PoolEachHasOnePlace /\ PoolClosedAndIdleAreClean
  BY DEF PoolInductive
<1>2. /\ pool' \in Seq(PoolConnections) /\ Len(pool') = Len(pool) - 1
      /\ \A i \in DOMAIN pool' :
            i \in DOMAIN pool /\ i # Len(pool) /\ pool'[i] = pool[i]
      /\ \A i \in DOMAIN pool : i \in DOMAIN pool' \/ i = Len(pool)
      /\ Len(pool) \in DOMAIN pool /\ PoolLast = pool[Len(pool)]
      /\ PoolLast \in PoolConnections /\ Len(pool) \in Nat
  BY <1>1, PoolIsTyped, PoolIsShortened
<1>3. PICK last \in PoolConnections : last = PoolLast
  BY <1>2
<1>4. /\ open' = open \ {last} /\ pending' = [pending EXCEPT ![last] = Pool!None]
  BY <1>3 DEF Pool!Close
<1>5. /\ \A c \in PoolConnections : pending'[c] = IF c = last THEN Pool!None ELSE pending[c]
      /\ pending' \in [PoolConnections -> PoolThreads \cup {Pool!None}]
  BY <1>1, <1>4 DEF PoolTyped
<1>6. PoolTyped'
  BY <1>1, <1>2, <1>4, <1>5 DEF PoolTyped
<1>7. Pool!SlotsConserved'
  BY PoolCount DEF PoolInductive, Pool!SlotsConserved, Pool!HoldsSlot
<1>8. PoolHasRoom'
  <2>1. PoolBusy' = PoolBusy
    BY DEF PoolBusy
  <2>2. Cardinality(PoolBusy) \in Nat
    <3>1. PoolBusy \subseteq PoolThreads
      BY DEF PoolBusy
    <3> QED BY <3>1, FS_Subset, FS_CardinalityType, PoolConstants
  <2> QED BY <2>1, <2>2, <1>2, PoolConstants DEF PoolInductive, PoolHasRoom
\* The last connection is nowhere else.
<1>9. /\ \A i \in DOMAIN pool' : pool'[i] # last
      /\ \A t \in PoolThreads : thread[t].con # last
  BY <1>1, <1>2, <1>3 DEF PoolEachHasOnePlace
<1>11. PoolEachHasOnePlace'
  <2>1. \A c \in PoolConnections : c \in open' <=>
          \/ \E i \in DOMAIN pool' : pool'[i] = c
          \/ \E t \in PoolThreads : thread'[t].con = c
    <3> TAKE c \in PoolConnections
    <3>1. CASE c = last
      BY <3>1, <1>4, <1>9
    <3>2. CASE c # last
      <4>1. (\E i \in DOMAIN pool' : pool'[i] = c) <=> \E i \in DOMAIN pool : pool[i] = c
        BY <3>2, <1>2, <1>3
      <4> QED BY <3>2, <4>1, <1>1, <1>4 DEF PoolEachHasOnePlace
    <3> QED BY <3>1, <3>2
  <2> QED BY <2>1, <1>1, <1>2 DEF PoolEachHasOnePlace
<1>12. PoolClosedAndIdleAreClean'
  <2>1. \A c \in PoolConnections : pending[c] = Pool!None => pending'[c] = Pool!None
    BY <1>5
  <2>2. \A c \in PoolConnections \ open' : pending'[c] = Pool!None
    BY <2>1, <1>1, <1>4, <1>5 DEF PoolClosedAndIdleAreClean
  <2>3. \A i \in DOMAIN pool' : pending'[pool'[i]] = Pool!None
    BY <2>1, <1>1, <1>2, PoolIsTyped DEF PoolClosedAndIdleAreClean
  <2>4. \A t \in PoolThreads :
          /\ thread[t].pc \in {"ping", "store"} => pending'[thread[t].con] = Pool!None
          /\ thread[t].con # Pool!None => pending'[thread[t].con] \in {Pool!None, t}
    <3> TAKE t \in PoolThreads
    <3>1. thread[t].pc \in {"ping", "store"} => thread[t].con # Pool!None
      BY <1>1 DEF PoolTyped, PoolWithConnection
    <3>2. thread[t].con # Pool!None => thread[t].con \in PoolConnections
      BY <1>1 DEF PoolTyped, PoolThreadStates
    <3> QED BY <3>1, <3>2, <1>1, <1>5 DEF PoolClosedAndIdleAreClean
  <2> QED BY <2>2, <2>3, <2>4 DEF PoolClosedAndIdleAreClean
<1> QED BY <1>6, <1>7, <1>8, <1>11, <1>12 DEF PoolInductive

\* A connection passes from the pool to a thread, or is opened by a thread.
LEMMA PoolThreadGets ==
    ASSUME PoolInductive, NEW t \in PoolThreads, NEW c \in PoolConnections,
           UNCHANGED <<slots, pending>>,
           \/ /\ thread[t].pc = "take" /\ pool # <<>> /\ c = PoolLast
              /\ pool' = PoolFront /\ open' = open
              /\ thread' = [thread EXCEPT ![t] = [pc |-> "ping", con |-> c]]
           \/ /\ thread[t].pc = "connect" /\ c \notin open
              /\ pool' = pool /\ open' = open \cup {c}
              /\ thread' = [thread EXCEPT ![t] = [pc |-> "use", con |-> c]]
    PROVE  PoolInductive'
<1>1. PoolTyped /\ PoolEachHasOnePlace /\ PoolClosedAndIdleAreClean
  BY DEF PoolInductive
<1>2. PICK pc \in {"ping", "use"} :
         /\ thread' = [thread EXCEPT ![t] = [pc |-> pc, con |-> c]]
         /\ pc = "ping" => thread[t].pc = "take"
         /\ pc = "use" => thread[t].pc = "connect"
  OBVIOUS
<1>3. PICK r \in PoolThreadStates : r = [pc |-> pc, con |-> c]
  BY DEF PoolThreadStates, PoolWithConnection
<1>4. /\ thread' \in [PoolThreads -> PoolThreadStates]
      /\ thread'[t] = r /\ \A u \in PoolThreads \ {t} : thread'[u] = thread[u]
      /\ Cardinality(PoolHolders) \in Nat /\ Cardinality(PoolBusy) \in Nat
      /\ Cardinality(PoolHolders') = Cardinality(PoolHolders)
           - (IF t \in PoolHolders THEN 1 ELSE 0)
           + (IF r.pc \notin {"idle", "wait"} THEN 1 ELSE 0)
      /\ Cardinality(PoolBusy') = Cardinality(PoolBusy)
           - (IF t \in PoolBusy THEN 1 ELSE 0)
           + (IF r.pc \in {"connect"} \cup PoolWithConnection THEN 1 ELSE 0)
  BY <1>1, <1>2, <1>3, PoolOneMoves
<1>5. r.pc \in PoolWithConnection /\ r.pc \in {"ping", "use"} /\ r.con = c /\ c # Pool!None
  BY <1>3, PoolConstants DEF PoolWithConnection
<1>6. thread[t].pc \in {"take", "connect"} /\ thread[t].con = Pool!None
  BY <1>1, <1>2 DEF PoolTyped, PoolWithConnection
<1>7. \/ /\ pool # <<>> /\ pool' = PoolFront /\ c = PoolLast /\ open' = open
         /\ thread[t].pc = "take"
      \/ /\ pool' = pool /\ c \notin open /\ open' = open \cup {c}
         /\ thread[t].pc = "connect"
  OBVIOUS
<1>8. /\ pool' \in Seq(PoolConnections) /\ Len(pool) \in Nat
      /\ Len(pool') = Len(pool) - (IF thread[t].pc = "take" THEN 1 ELSE 0)
      /\ \A i \in DOMAIN pool' : /\ i \in DOMAIN pool /\ pool'[i] = pool[i]
                                 /\ pool[i] # c
      /\ \A i \in DOMAIN pool : i \in DOMAIN pool' \/ pool[i] = c
  <2>0. Len(pool) \in Nat /\ DOMAIN pool = 1..Len(pool)
    BY <1>1, PoolIsTyped
  <2>1. CASE pool' = pool /\ c \notin open /\ thread[t].pc = "connect"
    BY <2>0, <2>1, <1>1, PoolIsTyped DEF PoolEachHasOnePlace
  <2>2. CASE /\ pool # <<>> /\ pool' = PoolFront /\ c = PoolLast
             /\ thread[t].pc = "take"
    <3>1. /\ pool' \in Seq(PoolConnections) /\ Len(pool') = Len(pool) - 1
          /\ \A i \in DOMAIN pool' :
                i \in DOMAIN pool /\ i # Len(pool) /\ pool'[i] = pool[i]
          /\ \A i \in DOMAIN pool : i \in DOMAIN pool' \/ i = Len(pool)
          /\ Len(pool) \in DOMAIN pool /\ c = pool[Len(pool)]
      BY <2>2, <1>1, PoolIsShortened
    <3>2. \A i \in DOMAIN pool' : pool[i] # c
      BY <3>1, <1>1 DEF PoolEachHasOnePlace
    <3> QED BY <2>0, <2>2, <3>1, <3>2
  <2> QED BY <2>1, <2>2, <1>7
\* The connection is nowhere else afterwards.
<1>9. \A u \in PoolThreads : thread[u].con # c
  <2>1. CASE pool # <<>> /\ c = PoolLast
    <3>1. Len(pool) \in DOMAIN pool /\ c = pool[Len(pool)]
      BY <2>1, <1>1, PoolIsShortened
    <3> QED BY <3>1, <1>1 DEF PoolEachHasOnePlace
  <2>2. CASE c \notin open
    BY <2>2, <1>1 DEF PoolEachHasOnePlace
  <2> QED BY <2>1, <2>2, <1>7
<1>10. pending[c] = Pool!None
  <2>1. CASE pool # <<>> /\ c = PoolLast
    <3>1. Len(pool) \in DOMAIN pool /\ c = pool[Len(pool)]
      BY <2>1, <1>1, PoolIsShortened
    <3> QED BY <3>1, <1>1 DEF PoolClosedAndIdleAreClean
  <2>2. CASE c \notin open
    BY <2>2, <1>1 DEF PoolClosedAndIdleAreClean
  <2> QED BY <2>1, <2>2, <1>7
<1>11. open' \subseteq PoolConnections /\ open \subseteq open' /\ open' = open \cup {c}
  <2>1. CASE pool # <<>> /\ c = PoolLast /\ open' = open
    <3>1. Len(pool) \in DOMAIN pool /\ c = pool[Len(pool)]
      BY <2>1, <1>1, PoolIsShortened
    <3>2. c \in open
      BY <3>1, <1>1 DEF PoolEachHasOnePlace
    <3> QED BY <2>1, <3>2, <1>1 DEF PoolTyped
  <2>2. CASE open' = open \cup {c}
    BY <2>2, <1>1 DEF PoolTyped
  <2> QED BY <2>1, <2>2, <1>7
<1>12. PoolTyped'
  <2>1. \A u \in PoolThreads : thread'[u].con # Pool!None <=> thread'[u].pc \in PoolWithConnection
    BY <1>1, <1>4, <1>5 DEF PoolTyped
  <2> QED BY <2>1, <1>1, <1>4, <1>8, <1>11 DEF PoolTyped
<1>13. t \in PoolHolders /\ (t \in PoolBusy <=> thread[t].pc = "connect")
  BY <1>6 DEF PoolHolders, Pool!HoldsSlot, PoolBusy, PoolWithConnection
<1>14. /\ Cardinality(PoolHolders') = Cardinality(PoolHolders)
       /\ Cardinality(PoolBusy') = Cardinality(PoolBusy)
                               + (IF thread[t].pc = "take" THEN 1 ELSE 0)
  BY <1>4, <1>5, <1>6, <1>13
<1>15. Pool!SlotsConserved'
  BY <1>14, PoolCount DEF PoolInductive, Pool!SlotsConserved, PoolHolders
<1>16. PoolHasRoom'
  <2>1. Len(pool) + Cardinality(PoolBusy) <= PoolSize
    BY DEF PoolInductive, PoolHasRoom
  <2>2. Len(pool') + Cardinality(PoolBusy') = Len(pool) + Cardinality(PoolBusy)
    BY <1>4, <1>8, <1>14
  <2> QED BY <2>1, <2>2 DEF PoolHasRoom
<1>17. PoolEachHasOnePlace'
  <2>1. \A i, j \in DOMAIN pool' : pool'[i] = pool'[j] => i = j
    BY <1>1, <1>8 DEF PoolEachHasOnePlace
  <2>2. \A i \in DOMAIN pool', u \in PoolThreads : pool'[i] # thread'[u].con
    <3> TAKE i \in DOMAIN pool', u \in PoolThreads
    <3>1. i \in DOMAIN pool /\ pool'[i] = pool[i] /\ pool[i] # c
      BY <1>8
    <3>2. pool[i] # thread[u].con
      BY <3>1, <1>1 DEF PoolEachHasOnePlace
    <3> QED BY <3>1, <3>2, <1>4, <1>5
  <2>3. \A u, v \in PoolThreads : u # v /\ thread'[u].con # Pool!None =>
              thread'[u].con # thread'[v].con
    BY <1>1, <1>4, <1>5, <1>9 DEF PoolEachHasOnePlace
  <2>4. \A d \in PoolConnections : d \in open' <=>
          \/ \E i \in DOMAIN pool' : pool'[i] = d
          \/ \E u \in PoolThreads : thread'[u].con = d
    <3> TAKE d \in PoolConnections
    <3>1. CASE d = c
      BY <3>1, <1>4, <1>5, <1>11
    <3>2. CASE d # c
      <4>1. (\E i \in DOMAIN pool' : pool'[i] = d) <=> \E i \in DOMAIN pool : pool[i] = d
        BY <3>2, <1>8
      <4>2. \A u \in PoolThreads : thread'[u].con = d <=> thread[u].con = d
        <5>1. d # Pool!None
          BY PoolConstants
        <5> QED BY <5>1, <3>2, <1>4, <1>5, <1>6
      <4> QED BY <3>2, <4>1, <4>2, <1>1, <1>11 DEF PoolEachHasOnePlace
    <3> QED BY <3>1, <3>2
  <2> QED BY <2>1, <2>2, <2>3, <2>4 DEF PoolEachHasOnePlace
<1>18. PoolClosedAndIdleAreClean'
  <2>1. pending' = pending
    OBVIOUS
  <2>2. \A d \in PoolConnections \ open' : pending'[d] = Pool!None
    BY <2>1, <1>1, <1>11 DEF PoolClosedAndIdleAreClean
  <2>3. \A i \in DOMAIN pool' : pending'[pool'[i]] = Pool!None
    BY <2>1, <1>1, <1>8 DEF PoolClosedAndIdleAreClean
  <2>4. \A u \in PoolThreads :
          /\ thread'[u].pc \in {"ping", "store"} => pending'[thread'[u].con] = Pool!None
          /\ thread'[u].con # Pool!None => pending'[thread'[u].con] \in {Pool!None, u}
    <3> TAKE u \in PoolThreads
    <3>1. CASE u = t
      BY <2>1, <3>1, <1>4, <1>5, <1>10
    <3>2. CASE u # t
      BY <2>1, <3>2, <1>1, <1>4 DEF PoolClosedAndIdleAreClean
    <3> QED BY <3>1, <3>2
  <2> QED BY <2>2, <2>3, <2>4 DEF PoolClosedAndIdleAreClean
<1> QED BY <1>12, <1>15, <1>16, <1>17, <1>18 DEF PoolInductive

\* A thread puts its connection back.
LEMMA PoolThreadReturns ==
    ASSUME PoolInductive, NEW t \in PoolThreads, thread[t].pc = "store",
           thread' = [thread EXCEPT ![t] = [pc |-> "free", con |-> Pool!None]],
           pool' = Append(pool, thread[t].con), UNCHANGED <<slots, Pool!wire>>
    PROVE  PoolInductive'
<1>1. PoolTyped /\ PoolEachHasOnePlace /\ PoolClosedAndIdleAreClean
  BY DEF PoolInductive
<1>2. PICK c \in PoolConnections : c = thread[t].con
  BY <1>1 DEF PoolTyped, PoolThreadStates, PoolWithConnection
<1>3. c # Pool!None /\ pool' = Append(pool, c) /\ UNCHANGED <<open, pending>>
  BY <1>2, PoolConstants DEF Pool!wire
<1>4. PICK r \in PoolThreadStates : r = [pc |-> "free", con |-> Pool!None]
  BY DEF PoolThreadStates
<1>5. r.pc = "free" /\ r.pc \notin PoolWithConnection /\ r.con = Pool!None
  BY <1>4 DEF PoolWithConnection
<1>6. /\ thread' \in [PoolThreads -> PoolThreadStates]
      /\ thread'[t] = r /\ \A u \in PoolThreads \ {t} : thread'[u] = thread[u]
      /\ Cardinality(PoolHolders) \in Nat /\ Cardinality(PoolBusy) \in Nat
      /\ Cardinality(PoolHolders') = Cardinality(PoolHolders)
           - (IF t \in PoolHolders THEN 1 ELSE 0)
           + (IF r.pc \notin {"idle", "wait"} THEN 1 ELSE 0)
      /\ Cardinality(PoolBusy') = Cardinality(PoolBusy)
           - (IF t \in PoolBusy THEN 1 ELSE 0)
           + (IF r.pc \in {"connect"} \cup PoolWithConnection THEN 1 ELSE 0)
  BY <1>1, <1>4, PoolOneMoves
<1>7. /\ pool' \in Seq(PoolConnections) /\ Len(pool) \in Nat
      /\ Len(pool') = Len(pool) + 1
      /\ \A i \in DOMAIN pool : i \in DOMAIN pool' /\ pool'[i] = pool[i]
      /\ \A i \in DOMAIN pool' :
            \/ i \in DOMAIN pool /\ pool'[i] = pool[i]
            \/ i = Len(pool) + 1 /\ pool'[i] = c
      /\ Len(pool) + 1 \in DOMAIN pool' /\ pool'[Len(pool) + 1] = c
  <2>1. pool \in Seq(PoolConnections) /\ Len(pool) \in Nat /\ DOMAIN pool = 1..Len(pool)
    BY <1>1, PoolIsTyped
  <2>2. /\ pool' \in Seq(PoolConnections) /\ Len(pool') = Len(pool) + 1
        /\ \A i \in 1..Len(pool) : pool'[i] = pool[i]
        /\ pool'[Len(pool) + 1] = c
    BY <2>1, <1>3, AppendProperties
  <2>3. DOMAIN pool' = 1..(Len(pool) + 1)
    BY <2>2, LenProperties
  <2>4. /\ \A n \in Nat : \A i \in 1..(n + 1) : i \in 1..n \/ i = n + 1
        /\ \A n \in Nat : \A i \in 1..n : i \in 1..(n + 1)
        /\ \A n \in Nat : n + 1 \in 1..(n + 1)
    OBVIOUS
  <2> QED BY <2>1, <2>2, <2>3, <2>4
<1>8. PoolTyped'
  <2>1. \A u \in PoolThreads : thread'[u].con # Pool!None <=> thread'[u].pc \in PoolWithConnection
    BY <1>1, <1>5, <1>6 DEF PoolTyped
  <2> QED BY <2>1, <1>1, <1>3, <1>6, <1>7 DEF PoolTyped
<1>9. t \in PoolHolders /\ t \in PoolBusy /\ r.pc \notin {"idle", "wait", "connect"}
  BY <1>5 DEF PoolHolders, Pool!HoldsSlot, PoolBusy, PoolWithConnection
<1>10. /\ Cardinality(PoolHolders') = Cardinality(PoolHolders)
       /\ Cardinality(PoolBusy') = Cardinality(PoolBusy) - 1
  BY <1>5, <1>6, <1>9
<1>11. Pool!SlotsConserved'
  BY <1>10, PoolCount DEF PoolInductive, Pool!SlotsConserved, PoolHolders
<1>12. PoolHasRoom'
  <2>1. Len(pool) + Cardinality(PoolBusy) <= PoolSize
    BY DEF PoolInductive, PoolHasRoom
  <2>2. Len(pool') + Cardinality(PoolBusy') = Len(pool) + Cardinality(PoolBusy)
    BY <1>6, <1>7, <1>10
  <2> QED BY <2>1, <2>2 DEF PoolHasRoom
<1>13. /\ \A i \in DOMAIN pool : pool[i] # c
       /\ \A u \in PoolThreads \ {t} : thread[u].con # c
  BY <1>1, <1>2, <1>3 DEF PoolEachHasOnePlace
<1>14. PoolEachHasOnePlace'
  <2>1. \A i, j \in DOMAIN pool' : pool'[i] = pool'[j] => i = j
    <3> TAKE i, j \in DOMAIN pool'
    <3>1. CASE i \in DOMAIN pool /\ pool'[i] = pool[i]
      BY <3>1, <1>1, <1>7, <1>13 DEF PoolEachHasOnePlace
    <3>2. CASE i = Len(pool) + 1 /\ pool'[i] = c
      BY <3>2, <1>7, <1>13
    <3> QED BY <3>1, <3>2, <1>7
  <2>2. \A i \in DOMAIN pool', u \in PoolThreads : pool'[i] # thread'[u].con
    <3> TAKE i \in DOMAIN pool', u \in PoolThreads
    <3>1. thread'[u].con = IF u = t THEN Pool!None ELSE thread[u].con
      BY <1>5, <1>6
    <3>2. CASE i \in DOMAIN pool /\ pool'[i] = pool[i]
      <4>1. pool[i] # Pool!None
        BY <3>2, <1>1, PoolIsTyped, PoolConstants
      <4> QED BY <3>1, <3>2, <4>1, <1>1 DEF PoolEachHasOnePlace
    <3>3. CASE pool'[i] = c
      BY <3>1, <3>3, <1>3, <1>13
    <3> QED BY <3>2, <3>3, <1>7
  <2>3. \A u, v \in PoolThreads : u # v /\ thread'[u].con # Pool!None =>
              thread'[u].con # thread'[v].con
    BY <1>1, <1>5, <1>6 DEF PoolEachHasOnePlace
  <2>4. \A d \in PoolConnections : d \in open' <=>
          \/ \E i \in DOMAIN pool' : pool'[i] = d
          \/ \E u \in PoolThreads : thread'[u].con = d
    <3> TAKE d \in PoolConnections
    <3>1. CASE d = c
      <4>1. d \in open
        BY <3>1, <1>1, <1>2 DEF PoolEachHasOnePlace
      <4> QED BY <3>1, <4>1, <1>3, <1>7
    <3>2. CASE d # c
      <4>1. (\E i \in DOMAIN pool' : pool'[i] = d) <=> \E i \in DOMAIN pool : pool[i] = d
        BY <3>2, <1>7
      <4>2. \A u \in PoolThreads : thread'[u].con = d <=> thread[u].con = d
        <5>1. d # Pool!None
          BY PoolConstants
        <5> QED BY <5>1, <3>2, <1>2, <1>5, <1>6
      <4> QED BY <4>1, <4>2, <1>1, <1>3 DEF PoolEachHasOnePlace
    <3> QED BY <3>1, <3>2
  <2> QED BY <2>1, <2>2, <2>3, <2>4 DEF PoolEachHasOnePlace
<1>15. PoolClosedAndIdleAreClean'
  <2>1. pending[c] = Pool!None
    BY <1>1, <1>2 DEF PoolClosedAndIdleAreClean
  <2>2. \A d \in PoolConnections \ open' : pending'[d] = Pool!None
    BY <1>1, <1>3 DEF PoolClosedAndIdleAreClean
  <2>3. \A i \in DOMAIN pool' : pending'[pool'[i]] = Pool!None
    BY <2>1, <1>1, <1>3, <1>7 DEF PoolClosedAndIdleAreClean
  <2>4. \A u \in PoolThreads :
          /\ thread'[u].pc \in {"ping", "store"} => pending'[thread'[u].con] = Pool!None
          /\ thread'[u].con # Pool!None => pending'[thread'[u].con] \in {Pool!None, u}
    <3> TAKE u \in PoolThreads
    <3>1. CASE u = t
      BY <3>1, <1>5, <1>6
    <3>2. CASE u # t
      BY <3>2, <1>1, <1>3, <1>6 DEF PoolClosedAndIdleAreClean
    <3> QED BY <3>1, <3>2
  <2> QED BY <2>2, <2>3, <2>4 DEF PoolClosedAndIdleAreClean
<1> QED BY <1>8, <1>11, <1>12, <1>14, <1>15 DEF PoolInductive

\* The server and the clock move no connection; at most they end its work.
LEMMA PoolOutsideMoves ==
    ASSUME PoolInductive, UNCHANGED <<slots, pool, open, thread>>,
           pending' = pending \/ pending' = [c \in PoolConnections |-> Pool!None]
    PROVE  PoolInductive'
<1>1. PoolTyped /\ PoolClosedAndIdleAreClean /\ PoolEachHasOnePlace
  BY DEF PoolInductive
<1>2. pending' \in [PoolConnections -> PoolThreads \cup {Pool!None}]
  BY <1>1 DEF PoolTyped
<1>3. PoolTyped'
  BY <1>1, <1>2 DEF PoolTyped
<1>4. Pool!SlotsConserved' /\ PoolHasRoom' /\ PoolEachHasOnePlace'
  BY PoolCount DEF PoolInductive, Pool!SlotsConserved, Pool!HoldsSlot, PoolHasRoom, PoolBusy, PoolEachHasOnePlace
<1>5. PoolClosedAndIdleAreClean'
  <2>1. \A c \in PoolConnections : pending'[c] \in {Pool!None, pending[c]}
    BY <1>1
  <2>2. /\ \A i \in DOMAIN pool : pool[i] \in PoolConnections
        /\ \A u \in PoolThreads : thread[u].con # Pool!None => thread[u].con \in PoolConnections
        /\ \A u \in PoolThreads :
              thread[u].pc \in {"ping", "store"} => thread[u].con # Pool!None
    BY <1>1, PoolIsTyped DEF PoolTyped, PoolThreadStates, PoolWithConnection
  <2> QED BY <2>1, <2>2, <1>1 DEF PoolClosedAndIdleAreClean
<1> QED BY <1>3, <1>4, <1>5 DEF PoolInductive

-----------------------------------------------------------------------------
(* The theorems.                                                           *)

LEMMA PoolInitInductive == ASSUME Pool!Init PROVE PoolInductive
<1>1. /\ slots = PoolSize /\ pool = <<>> /\ open = {}
      /\ pending = [c \in PoolConnections |-> Pool!None]
      /\ thread = [t \in PoolThreads |-> [pc |-> "idle", con |-> Pool!None]]
  BY DEF Pool!Init, Pool!AtRest
<1>2. pool \in Seq(PoolConnections) /\ Len(pool) = 0 /\ DOMAIN pool = {}
  BY <1>1, EmptySeq
<1>3. /\ thread \in [PoolThreads -> PoolThreadStates]
      /\ \A t \in PoolThreads : thread[t].pc = "idle" /\ thread[t].con = Pool!None
  <2>1. [pc |-> "idle", con |-> Pool!None] \in PoolThreadStates
    BY DEF PoolThreadStates
  <2> QED BY <2>1, <1>1
<1>4. PoolTyped
  BY <1>1, <1>2, <1>3, PoolConstants DEF PoolTyped, PoolWithConnection
<1>5. PoolHolders = {} /\ PoolBusy = {}
  BY <1>3 DEF PoolHolders, Pool!HoldsSlot, PoolBusy, PoolWithConnection
<1>6. Pool!SlotsConserved
  <2>1. Cardinality(PoolHolders) = 0
    BY <1>5, FS_EmptySet
  <2> QED BY <2>1, <1>1, PoolCount, PoolConstants DEF Pool!SlotsConserved, PoolHolders
<1>7. PoolHasRoom
  <2>1. Cardinality(PoolBusy) = 0
    BY <1>5, FS_EmptySet
  <2> QED BY <2>1, <1>2, PoolConstants DEF PoolHasRoom
<1>8. PoolEachHasOnePlace
  BY <1>1, <1>2, <1>3, PoolConstants DEF PoolEachHasOnePlace
<1>9. PoolClosedAndIdleAreClean
  BY <1>1, <1>2, <1>3 DEF PoolClosedAndIdleAreClean
<1> QED BY <1>4, <1>6, <1>7, <1>8, <1>9 DEF PoolInductive

LEMMA PoolThreadKeeps ==
    ASSUME PoolInductive, NEW t \in PoolThreads, Pool!Enter(t) \/ Pool!Moves(t)
    PROVE  PoolInductive'
<1>1. PoolTyped
  BY DEF PoolInductive
<1>2. /\ thread[t] \in PoolThreadStates /\ slots \in Nat
      /\ thread[t].con # Pool!None <=> thread[t].pc \in PoolWithConnection
      /\ thread[t].con # Pool!None => thread[t].con \in PoolConnections
  BY <1>1 DEF PoolTyped, PoolThreadStates
<1>3. \A pc : Pool!To(t, pc) /\ thread[t].pc \notin PoolWithConnection =>
         thread' = [thread EXCEPT ![t] = [pc |-> pc, con |-> Pool!None]]
  BY <1>1, <1>2, PoolMoveOfPc
<1>4. CASE Pool!Enter(t)
  BY <1>2, <1>3, <1>4, PoolMovesWithout DEF Pool!Enter, Pool!HoldsSlot, PoolWithConnection
<1>5. CASE Pool!TakeSlot(t)
  <2>1. slots' \in Nat
    BY <1>2, <1>5 DEF Pool!TakeSlot
  <2> QED BY <2>1, <1>2, <1>3, <1>5, PoolMovesWithout
          DEF Pool!TakeSlot, Pool!HoldsSlot, PoolWithConnection
<1>6. CASE Pool!TimesOut(t)
  BY <1>2, <1>3, <1>6, PoolMovesWithout DEF Pool!TimesOut, Pool!HoldsSlot, PoolWithConnection
<1>7. CASE Pool!Take(t)
  <2>1. CASE pool = <<>>
    BY <2>1, <1>2, <1>3, <1>7, PoolMovesWithout DEF Pool!Take, Pool!HoldsSlot, PoolWithConnection
  <2>2. CASE pool # <<>> /\ PoolLast \in aged
    BY <2>2, <1>7, PoolOldIsClosed DEF Pool!Take, PoolFront, PoolLast
  <2>3. CASE pool # <<>> /\ PoolLast \notin aged
    <3>1. PoolLast \in PoolConnections
      BY <2>3, <1>1, PoolIsShortened
    <3> QED BY <2>3, <3>1, <1>7, PoolThreadGets DEF Pool!Take, Pool!With, Pool!wire, PoolFront, PoolLast
  <2> QED BY <2>1, <2>2, <2>3
<1>8. CASE Pool!Ping(t)
  <2>1. CASE thread[t].con \in broken
    BY <2>1, <1>8, PoolMovesAfterClose DEF Pool!Ping, Pool!With, PoolWithConnection
  <2>2. CASE thread[t].con \notin broken
    <3>1. thread' = [thread EXCEPT ![t] = [pc |-> "use", con |-> thread[t].con]]
      BY <2>2, <1>1, <1>8, PoolMoveOfPc DEF Pool!Ping
    <3>2. pending[thread[t].con] = Pool!None
      BY <1>8 DEF Pool!Ping, PoolInductive, PoolClosedAndIdleAreClean
    <3>3. pending' = [pending EXCEPT ![thread[t].con] = Pool!None]
      BY <2>2, <3>2, <1>1, <1>8 DEF Pool!Ping, Pool!wire, PoolTyped
    <3> QED BY <2>2, <3>1, <3>3, <1>8, PoolMovesWith DEF Pool!Ping, Pool!wire, PoolWithConnection
  <2> QED BY <2>1, <2>2
<1>9. CASE Pool!Connect(t)
  <2>1. PICK c \in PoolConnections \ open : open' = open \cup {c} /\ Pool!With(t, "use", c)
    BY <1>9 DEF Pool!Connect
  <2> QED BY <2>1, <1>9, PoolThreadGets DEF Pool!Connect, Pool!With
<1>10. CASE Pool!ConnectFails(t)
  <2>1. slots' = slots + 1 /\ slots' \in Nat
    BY <1>2, <1>10 DEF Pool!ConnectFails, Pool!SlotReturned
  <2>2. thread' = [thread EXCEPT ![t] = [pc |-> "idle", con |-> Pool!None]]
    BY <1>10 DEF Pool!ConnectFails, Pool!With
  <2>3. /\ thread[t].pc \notin PoolWithConnection /\ Pool!HoldsSlot(t)
        /\ UNCHANGED <<pool, Pool!wire>>
    BY <1>10 DEF Pool!ConnectFails, Pool!HoldsSlot, PoolWithConnection
  <2>4. slots' = slots + (IF Pool!HoldsSlot(t) THEN 1 ELSE 0)
                       - (IF "idle" \notin {"idle", "wait"} THEN 1 ELSE 0)
    BY <2>1, <2>3, <1>2
  <2> QED BY <2>1, <2>2, <2>3, <2>4, PoolMovesWithout
<1>11. CASE Pool!Use(t)
  <2>1. thread' = [thread EXCEPT ![t] = [pc |-> "release", con |-> thread[t].con]]
    BY <1>1, <1>11, PoolMoveOfPc DEF Pool!Use
  <2>2. PICK left \in {Pool!None, t} :
           pending' = [pending EXCEPT ![thread[t].con] = left]
    BY <1>11 DEF Pool!Use
  <2> QED BY <2>1, <2>2, <1>11, PoolMovesWith DEF Pool!Use, PoolWithConnection
<1>12. CASE Pool!Roll(t)
  <2>1. CASE thread[t].con \in broken
    BY <2>1, <1>12, PoolMovesAfterClose DEF Pool!Roll, Pool!With, PoolWithConnection
  <2>2. CASE thread[t].con \notin broken
    <3>1. thread' = [thread EXCEPT ![t] = [pc |-> "store", con |-> thread[t].con]]
      BY <2>2, <1>1, <1>12, PoolMoveOfPc DEF Pool!Roll
    <3> QED BY <2>2, <3>1, <1>12, PoolMovesWith DEF Pool!Roll, Pool!RolledBack, PoolWithConnection
  <2> QED BY <2>1, <2>2
<1>13. CASE Pool!Store(t)
  <2>1. CASE thread[t].con \in aged \/ Len(pool) = PoolSize
    BY <2>1, <1>13, PoolMovesAfterClose DEF Pool!Store, Pool!With, PoolWithConnection
  <2>2. CASE ~(thread[t].con \in aged \/ Len(pool) = PoolSize)
    BY <2>2, <1>13, PoolThreadReturns DEF Pool!Store, Pool!With
  <2> QED BY <2>1, <2>2
<1>14. CASE Pool!Free(t)
  BY <1>2, <1>3, <1>14, PoolMovesWithout DEF Pool!Free, Pool!HoldsSlot, PoolWithConnection
<1> QED BY <1>4, <1>5, <1>6, <1>7, <1>8, <1>9, <1>10, <1>11, <1>12, <1>13, <1>14
        DEF Pool!Moves

LEMMA PoolNextInductive ==
    ASSUME PoolInductive, [Pool!Next]_(Pool!poolVars)
    PROVE  PoolInductive'
<1>1. CASE UNCHANGED Pool!poolVars
  BY <1>1, PoolOutsideMoves DEF Pool!poolVars
<1>2. CASE Pool!Breaks \/ Pool!Ages
  BY <1>2, PoolOutsideMoves DEF Pool!Breaks, Pool!Ages
<1>3. CASE \E t \in PoolThreads : Pool!Enter(t) \/ Pool!Moves(t)
  BY <1>3, PoolThreadKeeps
<1> QED BY <1>1, <1>2, <1>3 DEF Pool!Next

\* The invariant holds throughout: slots are counted, and every open connection
\* is in one place.
THEOREM PoolInvariance == Pool!Spec => []PoolInductive
<1>1. Pool!Init => PoolInductive
  BY PoolInitInductive
<1>2. PoolInductive /\ [Pool!Next]_(Pool!poolVars) => PoolInductive'
  BY PoolNextInductive
<1> QED BY <1>1, <1>2, PTL DEF Pool!Spec

\* No path through acquire and release loses a slot or returns it twice.
THEOREM PoolNoSlotIsLost == Pool!Spec => []Pool!SlotsConserved
<1>1. PoolInductive => Pool!SlotsConserved
  BY DEF PoolInductive
<1> QED BY <1>1, PoolInvariance, PTL

\* The invariant bounds the open connections and keeps each for one thread.
LEMMA PoolPlacesAreBounded ==
    ASSUME PoolInductive
    PROVE  Pool!ConnectionsBounded
<1>1. PoolTyped /\ PoolEachHasOnePlace
  BY DEF PoolInductive
<1>2. /\ Len(pool) \in Nat /\ DOMAIN pool = 1..Len(pool)
      /\ \A i \in DOMAIN pool : pool[i] \in PoolConnections
      /\ pool \in Seq(PoolConnections)
  BY <1>1, PoolIsTyped
<1>3. IsFiniteSet(Pool!InPool) /\ Cardinality(Pool!InPool) = Len(pool)
  <2>1. pool \in [1..Len(pool) -> Pool!InPool]
    <3>1. pool = [i \in DOMAIN pool |-> pool[i]]
      BY <1>2
    <3> QED BY <3>1, <1>2 DEF Pool!InPool
  <2>2. pool \in Bijection(1..Len(pool), Pool!InPool)
    BY <2>1, <1>1, <1>2
       DEF Bijection, Injection, Surjection, IsInjective, PoolEachHasOnePlace, Pool!InPool
  <2>3. ExistsBijection(1..Len(pool), Pool!InPool)
    BY <2>2 DEF ExistsBijection
  <2>4. IsFiniteSet(1..Len(pool)) /\ Cardinality(1..Len(pool)) = Len(pool)
    <3>1. /\ IsFiniteSet(1..Len(pool))
          /\ Cardinality(1..Len(pool)) = IF 1 > Len(pool) THEN 0
                                         ELSE Len(pool) - 1 + 1
      BY <1>2, FS_Interval
    <3> QED BY <3>1, <1>2
  <2> QED BY <2>3, <2>4, FS_Bijection
<1>4. /\ IsFiniteSet(Pool!Held) /\ Cardinality(Pool!Held) <= Cardinality(PoolBusy)
      /\ Cardinality(Pool!Held) \in Nat /\ Cardinality(PoolBusy) \in Nat
  <2> DEFINE Owners == {t \in PoolThreads : thread[t].con # Pool!None}
             owned == [t \in Owners |-> thread[t].con]
  <2>1. PoolBusy \subseteq PoolThreads
    BY DEF PoolBusy
  <2>2. Owners \subseteq PoolBusy
    BY <1>1 DEF PoolTyped, PoolBusy
  <2>3. IsFiniteSet(PoolBusy) /\ IsFiniteSet(PoolThreads)
    BY <2>1, FS_Subset, PoolConstants
  <2>4. IsFiniteSet(Owners) /\ Cardinality(Owners) <= Cardinality(PoolBusy)
    <3> HIDE DEF Owners
    <3> QED BY <2>2, <2>3, FS_Subset
  <2>5. owned \in Surjection(Owners, Pool!Held)
    BY DEF Surjection, Pool!Held
  <2>6. IsFiniteSet(Pool!Held) /\ Cardinality(Pool!Held) <= Cardinality(Owners)
    <3> HIDE DEF Owners, owned
    <3> QED BY <2>4, <2>5, FS_Surjection
  <2>7. /\ Cardinality(Pool!Held) \in Nat /\ Cardinality(Owners) \in Nat
        /\ Cardinality(PoolBusy) \in Nat
    <3> HIDE DEF Owners
    <3> QED BY <2>3, <2>4, <2>6, FS_CardinalityType
  <2> HIDE DEF Owners
  <2> QED BY <2>4, <2>6, <2>7
<1>5. Pool!InPool \cap Pool!Held = {}
  BY <1>1 DEF Pool!InPool, Pool!Held, PoolEachHasOnePlace
<1>6. open = Pool!InPool \cup Pool!Held
  <2>1. Pool!Held \subseteq PoolConnections /\ Pool!InPool \subseteq PoolConnections
    BY <1>1, <1>2 DEF Pool!Held, Pool!InPool, PoolTyped, PoolThreadStates
  <2>2. \A c \in PoolConnections : c \in open <=> c \in Pool!InPool \cup Pool!Held
    BY <1>1, PoolConstants DEF PoolEachHasOnePlace, Pool!InPool, Pool!Held
  <2>3. open \subseteq PoolConnections
    BY <1>1 DEF PoolTyped
  <2> QED BY <2>1, <2>2, <2>3
<1>7. Cardinality(open) <= PoolSize
  <2>1. Cardinality(Pool!InPool \cup Pool!Held)
          = Cardinality(Pool!InPool) + Cardinality(Pool!Held) - Cardinality(Pool!InPool \cap Pool!Held)
    BY <1>3, <1>4, FS_Union
  <2>2. Cardinality(Pool!InPool \cap Pool!Held) = 0
    BY <1>5, FS_EmptySet
  <2>3. Cardinality(open) = Len(pool) + Cardinality(Pool!Held)
    BY <2>1, <2>2, <1>2, <1>3, <1>4, <1>6
  <2>4. Len(pool) + Cardinality(PoolBusy) <= PoolSize /\ PoolSize \in Nat
    BY PoolConstants DEF PoolInductive, PoolHasRoom
  <2> QED BY <2>3, <2>4, <1>2, <1>4
<1> QED BY <1>1, <1>3, <1>5, <1>6, <1>7, PoolCount DEF Pool!ConnectionsBounded, PoolEachHasOnePlace

LEMMA PoolInductiveIsEnough ==
    PoolInductive => Pool!SlotsConserved /\ Pool!ConnectionsBounded /\ Pool!WorkIsOwn
<1>1. PoolInductive => Pool!ConnectionsBounded
  BY PoolPlacesAreBounded
<1> QED BY <1>1 DEF PoolInductive, PoolClosedAndIdleAreClean, Pool!WorkIsOwn, Pool!InPool

\* No more connections are ever open than the pool has slots, and each is idle or
\* with one thread.
THEOREM PoolOpenConnectionsAreBounded ==
    Pool!Spec => []Pool!ConnectionsBounded
<1>1. PoolInductive => Pool!ConnectionsBounded
  BY PoolPlacesAreBounded
<1> QED BY <1>1, PoolInvariance, PTL

\* No thread finds the uncommitted work of another, whatever handlers leave open.
THEOREM PoolWorkIsSeparate == Pool!Spec => []Pool!WorkIsOwn
<1>1. PoolInductive => Pool!WorkIsOwn
  BY PoolInductiveIsEnough
<1> QED BY <1>1, PoolInvariance, PTL

-----------------------------------------------------------------------------
(* The retained counters (Rollups).                                        *)

RollRowNumbers == 1..MaxRows
RollRowSets == [RollRowNumbers -> Minutes \cup {0}]
RollTxStates ==
    [pc : {"idle", "upsert", "choose", "lock", "commit"},
     chosen : SUBSET RollRowNumbers, deletes : Int, locked : SUBSET RollRowNumbers,
     held : SUBSET Roll!Buckets, added : RollRowSets, removed : RollRowSets,
     delta : [Roll!Buckets -> Int]]

RollTyped ==
    /\ minute \in RollRowSets /\ lastId \in Nat
    /\ statistics \in [Roll!Buckets -> Int] /\ marker \in BOOLEAN
    /\ phase \in {"absent", "created", "running"}
    /\ tx \in [Roll!Writers -> RollTxStates]

\* Rows are added under new numbers, by the writer alone.
RollAddedAreNew ==
    /\ \A i \in RollRowNumbers : minute[i] # 0 => i <= lastId
    /\ \A w \in Roll!Writers, i \in RollRowNumbers : tx[w].added[i] # 0 =>
          w = "writer" /\ i <= lastId /\ minute[i] = 0

\* Rows are removed once, as they are, by the transaction that has locked them.
RollRemovedAreLocked ==
    /\ \A w \in Roll!Writers, i \in RollRowNumbers : tx[w].removed[i] # 0 =>
          /\ i \in tx[w].locked
          /\ tx[w].removed[i] = IF minute[i] # 0 THEN minute[i]
                                                 ELSE tx[w].added[i]
    /\ \A w \in Roll!Writers : tx[w].pc = "lock" =>
          \A i \in tx[w].chosen : tx[w].removed[i] = 0
    /\ \A w, u \in Roll!Writers : w # u => tx[w].locked \cap tx[u].locked = {}

\* What a transaction changes in the counters is what it changes in the log.
RollDeltaIsExact(t) ==
    \A b \in Roll!Buckets : t.delta[b] = Roll!InBucket(t.added, b) - Roll!InBucket(t.removed, b)

RollDeltasAreExact == \A w \in Roll!Writers : RollDeltaIsExact(tx[w])

\* The marker is what tells the next start that the counters are right.
RollMarkedIsRight ==
    /\ phase = "running" => marker
    /\ marker => statistics = Roll!Summary(minute)

RollInductive ==
    RollTyped /\ RollAddedAreNew /\ RollRemovedAreLocked /\ RollDeltasAreExact /\ RollMarkedIsRight

LEMMA RollCount == ASSUME NEW S PROVE Roll!Cardinality(S) = Cardinality(S)
BY DEF Cardinality, Roll!Cardinality

-----------------------------------------------------------------------------
(* Counting.                                                               *)

RollBucket(rows, b) == {i \in RollRowNumbers : rows[i] # 0 /\ (b = Roll!Total \/ rows[i] = b)}

LEMMA RollBucketsAreCounted ==
    ASSUME NEW rows, NEW b
    PROVE  /\ IsFiniteSet(RollBucket(rows, b))
           /\ Roll!InBucket(rows, b) = Cardinality(RollBucket(rows, b))
           /\ Roll!InBucket(rows, b) \in Nat
<1>1. RollBucket(rows, b) \subseteq 1..MaxRows /\ IsFiniteSet(1..MaxRows)
  BY FS_Interval, RollupConstants DEF RollBucket, RollRowNumbers
<1>2. IsFiniteSet(RollBucket(rows, b))
  BY <1>1, FS_Subset
<1>3. Roll!InBucket(rows, b) = Cardinality(RollBucket(rows, b))
  BY RollCount DEF Roll!InBucket, RollBucket, RollRowNumbers
<1> QED BY <1>2, <1>3, FS_CardinalityType

LEMMA RollNoRowsCount ==
    ASSUME NEW b
    PROVE  Roll!InBucket(Roll!NoRows, b) = 0
<1>1. RollBucket(Roll!NoRows, b) = {}
  BY DEF RollBucket, Roll!NoRows, RollRowNumbers
<1> QED BY <1>1, RollBucketsAreCounted, FS_EmptySet

LEMMA RollTogetherCount ==
    ASSUME NEW S, NEW T, IsFiniteSet(S), IsFiniteSet(T), S \cap T = {}
    PROVE  /\ IsFiniteSet(S \cup T)
           /\ Cardinality(S \cup T) = Cardinality(S) + Cardinality(T)
<1>1. /\ IsFiniteSet(S \cup T)
      /\ Cardinality(S \cup T)
           = Cardinality(S) + Cardinality(T) - Cardinality(S \cap T)
  BY FS_Union
<1>2. Cardinality(S \cap T) = 0
  BY FS_EmptySet
<1>3. Cardinality(S) \in Nat /\ Cardinality(T) \in Nat
  BY FS_CardinalityType
<1> QED BY <1>1, <1>2, <1>3

\* Rows of which none is in both are counted together.
LEMMA RollCountsAdd ==
    ASSUME NEW r \in RollRowSets, NEW s \in RollRowSets, NEW both \in RollRowSets,
           NEW b,
           \A i \in RollRowNumbers : r[i] = 0 \/ s[i] = 0,
           \A i \in RollRowNumbers : both[i] = IF r[i] # 0 THEN r[i] ELSE s[i]
    PROVE  Roll!InBucket(both, b) = Roll!InBucket(r, b) + Roll!InBucket(s, b)
<1>1. RollBucket(both, b) = RollBucket(r, b) \cup RollBucket(s, b)
  BY DEF RollBucket
<1>2. RollBucket(r, b) \cap RollBucket(s, b) = {}
  BY DEF RollBucket
<1>3. /\ IsFiniteSet(RollBucket(r, b)) /\ IsFiniteSet(RollBucket(s, b))
      /\ Roll!InBucket(both, b) = Cardinality(RollBucket(both, b))
      /\ Roll!InBucket(r, b) = Cardinality(RollBucket(r, b))
      /\ Roll!InBucket(s, b) = Cardinality(RollBucket(s, b))
  BY RollBucketsAreCounted
<1>4. Cardinality(RollBucket(r, b) \cup RollBucket(s, b))
        = Cardinality(RollBucket(r, b)) + Cardinality(RollBucket(s, b))
  BY <1>2, <1>3, RollTogetherCount
<1> QED BY <1>1, <1>3, <1>4

\* What a commit makes of the log: rows are added that were not there, and rows
\* are removed that were there or are added.
RollCommits(old, added, removed, new) ==
    \A i \in RollRowNumbers :
        /\ added[i] = 0 \/ old[i] = 0
        /\ removed[i] # 0 => removed[i] = IF old[i] # 0 THEN old[i] ELSE added[i]
        /\ new[i] = IF removed[i] # 0 THEN 0
                    ELSE IF added[i] # 0 THEN added[i] ELSE old[i]

\* A commit changes the count of a bucket by what it adds less what it removes.
LEMMA RollCommitCounts ==
    ASSUME NEW old \in RollRowSets, NEW added \in RollRowSets,
           NEW removed \in RollRowSets, NEW new \in RollRowSets, NEW b,
           RollCommits(old, added, removed, new)
    PROVE  Roll!InBucket(new, b) = Roll!InBucket(old, b) + Roll!InBucket(added, b)
                                               - Roll!InBucket(removed, b)
<1>1. PICK both \in RollRowSets :
         \A i \in RollRowNumbers : both[i] = IF old[i] # 0 THEN old[i] ELSE added[i]
  <2>1. [i \in RollRowNumbers |-> IF old[i] # 0 THEN old[i] ELSE added[i]] \in RollRowSets
    BY DEF RollRowSets
  <2> QED BY <2>1
<1>2. Roll!InBucket(both, b) = Roll!InBucket(old, b) + Roll!InBucket(added, b)
  <2>1. \A i \in RollRowNumbers : old[i] = 0 \/ added[i] = 0
    BY DEF RollCommits
  <2> QED BY <2>1, <1>1, RollCountsAdd
<1>3. \A i \in RollRowNumbers : new[i] = 0 \/ removed[i] = 0
  BY DEF RollCommits
<1>4. \A i \in RollRowNumbers : both[i] = IF new[i] # 0 THEN new[i] ELSE removed[i]
  BY <1>1 DEF RollCommits
<1>5. Roll!InBucket(both, b) = Roll!InBucket(new, b) + Roll!InBucket(removed, b)
  BY <1>3, <1>4, RollCountsAdd
<1>6. /\ Roll!InBucket(old, b) \in Nat /\ Roll!InBucket(added, b) \in Nat
      /\ Roll!InBucket(new, b) \in Nat /\ Roll!InBucket(removed, b) \in Nat
  BY RollBucketsAreCounted
<1> QED BY <1>2, <1>5, <1>6

LEMMA RollSummaryIsTyped ==
    ASSUME NEW rows
    PROVE  /\ Roll!Summary(rows) \in [Roll!Buckets -> Int]
           /\ \A b \in Roll!Buckets : Roll!Summary(rows)[b] = Roll!InBucket(rows, b)
<1>1. \A b \in Roll!Buckets : Roll!InBucket(rows, b) \in Int
  BY RollBucketsAreCounted
<1> QED BY <1>1 DEF Roll!Summary

-----------------------------------------------------------------------------
(* Steps.                                                                  *)

\* The state of a writer without a transaction, and of one that begins.
LEMMA RollNoTxIsSound ==
    ASSUME NEW pc \in {"idle", "choose"}
    PROVE  /\ [Roll!NoTx EXCEPT !.pc = pc] \in RollTxStates
           /\ [Roll!NoTx EXCEPT !.pc = pc].pc = pc
           /\ \A i \in RollRowNumbers : /\ [Roll!NoTx EXCEPT !.pc = pc].added[i] = 0
                                    /\ [Roll!NoTx EXCEPT !.pc = pc].removed[i] = 0
           /\ [Roll!NoTx EXCEPT !.pc = pc].locked = {}
           /\ RollDeltaIsExact([Roll!NoTx EXCEPT !.pc = pc])
           /\ Roll!NoTx = [Roll!NoTx EXCEPT !.pc = "idle"]
<1>1. [Roll!NoTx EXCEPT !.pc = pc] =
        [pc |-> pc, chosen |-> {}, deletes |-> 0, locked |-> {}, held |-> {},
         added |-> Roll!NoRows, removed |-> Roll!NoRows, delta |-> [b \in Roll!Buckets |-> 0]]
  BY DEF Roll!NoTx
<1>2. Roll!NoRows \in RollRowSets /\ \A i \in RollRowNumbers : Roll!NoRows[i] = 0
  BY DEF Roll!NoRows, RollRowSets, RollRowNumbers
<1>3. [Roll!NoTx EXCEPT !.pc = pc] \in RollTxStates
  BY <1>1, <1>2 DEF RollTxStates
<1>4. RollDeltaIsExact([Roll!NoTx EXCEPT !.pc = pc])
  <2>1. \A b \in Roll!Buckets : Roll!InBucket(Roll!NoRows, b) = 0
    BY RollNoRowsCount
  <2> QED BY <1>1, <2>1 DEF RollDeltaIsExact
<1>5. Roll!NoTx = [Roll!NoTx EXCEPT !.pc = "idle"]
  BY DEF Roll!NoTx
<1> QED BY <1>1, <1>2, <1>3, <1>4, <1>5

\* One writer's transaction goes on to t, and nothing else happens.
LEMMA RollStepKeeps ==
    ASSUME RollInductive, NEW w \in Roll!Writers, NEW t \in RollTxStates,
           tx' = [tx EXCEPT ![w] = t],
           UNCHANGED <<minute, statistics, marker, phase>>,
           lastId' \in Nat, lastId' >= lastId,
           \A i \in RollRowNumbers : t.added[i] # 0 =>
              w = "writer" /\ i <= lastId' /\ minute[i] = 0,
           \A i \in RollRowNumbers : t.removed[i] # 0 =>
              /\ i \in t.locked
              /\ t.removed[i] = IF minute[i] # 0 THEN minute[i] ELSE t.added[i],
           t.pc = "lock" => \A i \in t.chosen : t.removed[i] = 0,
           \A u \in Roll!Writers \ {w} : t.locked \cap tx[u].locked = {},
           RollDeltaIsExact(t)
    PROVE  RollInductive'
<1>1. tx \in [Roll!Writers -> RollTxStates] /\ lastId \in Nat
  BY DEF RollInductive, RollTyped
<1>2. /\ tx' \in [Roll!Writers -> RollTxStates] /\ tx'[w] = t
      /\ \A u \in Roll!Writers \ {w} : tx'[u] = tx[u]
  BY <1>1
<1>3. RollTyped'
  BY <1>2 DEF RollInductive, RollTyped
<1>4. RollAddedAreNew'
  <2>1. RollAddedAreNew
    BY DEF RollInductive
  <2>2. \A i \in RollRowNumbers : i <= lastId => i <= lastId'
    BY <1>1 DEF RollRowNumbers
  <2> QED BY <2>1, <2>2, <1>2 DEF RollAddedAreNew
<1>5. RollRemovedAreLocked'
  <2>1. RollRemovedAreLocked
    BY DEF RollInductive
  <2>2. \A u, v \in Roll!Writers : u # v => tx'[u].locked \cap tx'[v].locked = {}
    BY <2>1, <1>2 DEF RollRemovedAreLocked
  <2>3. \A u \in Roll!Writers, i \in RollRowNumbers : tx'[u].removed[i] # 0 =>
          /\ i \in tx'[u].locked
          /\ tx'[u].removed[i] = IF minute[i] # 0 THEN minute[i]
                                                  ELSE tx'[u].added[i]
    BY <2>1, <1>2 DEF RollRemovedAreLocked
  <2>4. \A u \in Roll!Writers : tx'[u].pc = "lock" =>
          \A i \in tx'[u].chosen : tx'[u].removed[i] = 0
    BY <2>1, <1>2 DEF RollRemovedAreLocked
  <2> QED BY <2>2, <2>3, <2>4 DEF RollRemovedAreLocked
<1>6. RollDeltasAreExact'
  <2>1. \A u \in Roll!Writers : RollDeltaIsExact(tx'[u])
    BY <1>2 DEF RollInductive, RollDeltasAreExact
  <2> QED BY <2>1 DEF RollDeltasAreExact, RollDeltaIsExact
<1>7. RollMarkedIsRight'
  BY DEF RollInductive, RollMarkedIsRight
<1> QED BY <1>3, <1>4, <1>5, <1>6, <1>7 DEF RollInductive

\* The insertion of rows under the next numbers.
LEMMA RollBeginInsertKeeps ==
    ASSUME RollInductive, Roll!BeginInsert
    PROVE  RollInductive'
<1>1. PICK n \in 1..2, when \in [1..2 -> Minutes] :
         /\ lastId + n <= MaxRows /\ lastId' = lastId + n
         /\ LET rows == [i \in 1..MaxRows |->
                            IF i \in (lastId + 1)..(lastId + n) THEN when[i - lastId]
                            ELSE 0]
             IN  Roll!Step("writer", [Roll!NoTx EXCEPT !.pc = "upsert", !.added = rows,
                                             !.delta = Roll!Summary(rows)])
  BY DEF Roll!BeginInsert
<1>2. PICK rows :
         rows = [i \in 1..MaxRows |->
                   IF i \in (lastId + 1)..(lastId + n) THEN when[i - lastId] ELSE 0]
  OBVIOUS
<1>3. PICK t : t = [Roll!NoTx EXCEPT !.pc = "upsert", !.added = rows,
                                !.delta = Roll!Summary(rows)]
  OBVIOUS
<1>4. tx' = [tx EXCEPT !["writer"] = t]
  BY <1>1, <1>2, <1>3 DEF Roll!Step
<1>5. lastId \in Nat /\ lastId' = lastId + n
  BY <1>1 DEF RollInductive, RollTyped
<1>6. rows \in RollRowSets
  <2>1. \A i \in (lastId + 1)..(lastId + n) : i - lastId \in 1..2
    BY <1>5
  <2>2. \A i \in (lastId + 1)..(lastId + n) : when[i - lastId] \in Minutes
    BY <2>1
  <2> QED BY <1>2, <2>2 DEF RollRowSets, RollRowNumbers
<1>7. \A i \in RollRowNumbers : rows[i] # 0 => i > lastId /\ i <= lastId'
  <2>1. \A i \in RollRowNumbers : rows[i] # 0 => i \in (lastId + 1)..(lastId + n)
    BY <1>2 DEF RollRowNumbers
  <2> QED BY <2>1, <1>5 DEF RollRowNumbers
<1>8. \A i \in RollRowNumbers : i > lastId => minute[i] = 0
  BY <1>5 DEF RollInductive, RollAddedAreNew, RollRowNumbers
<1>9. t = [pc |-> "upsert", chosen |-> {}, deletes |-> 0, locked |-> {}, held |-> {},
           added |-> rows, removed |-> Roll!NoRows, delta |-> Roll!Summary(rows)]
  BY <1>3 DEF Roll!NoTx
<1>10. Roll!NoRows \in RollRowSets /\ \A i \in RollRowNumbers : Roll!NoRows[i] = 0
  BY DEF Roll!NoRows, RollRowSets, RollRowNumbers
<1>11. t \in RollTxStates
  <2>1. PICK sum \in [Roll!Buckets -> Int] : sum = Roll!Summary(rows)
    BY RollSummaryIsTyped
  <2>2. PICK none \in RollRowSets : none = Roll!NoRows
    BY <1>10
  <2>3. t = [pc |-> "upsert", chosen |-> {}, deletes |-> 0, locked |-> {},
             held |-> {}, added |-> rows, removed |-> none, delta |-> sum]
    BY <1>9, <2>1, <2>2
  <2>4. {} \in SUBSET RollRowNumbers /\ {} \in SUBSET Roll!Buckets /\ 0 \in Int
    OBVIOUS
  <2>5. rows \in RollRowSets /\ none \in RollRowSets /\ sum \in [Roll!Buckets -> Int]
    BY <1>6, <2>1, <2>2
  <2> QED BY ONLY <2>3, <2>4, <2>5 DEF RollTxStates
<1>12. RollDeltaIsExact(t)
  <2>1. \A b \in Roll!Buckets : /\ Roll!InBucket(Roll!NoRows, b) = 0 /\ Roll!InBucket(rows, b) \in Nat
                           /\ Roll!Summary(rows)[b] = Roll!InBucket(rows, b)
    BY RollNoRowsCount, RollBucketsAreCounted, RollSummaryIsTyped
  <2> QED BY <2>1, <1>9 DEF RollDeltaIsExact
<1>13. UNCHANGED <<minute, statistics, marker, phase>>
  BY DEF Roll!BeginInsert
<1>14. lastId' \in Nat /\ lastId' >= lastId
  BY <1>5
<1>15. /\ t.added = rows /\ t.removed = Roll!NoRows /\ t.locked = {}
       /\ t.pc # "lock"
  BY <1>9
<1>16. "writer" \in Roll!Writers
  BY DEF Roll!Writers
<1> QED BY <1>4, <1>7, <1>8, <1>10, <1>11, <1>12, <1>13, <1>14, <1>15, <1>16,
           RollStepKeeps

\* A transaction starts, or ends without effect.
LEMMA RollEmptyKeeps ==
    ASSUME RollInductive, NEW w \in Roll!Writers,
           NEW pc \in {"idle", "choose"}, Roll!Step(w, [Roll!NoTx EXCEPT !.pc = pc]),
           UNCHANGED <<minute, lastId, statistics, marker, phase>>
    PROVE  RollInductive'
<1>1. PICK t : t = [Roll!NoTx EXCEPT !.pc = pc]
  OBVIOUS
<1>2. /\ t \in RollTxStates /\ t.pc # "lock" /\ t.locked = {} /\ RollDeltaIsExact(t)
      /\ \A i \in RollRowNumbers : t.added[i] = 0 /\ t.removed[i] = 0
  BY <1>1, RollNoTxIsSound
<1>3. tx' = [tx EXCEPT ![w] = t]
  BY <1>1 DEF Roll!Step
<1>4. lastId' \in Nat /\ lastId' >= lastId
  BY DEF RollInductive, RollTyped
<1> QED BY <1>2, <1>3, <1>4, RollStepKeeps

\* Steps that only choose rows or take locks on counters.
LEMMA RollOnwardKeeps ==
    ASSUME RollInductive, NEW w \in Roll!Writers, NEW t \in RollTxStates,
           Roll!Step(w, t), Roll!Only(begun),
           t.added = tx[w].added, t.removed = tx[w].removed,
           t.locked = tx[w].locked, t.delta = tx[w].delta,
           t.pc = "lock" => \A i \in t.chosen : t.removed[i] = 0
    PROVE  RollInductive'
<1>1. tx' = [tx EXCEPT ![w] = t] /\ UNCHANGED <<minute, statistics, marker, phase>>
  BY DEF Roll!Step, Roll!Only
<1>2. lastId' \in Nat /\ lastId' >= lastId /\ lastId' = lastId
  BY DEF RollInductive, RollTyped, Roll!Only
<1>3. RollDeltaIsExact(t)
  BY DEF RollInductive, RollDeltasAreExact, RollDeltaIsExact
<1>4. /\ \A i \in RollRowNumbers : t.added[i] # 0 =>
            w = "writer" /\ i <= lastId' /\ minute[i] = 0
      /\ \A i \in RollRowNumbers : t.removed[i] # 0 =>
            /\ i \in t.locked
            /\ t.removed[i] = IF minute[i] # 0 THEN minute[i] ELSE t.added[i]
      /\ \A u \in Roll!Writers \ {w} : t.locked \cap tx[u].locked = {}
  BY <1>2 DEF RollInductive, RollAddedAreNew, RollRemovedAreLocked
<1> QED BY <1>1, <1>2, <1>3, <1>4, RollStepKeeps

LEMMA RollChooseKeeps ==
    ASSUME RollInductive, NEW w \in Roll!Writers, Roll!Choose(w)
    PROVE  RollInductive'
<1>1. tx[w] \in RollTxStates
  BY DEF RollInductive, RollTyped
<1>2. DOMAIN tx[w].added = RollRowNumbers /\ DOMAIN tx[w].removed = RollRowNumbers
  BY <1>1 DEF RollTxStates, RollRowSets
<1>3. PICK ids \in SUBSET ((Roll!Rows \cup {i \in RollRowNumbers : tx[w].added[i] # 0})
                           \ {i \in RollRowNumbers : tx[w].removed[i] # 0}) :
         Roll!Step(w, [tx[w] EXCEPT !.pc = "lock", !.chosen = ids, !.deletes = @ + 1])
  BY <1>2 DEF Roll!Choose
<1>4. PICK t : t = [tx[w] EXCEPT !.pc = "lock", !.chosen = ids, !.deletes = @ + 1]
  OBVIOUS
<1>5. ids \subseteq RollRowNumbers /\ \A i \in ids : tx[w].removed[i] = 0
  BY DEF Roll!Rows, RollRowNumbers
<1>6. t \in RollTxStates
  <2>1. PICK s \in RollTxStates : s = tx[w]
    BY <1>1
  <2>2. t = [s EXCEPT !.pc = "lock", !.chosen = ids, !.deletes = @ + 1]
    BY <1>4, <2>1
  <2>3. s.deletes + 1 \in Int /\ ids \in SUBSET RollRowNumbers
    BY <1>5 DEF RollTxStates
  <2> QED BY <2>2, <2>3 DEF RollTxStates
<1>7. /\ t.added = tx[w].added /\ t.removed = tx[w].removed
      /\ t.locked = tx[w].locked /\ t.delta = tx[w].delta /\ t.chosen = ids
  BY <1>1, <1>4 DEF RollTxStates
<1>8. Roll!Step(w, t) /\ Roll!Only(begun)
  BY <1>3, <1>4 DEF Roll!Choose
<1> QED BY <1>5, <1>6, <1>7, <1>8, RollOnwardKeeps

LEMMA RollUpsertKeeps ==
    ASSUME RollInductive, NEW w \in Roll!Writers, Roll!Upsert(w)
    PROVE  RollInductive'
<1>1. tx[w] \in RollTxStates
  BY DEF RollInductive, RollTyped
<1>2. PICK b \in Roll!NextBuckets(w) : Roll!Step(w, [tx[w] EXCEPT !.held = @ \cup {b}])
  BY DEF Roll!Upsert
<1>3. b \in Roll!Buckets
  BY <1>1 DEF Roll!NextBuckets, Roll!Unwritten, RollTxStates
<1>4. PICK t : t = [tx[w] EXCEPT !.held = @ \cup {b}]
  OBVIOUS
<1>5. t \in RollTxStates
  BY <1>1, <1>3, <1>4 DEF RollTxStates
<1>6. /\ t.added = tx[w].added /\ t.removed = tx[w].removed /\ t.pc = tx[w].pc
      /\ t.locked = tx[w].locked /\ t.delta = tx[w].delta
  BY <1>1, <1>4 DEF RollTxStates
<1>7. Roll!Step(w, t) /\ Roll!Only(begun) /\ t.pc # "lock"
  BY <1>2, <1>4, <1>6 DEF Roll!Upsert
<1> QED BY <1>5, <1>6, <1>7, RollOnwardKeeps

LEMMA RollProceedsKeeps ==
    ASSUME RollInductive, NEW w \in Roll!Writers, Roll!Proceeds(w)
    PROVE  RollInductive'
<1>1. tx[w] \in RollTxStates
  BY DEF RollInductive, RollTyped
<1>2. PICK next \in {"choose", "commit"} : Roll!Step(w, [tx[w] EXCEPT !.pc = next])
  BY DEF Roll!Proceeds
<1>3. PICK t : t = [tx[w] EXCEPT !.pc = next]
  OBVIOUS
<1>4. t \in RollTxStates
  BY <1>1, <1>3 DEF RollTxStates
<1>5. /\ t.added = tx[w].added /\ t.removed = tx[w].removed /\ t.pc = next
      /\ t.locked = tx[w].locked /\ t.delta = tx[w].delta
  BY <1>1, <1>3 DEF RollTxStates
<1>6. Roll!Step(w, t) /\ Roll!Only(begun) /\ t.pc # "lock"
  BY <1>2, <1>3, <1>5 DEF Roll!Proceeds
<1> QED BY <1>4, <1>5, <1>6, RollOnwardKeeps

\* A row that is found locked for the first time is removed once: a row that the
\* other transaction has removed is not there, or locked by it.
LEMMA RollLockAndDeleteKeeps ==
    ASSUME RollInductive, NEW w \in Roll!Writers, Roll!LockAndDelete(w)
    PROVE  RollInductive'
<1>1. tx[w] \in RollTxStates /\ minute \in RollRowSets
  BY DEF RollInductive, RollTyped
<1>2. PICK found : found = Roll!Latest(w)
  OBVIOUS
<1>3. PICK gone : gone = Roll!Summary(found)
  OBVIOUS
<1>4. PICK removed :
         removed = [i \in 1..MaxRows |->
                      IF found[i] # 0 THEN found[i] ELSE tx[w].removed[i]]
  OBVIOUS
<1>5. PICK delta : delta = [b \in Roll!Buckets |-> tx[w].delta[b] - gone[b]]
  OBVIOUS
<1>6. PICK t : t = [tx[w] EXCEPT !.pc = "upsert", !.locked = @ \cup tx[w].chosen,
                                 !.removed = removed, !.delta = delta]
  OBVIOUS
<1>7. Roll!Step(w, t) /\ Roll!Only(begun) /\ tx[w].pc = "lock"
      /\ \A u \in Roll!Writers \ {w} : tx[w].chosen \cap tx[u].locked = {}
  BY <1>2, <1>3, <1>4, <1>5, <1>6 DEF Roll!LockAndDelete
<1>8. /\ tx[w].chosen \subseteq RollRowNumbers /\ tx[w].added \in RollRowSets
      /\ tx[w].removed \in RollRowSets /\ tx[w].delta \in [Roll!Buckets -> Int]
  BY <1>1 DEF RollTxStates
<1>9. /\ found \in RollRowSets
      /\ \A i \in RollRowNumbers : found[i] =
            IF i \notin tx[w].chosen THEN 0
            ELSE IF minute[i] # 0 THEN minute[i] ELSE tx[w].added[i]
  BY <1>1, <1>2, <1>8 DEF Roll!Latest, RollRowSets, RollRowNumbers
<1>10. /\ removed \in RollRowSets
       /\ \A i \in RollRowNumbers :
             removed[i] = IF found[i] # 0 THEN found[i] ELSE tx[w].removed[i]
  BY <1>4, <1>8, <1>9 DEF RollRowSets, RollRowNumbers
<1>11. gone \in [Roll!Buckets -> Int] /\ \A b \in Roll!Buckets : gone[b] = Roll!InBucket(found, b)
  BY <1>3, RollSummaryIsTyped
<1>12. delta \in [Roll!Buckets -> Int]
  BY <1>5, <1>8, <1>11
<1>13. t \in RollTxStates
  BY <1>1, <1>6, <1>10, <1>12 DEF RollTxStates
<1>14. /\ t.added = tx[w].added /\ t.removed = removed /\ t.pc = "upsert"
       /\ t.locked = tx[w].locked \cup tx[w].chosen /\ t.delta = delta
  BY <1>1, <1>6 DEF RollTxStates
<1>15. \A i \in RollRowNumbers : found[i] = 0 \/ tx[w].removed[i] = 0
  BY <1>7, <1>9 DEF RollInductive, RollRemovedAreLocked
<1>16. RollDeltaIsExact(t)
  <2>1. SUFFICES ASSUME NEW b \in Roll!Buckets
                 PROVE  delta[b] = Roll!InBucket(tx[w].added, b) - Roll!InBucket(removed, b)
    BY <1>14 DEF RollDeltaIsExact
  <2>2. tx[w].delta[b] = Roll!InBucket(tx[w].added, b) - Roll!InBucket(tx[w].removed, b)
    BY DEF RollInductive, RollDeltasAreExact, RollDeltaIsExact
  <2>3. Roll!InBucket(removed, b) = Roll!InBucket(found, b) + Roll!InBucket(tx[w].removed, b)
    BY <1>8, <1>9, <1>10, <1>15, RollCountsAdd
  <2>4. delta[b] = tx[w].delta[b] - Roll!InBucket(found, b)
    BY <1>5, <1>11
  <2>5. /\ Roll!InBucket(tx[w].added, b) \in Nat /\ Roll!InBucket(tx[w].removed, b) \in Nat
        /\ Roll!InBucket(found, b) \in Nat
    BY RollBucketsAreCounted
  <2> QED BY <2>2, <2>3, <2>4, <2>5
<1>17. \A i \in RollRowNumbers : t.added[i] # 0 =>
          w = "writer" /\ i <= lastId /\ minute[i] = 0
  BY <1>14 DEF RollInductive, RollAddedAreNew
<1>18. \A i \in RollRowNumbers : t.removed[i] # 0 =>
          /\ i \in t.locked
          /\ t.removed[i] = IF minute[i] # 0 THEN minute[i] ELSE t.added[i]
  BY <1>9, <1>10, <1>14 DEF RollInductive, RollRemovedAreLocked
<1>19. \A u \in Roll!Writers \ {w} : t.locked \cap tx[u].locked = {}
  BY <1>7, <1>14 DEF RollInductive, RollRemovedAreLocked
<1>20. /\ lastId' \in Nat /\ lastId' >= lastId /\ lastId' = lastId
       /\ UNCHANGED <<minute, statistics, marker, phase>>
       /\ tx' = [tx EXCEPT ![w] = t] /\ t.pc # "lock"
  BY <1>7, <1>14 DEF Roll!Only, Roll!Step, RollInductive, RollTyped
<1> QED BY <1>13, <1>16, <1>17, <1>18, <1>19, <1>20, RollStepKeeps

\* What is committed is what the counters are told; the other transaction's rows
\* stay as they are.
LEMMA RollCommitKeeps ==
    ASSUME RollInductive, NEW w \in Roll!Writers, Roll!Commit(w)
    PROVE  RollInductive'
<1>1. /\ tx \in [Roll!Writers -> RollTxStates] /\ minute \in RollRowSets
      /\ RollAddedAreNew /\ RollRemovedAreLocked /\ statistics \in [Roll!Buckets -> Int]
  BY DEF RollInductive, RollTyped
<1>2. /\ tx[w].added \in RollRowSets /\ tx[w].removed \in RollRowSets
      /\ tx[w].delta \in [Roll!Buckets -> Int]
  BY <1>1 DEF RollTxStates
<1>3. /\ minute' \in RollRowSets
      /\ \A i \in RollRowNumbers :
            minute'[i] = IF tx[w].removed[i] # 0 THEN 0
                         ELSE IF tx[w].added[i] # 0 THEN tx[w].added[i]
                         ELSE minute[i]
  BY <1>1, <1>2 DEF Roll!Commit, RollRowSets, RollRowNumbers
<1>4. /\ statistics' = [b \in Roll!Buckets |-> statistics[b] + tx[w].delta[b]]
      /\ UNCHANGED <<lastId, marker, phase>>
      /\ tx' = [tx EXCEPT ![w] = Roll!NoTx]
  BY DEF Roll!Commit, Roll!Step
<1>5. PICK none : none = Roll!NoTx
  OBVIOUS
<1>6. /\ none \in RollTxStates /\ none.pc = "idle" /\ none.locked = {}
      /\ RollDeltaIsExact(none)
      /\ \A i \in RollRowNumbers : none.added[i] = 0 /\ none.removed[i] = 0
  BY <1>5, RollNoTxIsSound
<1>7. /\ tx' \in [Roll!Writers -> RollTxStates] /\ tx'[w] = none
      /\ \A u \in Roll!Writers \ {w} : tx'[u] = tx[u]
  BY <1>1, <1>4, <1>5, <1>6
<1>8. RollTyped'
  <2>1. statistics' \in [Roll!Buckets -> Int]
    BY <1>1, <1>2, <1>4
  <2> QED BY <2>1, <1>3, <1>4, <1>7 DEF RollInductive, RollTyped
<1>9. RollAddedAreNew'
  <2>1. \A i \in RollRowNumbers : minute'[i] # 0 => i <= lastId'
    BY <1>1, <1>3, <1>4 DEF RollAddedAreNew
  <2>2. \A u \in Roll!Writers, i \in RollRowNumbers : tx'[u].added[i] # 0 =>
           u = "writer" /\ i <= lastId' /\ minute'[i] = 0
    <3> TAKE u \in Roll!Writers, i \in RollRowNumbers
    <3> HAVE tx'[u].added[i] # 0
    <3>1. u # w /\ tx'[u] = tx[u]
      BY <1>6, <1>7
    <3>2. u = "writer" /\ i <= lastId /\ minute[i] = 0
      BY <3>1, <1>1 DEF RollAddedAreNew
    <3>3. tx[w].added[i] = 0
      BY <3>1, <3>2, <1>1 DEF RollAddedAreNew
    <3> QED BY <3>2, <3>3, <1>3, <1>4
  <2> QED BY <2>1, <2>2 DEF RollAddedAreNew
<1>10. RollRemovedAreLocked'
  <2>1. \A u, v \in Roll!Writers : u # v => tx'[u].locked \cap tx'[v].locked = {}
    BY <1>1, <1>6, <1>7 DEF RollRemovedAreLocked
  <2>2. \A u \in Roll!Writers : tx'[u].pc = "lock" =>
          \A i \in tx'[u].chosen : tx'[u].removed[i] = 0
    BY <1>1, <1>6, <1>7 DEF RollRemovedAreLocked
  <2>3. \A u \in Roll!Writers, i \in RollRowNumbers : tx'[u].removed[i] # 0 =>
          /\ i \in tx'[u].locked
          /\ tx'[u].removed[i] = IF minute'[i] # 0 THEN minute'[i]
                                                   ELSE tx'[u].added[i]
    <3> TAKE u \in Roll!Writers, i \in RollRowNumbers
    <3> HAVE tx'[u].removed[i] # 0
    <3>1. u # w /\ tx'[u] = tx[u]
      BY <1>6, <1>7
    <3>2. /\ i \in tx[u].locked
          /\ tx[u].removed[i] = IF minute[i] # 0 THEN minute[i] ELSE tx[u].added[i]
          /\ tx[u].removed[i] # 0
      BY <3>1, <1>1 DEF RollRemovedAreLocked
    <3>3. tx[w].removed[i] = 0
      BY <3>1, <3>2, <1>1 DEF RollRemovedAreLocked
    <3>4. tx[w].added[i] = 0
      BY <3>1, <3>2, <1>1 DEF RollAddedAreNew
    <3> QED BY <3>1, <3>2, <3>3, <3>4, <1>3
  <2> QED BY <2>1, <2>2, <2>3 DEF RollRemovedAreLocked
<1>11. RollDeltasAreExact'
  <2>1. \A u \in Roll!Writers : RollDeltaIsExact(tx'[u])
    BY <1>6, <1>7 DEF RollInductive, RollDeltasAreExact
  <2> QED BY <2>1 DEF RollDeltasAreExact, RollDeltaIsExact
<1>12. RollMarkedIsRight'
  <2>1. ASSUME marker PROVE statistics' = Roll!Summary(minute')
    <3>1. \A b \in Roll!Buckets : statistics'[b] = Roll!InBucket(minute', b)
      <4> TAKE b \in Roll!Buckets
      <4>1. statistics[b] = Roll!InBucket(minute, b)
        BY <2>1, RollSummaryIsTyped DEF RollInductive, RollMarkedIsRight
      <4>2. tx[w].delta[b] = Roll!InBucket(tx[w].added, b) - Roll!InBucket(tx[w].removed, b)
        BY DEF RollInductive, RollDeltasAreExact, RollDeltaIsExact
      <4>3. Roll!InBucket(minute', b) = Roll!InBucket(minute, b) + Roll!InBucket(tx[w].added, b)
                                                   - Roll!InBucket(tx[w].removed, b)
        <5>1. RollCommits(minute, tx[w].added, tx[w].removed, minute')
          BY <1>1, <1>3 DEF RollAddedAreNew, RollRemovedAreLocked, RollCommits
        <5> QED BY <5>1, <1>1, <1>2, <1>3, RollCommitCounts
      <4>4. /\ Roll!InBucket(minute, b) \in Nat /\ Roll!InBucket(tx[w].added, b) \in Nat
            /\ Roll!InBucket(tx[w].removed, b) \in Nat
        BY RollBucketsAreCounted
      <4>5. statistics'[b] = statistics[b] + tx[w].delta[b]
        BY <1>4
      <4> QED BY <4>1, <4>2, <4>3, <4>4, <4>5
    <3>2. Roll!Summary(minute') = [b \in Roll!Buckets |-> Roll!InBucket(minute', b)]
      BY DEF Roll!Summary
    <3>3. statistics' = [b \in Roll!Buckets |-> statistics'[b]]
      BY <1>4
    <3> QED BY <3>1, <3>2, <3>3
  <2>2. Roll!Summary(minute') = Roll!Summary(minute)'
    BY RollCount DEF Roll!Summary, Roll!InBucket
  <2> QED BY <2>1, <2>2, <1>4 DEF RollInductive, RollMarkedIsRight
<1> QED BY <1>8, <1>9, <1>10, <1>11, <1>12 DEF RollInductive

\* A start of the process: no transaction is open, or none is touched.
LEMMA RollStartKeeps ==
    ASSUME RollInductive, Roll!CreateTable \/ Roll!Backfill \/ Roll!Proceed
    PROVE  RollInductive'
<1>1. UNCHANGED <<minute, lastId, tx>>
  BY DEF Roll!CreateTable, Roll!Backfill, Roll!Proceed
<1>2. phase' \in {"absent", "created", "running"} /\ marker' \in BOOLEAN
      /\ statistics' \in [Roll!Buckets -> Int]
  BY RollSummaryIsTyped
     DEF Roll!CreateTable, Roll!Backfill, Roll!Backfills, Roll!Proceed, RollInductive, RollTyped
<1>3. RollTyped'
  BY <1>1, <1>2 DEF RollInductive, RollTyped
<1>4. RollAddedAreNew' /\ RollRemovedAreLocked' /\ RollDeltasAreExact'
  BY <1>1 DEF RollInductive, RollAddedAreNew, RollRemovedAreLocked, RollDeltasAreExact, RollDeltaIsExact
<1>5. RollMarkedIsRight'
  <2>1. Roll!Summary(minute)' = Roll!Summary(minute)
    BY <1>1, RollCount DEF Roll!Summary, Roll!InBucket
  <2> QED BY <2>1 DEF Roll!CreateTable, Roll!Backfill, Roll!Backfills, Roll!Proceed, RollInductive,
          RollMarkedIsRight
<1> QED BY <1>3, <1>4, <1>5 DEF RollInductive

LEMMA RollCrashKeeps == ASSUME RollInductive, Roll!Crash PROVE RollInductive'
<1>1. PICK none : none = Roll!NoTx
  OBVIOUS
<1>2. /\ none \in RollTxStates /\ none.pc = "idle" /\ none.locked = {}
      /\ RollDeltaIsExact(none)
      /\ \A i \in RollRowNumbers : none.added[i] = 0 /\ none.removed[i] = 0
  BY <1>1, RollNoTxIsSound
<1>3. /\ tx' = [u \in Roll!Writers |-> none] /\ phase' = "created"
      /\ UNCHANGED <<minute, lastId, statistics, marker>>
  BY <1>1 DEF Roll!Crash
<1>4. RollTyped'
  BY <1>2, <1>3 DEF RollInductive, RollTyped
<1>5. RollAddedAreNew' /\ RollRemovedAreLocked'
  BY <1>2, <1>3 DEF RollInductive, RollAddedAreNew, RollRemovedAreLocked
<1>6. RollDeltasAreExact'
  <2>1. \A u \in Roll!Writers : RollDeltaIsExact(tx'[u])
    BY <1>2, <1>3
  <2> QED BY <2>1 DEF RollDeltasAreExact, RollDeltaIsExact
<1>7. RollMarkedIsRight'
  BY <1>3, RollCount DEF RollInductive, RollMarkedIsRight, Roll!Summary, Roll!InBucket
<1> QED BY <1>4, <1>5, <1>6, <1>7 DEF RollInductive

-----------------------------------------------------------------------------
(* The theorems.                                                           *)

LEMMA RollInitInductive == ASSUME Roll!Init PROVE RollInductive
<1>1. PICK n \in 0..2 : \E rows \in [1..n -> Minutes] : Roll!Setup(rows)
  BY DEF Roll!Init
<1>2. PICK rows \in [1..n -> Minutes] : Roll!Setup(rows)
  BY <1>1
<1>3. PICK none : none = Roll!NoTx
  OBVIOUS
<1>4. /\ none \in RollTxStates /\ none.pc = "idle" /\ none.locked = {}
      /\ RollDeltaIsExact(none)
      /\ \A i \in RollRowNumbers : none.added[i] = 0 /\ none.removed[i] = 0
  BY <1>3, RollNoTxIsSound
<1>5. /\ minute = [i \in 1..MaxRows |-> IF i \in 1..n THEN rows[i] ELSE 0]
      /\ lastId = n /\ statistics = [b \in Roll!Buckets |-> 0] /\ marker = FALSE
      /\ phase = "absent" /\ tx = [w \in Roll!Writers |-> none]
  <2>1. Cardinality(1..n) = n
    <3>1. Cardinality(1..n) = IF 1 > n THEN 0 ELSE n - 1 + 1
      BY FS_Interval
    <3> QED BY <3>1
  <2> QED BY <2>1, <1>2, <1>3, RollCount DEF Roll!Setup
<1>6. minute \in RollRowSets
  BY <1>5 DEF RollRowSets, RollRowNumbers
<1>7. RollTyped
  <2>1. lastId \in Nat
    <3>1. n \in Nat
      BY <1>1
    <3>2. lastId = n
      BY <1>5
    <3> QED BY <3>1, <3>2
  <2>2. statistics \in [Roll!Buckets -> Int]
    BY <1>5
  <2>3. tx \in [Roll!Writers -> RollTxStates]
    BY <1>4, <1>5
  <2> QED BY <1>5, <1>6, <2>1, <2>2, <2>3 DEF RollTyped
<1>8. RollAddedAreNew /\ RollRemovedAreLocked
  <2>1. \A i \in RollRowNumbers : minute[i] # 0 => i <= lastId
    BY <1>5 DEF RollRowNumbers
  <2> QED BY <2>1, <1>4, <1>5 DEF RollAddedAreNew, RollRemovedAreLocked
<1>9. RollDeltasAreExact /\ RollMarkedIsRight
  BY <1>4, <1>5 DEF RollDeltasAreExact, RollMarkedIsRight
<1> QED BY <1>7, <1>8, <1>9 DEF RollInductive

LEMMA RollNextInductive ==
    ASSUME RollInductive, [Roll!Next]_(Roll!rollupVars)
    PROVE  RollInductive'
<1>1. CASE UNCHANGED Roll!rollupVars
  BY <1>1 DEF Roll!rollupVars, RollInductive, RollTyped, RollAddedAreNew, RollRemovedAreLocked,
     RollDeltasAreExact, RollDeltaIsExact, RollMarkedIsRight, Roll!Summary, Roll!InBucket
<1>2. CASE Roll!CreateTable \/ Roll!Backfill \/ Roll!Proceed
  BY <1>2, RollStartKeeps
<1>3. CASE Roll!BeginInsert
  BY <1>3, RollBeginInsertKeeps
<1>4. CASE Roll!Crash
  BY <1>4, RollCrashKeeps
<1>5. ASSUME NEW w \in Roll!Writers, Roll!BeginPrune(w) \/ Roll!Abort(w)
      PROVE  RollInductive'
  <2>1. Roll!NoTx = [Roll!NoTx EXCEPT !.pc = "idle"]
    BY RollNoTxIsSound
  <2>2. CASE Roll!BeginPrune(w)
    BY <2>2, RollEmptyKeeps DEF Roll!BeginPrune, Roll!Begins
  <2>3. CASE Roll!Abort(w)
    BY <2>1, <2>3, RollEmptyKeeps DEF Roll!Abort, Roll!Only
  <2> QED BY <1>5, <2>2, <2>3
<1>6. ASSUME NEW w \in Roll!Writers,
             \/ Roll!Choose(w) \/ Roll!LockAndDelete(w) \/ Roll!Upsert(w) \/ Roll!Proceeds(w) \/ Roll!Commit(w)
      PROVE  RollInductive'
  BY <1>6, RollChooseKeeps, RollLockAndDeleteKeeps, RollUpsertKeeps, RollProceedsKeeps, RollCommitKeeps
<1> QED BY <1>1, <1>2, <1>3, <1>4, <1>5, <1>6 DEF Roll!Next

\* The invariant holds throughout: what open transactions add, remove and lock
\* explains every difference between the counters and the log.
THEOREM RollInvariance == Roll!Spec => []RollInductive
<1>1. Roll!Init => RollInductive
  BY RollInitInductive
<1>2. RollInductive /\ [Roll!Next]_(Roll!rollupVars) => RollInductive'
  BY RollNextInductive
<1> QED BY <1>1, <1>2, PTL DEF Roll!Spec

LEMMA RollInductiveIsEnough == RollInductive => Roll!StatisticsMatchLog
BY DEF RollInductive, RollMarkedIsRight, Roll!StatisticsMatchLog

\* While the application runs, the retained counters are those of the log, after
\* any insertions, prunings, rollbacks, crashes and starts.
THEOREM RollStatisticsAreRight == Roll!Spec => []Roll!StatisticsMatchLog
<1>1. RollInductive => Roll!StatisticsMatchLog
  BY RollInductiveIsEnough
<1> QED BY <1>1, RollInvariance, PTL

-----------------------------------------------------------------------------
(* Which transactions can wait for each other.                             *)

RollRoundsOf(t) == t.deletes + (IF t.added = Roll!NoRows THEN 0 ELSE 1)

\* Buckets are locked in their order.
RollHeldInOrder(t) ==
    \A h \in t.held : \A b \in Roll!Buckets \ t.held : t.delta[b] # 0 => h < b

\* In its first round a transaction has no locks before it writes counters, and
\* takes them in order.
RollRoundIsSound(t) ==
    /\ t.deletes \in Nat
    /\ t.pc = "choose" /\ RollRoundsOf(t) = 0 => t.locked = {} /\ t.held = {}
    /\ t.pc = "lock" => /\ RollRoundsOf(t) >= 1
                        /\ RollRoundsOf(t) = 1 => t.locked = {} /\ t.held = {}
    /\ t.pc = "upsert" => /\ RollRoundsOf(t) >= 1
                          /\ RollRoundsOf(t) = 1 => RollHeldInOrder(t)

RollRoundsAreSound == \A w \in Roll!Writers : RollRoundIsSound(tx[w])

LEMMA RollBucketsAreNumbers == Roll!Buckets \subseteq Nat
<1>1. Cardinality(Minutes) \in Nat
  BY RollupConstants, FS_CardinalityType
<1>2. Roll!Cardinality(Minutes) = Cardinality(Minutes)
  BY RollCount
<1>3. Roll!Total \in Nat
  BY <1>1, <1>2 DEF Roll!Total
<1>4. Minutes \subseteq Nat
  BY RollupConstants
<1> QED BY <1>3, <1>4 DEF Roll!Buckets

LEMMA RollNoTxRound ==
    ASSUME NEW t, NEW pc \in {"idle", "choose"}, t = [Roll!NoTx EXCEPT !.pc = pc]
    PROVE  RollRoundIsSound(t)
<1>1. /\ t.pc = pc /\ t.deletes = 0 /\ t.added = Roll!NoRows
      /\ t.locked = {} /\ t.held = {}
  BY DEF Roll!NoTx
<1> QED BY <1>1 DEF RollRoundIsSound, RollRoundsOf

LEMMA RollStepStaysSound ==
    ASSUME RollTyped, RollRoundsAreSound, NEW w \in Roll!Writers, NEW t,
           Roll!Step(w, t), RollRoundIsSound(t)
    PROVE  RollRoundsAreSound'
<1>1. tx'[w] = t /\ \A u \in Roll!Writers \ {w} : tx'[u] = tx[u]
  BY DEF RollTyped, Roll!Step
<1>2. \A u \in Roll!Writers : RollRoundIsSound(tx'[u])
  BY <1>1 DEF RollRoundsAreSound
<1> QED BY <1>2 DEF RollRoundsAreSound, RollRoundIsSound, RollRoundsOf, RollHeldInOrder

LEMMA RollInsertRound ==
    ASSUME RollTyped, RollRoundsAreSound, Roll!BeginInsert
    PROVE  RollRoundsAreSound'
<1>1. PICK n \in 1..2, when \in [1..2 -> Minutes] :
         /\ lastId + n <= MaxRows
         /\ LET rows == [i \in 1..MaxRows |->
                            IF i \in (lastId + 1)..(lastId + n) THEN when[i - lastId]
                            ELSE 0]
             IN  Roll!Step("writer", [Roll!NoTx EXCEPT !.pc = "upsert", !.added = rows,
                                             !.delta = Roll!Summary(rows)])
  BY DEF Roll!BeginInsert
<1>2. PICK rows :
         rows = [i \in 1..MaxRows |->
                   IF i \in (lastId + 1)..(lastId + n) THEN when[i - lastId] ELSE 0]
  OBVIOUS
<1>3. PICK t : t = [Roll!NoTx EXCEPT !.pc = "upsert", !.added = rows,
                                !.delta = Roll!Summary(rows)]
  OBVIOUS
<1>4. rows # Roll!NoRows
  <2>1. lastId + 1 \in 1..MaxRows /\ lastId + 1 \in (lastId + 1)..(lastId + n)
    BY <1>1, RollupConstants DEF RollTyped
  <2>2. rows[lastId + 1] = when[1]
    BY <1>2, <2>1 DEF RollTyped
  <2>3. when[1] # 0
    BY RollupConstants
  <2> QED BY <2>1, <2>2, <2>3 DEF Roll!NoRows
<1>5. t.pc = "upsert" /\ t.added = rows /\ t.deletes = 0 /\ t.held = {}
  BY <1>3 DEF Roll!NoTx
<1>6. RollRoundIsSound(t)
  BY <1>4, <1>5 DEF RollRoundIsSound, RollRoundsOf, RollHeldInOrder
<1>7. "writer" \in Roll!Writers /\ Roll!Step("writer", t)
  BY <1>1, <1>2, <1>3 DEF Roll!Writers
<1> QED BY <1>6, <1>7, RollStepStaysSound

LEMMA RollChooseRound ==
    ASSUME RollTyped, RollRoundsAreSound, NEW w \in Roll!Writers, Roll!Choose(w)
    PROVE  RollRoundsAreSound'
<1>1. tx[w] \in RollTxStates /\ RollRoundIsSound(tx[w]) /\ tx[w].pc = "choose"
  BY DEF RollTyped, RollRoundsAreSound, Roll!Choose
<1>2. PICK ids : Roll!Step(w, [tx[w] EXCEPT !.pc = "lock", !.chosen = ids, !.deletes = @ + 1])
  BY DEF Roll!Choose
<1>3. PICK t : t = [tx[w] EXCEPT !.pc = "lock", !.chosen = ids, !.deletes = @ + 1]
  OBVIOUS
<1>4. /\ t.pc = "lock" /\ t.deletes = tx[w].deletes + 1 /\ t.added = tx[w].added
      /\ t.locked = tx[w].locked /\ t.held = tx[w].held
  BY <1>1, <1>3 DEF RollTxStates
<1>5. RollRoundIsSound(t)
  BY <1>1, <1>4 DEF RollRoundIsSound, RollRoundsOf
<1> QED BY <1>2, <1>3, <1>5, RollStepStaysSound

LEMMA RollLockRound ==
    ASSUME RollTyped, RollRoundsAreSound, NEW w \in Roll!Writers, Roll!LockAndDelete(w)
    PROVE  RollRoundsAreSound'
<1>1. tx[w] \in RollTxStates /\ RollRoundIsSound(tx[w]) /\ tx[w].pc = "lock"
  BY DEF RollTyped, RollRoundsAreSound, Roll!LockAndDelete
<1>2. PICK locked, removed, delta :
         Roll!Step(w, [tx[w] EXCEPT !.pc = "upsert", !.locked = locked,
                                    !.removed = removed, !.delta = delta])
  BY DEF Roll!LockAndDelete
<1>3. PICK t : t = [tx[w] EXCEPT !.pc = "upsert", !.locked = locked,
                                 !.removed = removed, !.delta = delta]
  OBVIOUS
<1>4. /\ t.pc = "upsert" /\ t.deletes = tx[w].deletes /\ t.added = tx[w].added
      /\ t.held = tx[w].held
  BY <1>1, <1>3 DEF RollTxStates
<1>5. RollRoundIsSound(t)
  BY <1>1, <1>4 DEF RollRoundIsSound, RollRoundsOf, RollHeldInOrder
<1> QED BY <1>2, <1>3, <1>5, RollStepStaysSound

\* The next bucket comes before the others that are still to be written.
LEMMA RollUpsertRound ==
    ASSUME RollTyped, RollRoundsAreSound, NEW w \in Roll!Writers, Roll!Upsert(w)
    PROVE  RollRoundsAreSound'
<1>1. tx[w] \in RollTxStates /\ RollRoundIsSound(tx[w]) /\ tx[w].pc = "upsert"
  BY DEF RollTyped, RollRoundsAreSound, Roll!Upsert
<1>2. PICK b \in Roll!NextBuckets(w) : Roll!Step(w, [tx[w] EXCEPT !.held = @ \cup {b}])
  BY DEF Roll!Upsert
<1>3. PICK t : t = [tx[w] EXCEPT !.held = @ \cup {b}]
  OBVIOUS
<1>4. /\ t.pc = "upsert" /\ t.deletes = tx[w].deletes /\ t.added = tx[w].added
      /\ t.held = tx[w].held \cup {b} /\ t.delta = tx[w].delta
  BY <1>1, <1>3 DEF RollTxStates
<1>5. RollHeldInOrder(tx[w]) => RollHeldInOrder(t)
  <2>1. /\ b \in Roll!Buckets
        /\ \A c \in Roll!Buckets \ tx[w].held : tx[w].delta[c] # 0 => b <= c
    BY DEF Roll!NextBuckets, Roll!Unwritten
  <2> QED BY <1>4, <2>1, RollBucketsAreNumbers DEF RollHeldInOrder
<1>6. RollRoundIsSound(t)
  BY <1>1, <1>4, <1>5 DEF RollRoundIsSound, RollRoundsOf
<1> QED BY <1>2, <1>3, <1>6, RollStepStaysSound

LEMMA RollProceedsRound ==
    ASSUME RollTyped, RollRoundsAreSound, NEW w \in Roll!Writers, Roll!Proceeds(w)
    PROVE  RollRoundsAreSound'
<1>1. tx[w] \in RollTxStates /\ RollRoundIsSound(tx[w]) /\ tx[w].pc = "upsert"
  BY DEF RollTyped, RollRoundsAreSound, Roll!Proceeds
<1>2. PICK next \in {"choose", "commit"} : Roll!Step(w, [tx[w] EXCEPT !.pc = next])
  BY DEF Roll!Proceeds
<1>3. PICK t : t = [tx[w] EXCEPT !.pc = next]
  OBVIOUS
<1>4. t.pc = next /\ t.deletes = tx[w].deletes /\ t.added = tx[w].added
  BY <1>1, <1>3 DEF RollTxStates
<1>5. RollRoundIsSound(t)
  BY <1>1, <1>4 DEF RollRoundIsSound, RollRoundsOf
<1> QED BY <1>2, <1>3, <1>5, RollStepStaysSound

LEMMA RollRoundsNext ==
    ASSUME RollTyped, RollRoundsAreSound, [Roll!Next]_(Roll!rollupVars)
    PROVE  RollRoundsAreSound'
<1>1. CASE tx' = tx
  BY <1>1 DEF RollRoundsAreSound, RollRoundIsSound, RollRoundsOf, RollHeldInOrder
<1>2. CASE Roll!Crash
  <2>1. Roll!NoTx = [Roll!NoTx EXCEPT !.pc = "idle"]
    BY DEF Roll!NoTx
  <2>2. \A w \in Roll!Writers : tx'[w] = Roll!NoTx
    BY <1>2 DEF Roll!Crash
  <2>3. \A w \in Roll!Writers : RollRoundIsSound(tx'[w])
    BY <2>1, <2>2, RollNoTxRound
  <2> QED BY <2>3 DEF RollRoundsAreSound, RollRoundIsSound, RollRoundsOf, RollHeldInOrder
<1>3. ASSUME NEW w \in Roll!Writers,
             Roll!BeginPrune(w) \/ Roll!Abort(w) \/ Roll!Commit(w)
      PROVE  RollRoundsAreSound'
  <2>1. Roll!NoTx = [Roll!NoTx EXCEPT !.pc = "idle"]
    BY DEF Roll!NoTx
  <2>2. PICK pc \in {"idle", "choose"} : Roll!Step(w, [Roll!NoTx EXCEPT !.pc = pc])
    BY <1>3, <2>1 DEF Roll!BeginPrune, Roll!Abort, Roll!Commit
  <2>3. PICK t : t = [Roll!NoTx EXCEPT !.pc = pc]
    OBVIOUS
  <2>4. RollRoundIsSound(t)
    BY <2>3, RollNoTxRound
  <2> QED BY <2>2, <2>3, <2>4, RollStepStaysSound
<1>4. ASSUME NEW w \in Roll!Writers,
             Roll!Choose(w) \/ Roll!LockAndDelete(w) \/ Roll!Upsert(w) \/ Roll!Proceeds(w)
      PROVE  RollRoundsAreSound'
  BY <1>4, RollChooseRound, RollLockRound, RollUpsertRound, RollProceedsRound
<1>5. CASE Roll!CreateTable \/ Roll!Backfill \/ Roll!Proceed
  BY <1>1, <1>5 DEF Roll!CreateTable, Roll!Backfill, Roll!Proceed
<1>6. CASE UNCHANGED Roll!rollupVars
  BY <1>1, <1>6 DEF Roll!rollupVars
<1> QED BY <1>2, <1>3, <1>4, <1>5, <1>6, RollInsertRound DEF Roll!Next

LEMMA RollRoundsInit == ASSUME Roll!Init PROVE RollRoundsAreSound
<1>1. Roll!NoTx = [Roll!NoTx EXCEPT !.pc = "idle"]
  BY DEF Roll!NoTx
<1>2. \A w \in Roll!Writers : tx[w] = Roll!NoTx
  BY DEF Roll!Init, Roll!Setup
<1> QED BY <1>1, <1>2, RollNoTxRound DEF RollRoundsAreSound

\* Of two transactions in their first round one waits for the other's buckets,
\* which come before its own, or for its rows, when it has no buckets yet.
LEMMA RollFirstRoundsDoNotDeadlock ==
    ASSUME RollTyped, RollRoundsAreSound
    PROVE  Roll!DeadlocksNeedTwoRounds
<1> SUFFICES ASSUME Roll!WaitsFor("writer", "prune_now"), Roll!WaitsFor("prune_now", "writer"),
                    \A w \in Roll!Writers : ~(Roll!Rounds(w) > 1)
             PROVE  FALSE
  BY DEF Roll!DeadlocksNeedTwoRounds
<1> DEFINE v == tx["writer"]
           u == tx["prune_now"]
<1>1. /\ RollRoundIsSound(v) /\ RollRoundIsSound(u)
      /\ v \in RollTxStates /\ u \in RollTxStates
      /\ RollRoundsOf(v) <= 1 /\ RollRoundsOf(u) <= 1
  <2>1. "writer" \in Roll!Writers /\ "prune_now" \in Roll!Writers
    BY DEF Roll!Writers
  <2>2. RollRoundIsSound(v) /\ RollRoundIsSound(u)
    BY <2>1 DEF RollRoundsAreSound
  <2>3. ~(RollRoundsOf(v) > 1) /\ ~(RollRoundsOf(u) > 1)
    BY <2>1 DEF Roll!Rounds, RollRoundsOf
  <2> QED BY <2>1, <2>2, <2>3 DEF RollTyped, RollRoundIsSound, RollRoundsOf
<1>2. /\ \/ v.pc = "lock" /\ v.chosen \cap u.locked # {}
         \/ v.pc = "upsert" /\ \E b \in Roll!NextBuckets("writer") : b \in u.held
      /\ \/ u.pc = "lock" /\ u.chosen \cap v.locked # {}
         \/ u.pc = "upsert" /\ \E b \in Roll!NextBuckets("prune_now") : b \in v.held
  BY DEF Roll!WaitsFor
<1>3. /\ RollRoundsOf(v) \in Nat /\ RollRoundsOf(u) \in Nat
      /\ v.pc = "lock" => v.locked = {} /\ v.held = {}
      /\ u.pc = "lock" => u.locked = {} /\ u.held = {}
      /\ v.pc = "upsert" => RollHeldInOrder(v)
      /\ u.pc = "upsert" => RollHeldInOrder(u)
  BY <1>1 DEF RollRoundIsSound, RollRoundsOf
<1>4. v.pc = "upsert" /\ u.pc = "upsert"
  BY <1>2, <1>3
<1>5. PICK b \in Roll!NextBuckets("writer"), c \in Roll!NextBuckets("prune_now") :
         b \in u.held /\ c \in v.held
  BY <1>2, <1>4
<1>6. /\ b \in Roll!Buckets \ v.held /\ v.delta[b] # 0
      /\ c \in Roll!Buckets \ u.held /\ u.delta[c] # 0
  BY DEF Roll!NextBuckets, Roll!Unwritten
<1>7. c < b /\ b < c
  BY <1>3, <1>4, <1>5, <1>6 DEF RollHeldInOrder
<1> QED BY <1>6, <1>7, RollBucketsAreNumbers

-----------------------------------------------------------------------------
(* Sequences that hold nothing twice, as ordered dictionaries are modelled. *)

LEMMA RemovedAt ==
    ASSUME NEW S, NEW s \in Seq(S), NEW i \in 1..Len(s)
    PROVE  LET t == RemoveAt(s, i)
           IN  /\ t \in Seq(S) /\ Len(t) = Len(s) - 1
               /\ \A k \in 1..(i - 1) : t[k] = s[k]
               /\ \A k \in i..(Len(s) - 1) : t[k] = s[k + 1]
<1> DEFINE a == SubSeq(s, 1, i - 1)
           b == SubSeq(s, i + 1, Len(s))
<1>1. a \in Seq(S) /\ Len(a) = i - 1 /\ \A k \in 1..(i - 1) : a[k] = s[k]
  OBVIOUS
<1>2. b \in Seq(S) /\ Len(b) = Len(s) - i /\ \A k \in 1..(Len(s) - i) : b[k] = s[i + k]
  OBVIOUS
<1>3. RemoveAt(s, i) = a \o b
  BY DEF RemoveAt
<1> HIDE DEF a, b
<1>4. a \o b \in Seq(S) /\ Len(a \o b) = Len(s) - 1
  <2>1. a \o b \in Seq(S) /\ Len(a \o b) = Len(a) + Len(b)
    BY <1>1, <1>2, ConcatProperties
  <2> QED BY <1>1, <1>2, <2>1
<1>5. ASSUME NEW k \in 1..(i - 1) PROVE (a \o b)[k] = s[k]
  <2>1. k \in 1..Len(a) /\ (a \o b)[k] = a[k]
    BY <1>1, <1>2
  <2> QED BY <1>1, <2>1
<1>6. ASSUME NEW k \in i..(Len(s) - 1) PROVE (a \o b)[k] = s[k + 1]
  <2>1. (a \o b)[k] = b[k - (i - 1)]
    BY <1>1, <1>2
  <2>2. k - (i - 1) \in 1..(Len(s) - i) /\ i + (k - (i - 1)) = k + 1
    OBVIOUS
  <2> QED BY <1>2, <2>1, <2>2
<1> QED BY <1>3, <1>4, <1>5, <1>6

\* What is left keeps its order, and nothing else goes.
LEMMA RemovedAtKeepsDistinct ==
    ASSUME NEW S, NEW s \in Seq(S), IsInjective(s), NEW i \in 1..Len(s)
    PROVE  LET t == RemoveAt(s, i)
           IN  /\ IsInjective(t)
               /\ \A x : Contains(t, x) <=> Contains(s, x) /\ x # s[i]
<1> DEFINE t == RemoveAt(s, i)
           at == [k \in 1..(Len(s) - 1) |-> IF k < i THEN k ELSE k + 1]
<1>0. t \in Seq(S) /\ Len(t) = Len(s) - 1 /\ Len(s) \in Nat /\ Len(t) \in Nat
  BY RemovedAt
<1>1. \A k \in 1..Len(t) : t[k] = s[at[k]]
  <2> TAKE k \in 1..Len(t)
  <2>1. CASE k \in 1..(i - 1)
    <3>1. t[k] = s[k]
      BY <2>1, RemovedAt
    <3> QED BY <1>0, <2>1, <3>1
  <2>2. CASE k \in i..(Len(s) - 1)
    <3>1. t[k] = s[k + 1]
      BY <2>2, RemovedAt
    <3>2. at[k] = k + 1
      BY <2>2
    <3> QED BY <3>1, <3>2
  <2> QED BY <1>0, <2>1, <2>2
<1>2. /\ \A k \in 1..Len(t) : at[k] \in 1..Len(s) /\ at[k] # i
      /\ \A k \in 1..Len(t) : \A m \in 1..Len(t) : at[k] = at[m] => k = m
      /\ \A k \in 1..Len(t) : (k < i => at[k] = k) /\ (k >= i => at[k] = k + 1)
  BY <1>0
<1> HIDE DEF t, at
<1>3. IsInjective(t)
  <2> SUFFICES ASSUME NEW k \in 1..Len(t), NEW m \in 1..Len(t), t[k] = t[m]
               PROVE  k = m
    BY <1>0 DEF IsInjective
  <2>1. s[at[k]] = s[at[m]]
    BY <1>1
  <2>2. at[k] = at[m]
    BY <1>2, <2>1 DEF IsInjective
  <2> QED BY <1>2, <2>2
<1>4. ASSUME NEW x, Contains(t, x) PROVE Contains(s, x) /\ x # s[i]
  <2>1. PICK k \in 1..Len(t) : t[k] = x
    BY <1>4 DEF Contains
  <2>2. x = s[at[k]] /\ at[k] \in 1..Len(s) /\ at[k] # i
    BY <1>1, <1>2, <2>1
  <2> QED BY <2>2 DEF Contains, IsInjective
<1>5. ASSUME NEW x, Contains(s, x), x # s[i] PROVE Contains(t, x)
  <2>1. PICK j \in 1..Len(s) : s[j] = x /\ j # i
    BY <1>5 DEF Contains
  <2>2. CASE j < i
    BY <1>0, <1>1, <1>2, <2>1, <2>2 DEF Contains
  <2>3. CASE j > i
    <3>1. j - 1 \in 1..Len(t) /\ at[j - 1] = j
      BY <1>0, <1>2, <2>1, <2>3
    <3> QED BY <1>1, <2>1, <3>1 DEF Contains
  <2> QED BY <2>1, <2>2, <2>3
<1>6. t = RemoveAt(s, i)
  BY DEF t
<1> QED BY <1>3, <1>4, <1>5, <1>6

LEMMA RemovedFirst ==
    ASSUME NEW S, NEW s \in Seq(S), IsInjective(s), NEW e
    PROVE  /\ \A i \in 1..Len(s) : s[i] = e => RemoveFirst(s, e) = RemoveAt(s, i)
           /\ ~Contains(s, e) => RemoveFirst(s, e) = s
<1>1. ASSUME NEW i \in 1..Len(s), s[i] = e PROVE RemoveFirst(s, e) = RemoveAt(s, i)
  <2>1. {j \in 1..Len(s) : s[j] = e} = {i}
    BY <1>1 DEF IsInjective
  <2>2. Min({i}) = i
    BY DEF Min
  <2> QED BY <1>1, <2>1, <2>2 DEF RemoveFirst, SelectInSeq
<1>2. ~Contains(s, e) => RemoveFirst(s, e) = s
  BY DEF RemoveFirst, Contains
<1> QED BY <1>1, <1>2

LEMMA RemovedFirstKeeps ==
    ASSUME NEW S, NEW s \in Seq(S), IsInjective(s), NEW e
    PROVE  LET t == RemoveFirst(s, e)
           IN  /\ t \in Seq(S) /\ IsInjective(t) /\ Len(t) <= Len(s)
               /\ \A x : Contains(t, x) <=> Contains(s, x) /\ x # e
<1>1. CASE Contains(s, e)
  <2>1. PICK i \in 1..Len(s) : s[i] = e
    BY <1>1 DEF Contains
  <2>2. RemoveFirst(s, e) = RemoveAt(s, i)
    BY <2>1, RemovedFirst
  <2>3. RemoveAt(s, i) \in Seq(S) /\ Len(RemoveAt(s, i)) = Len(s) - 1
    BY <2>1, RemovedAt
  <2>4. /\ IsInjective(RemoveAt(s, i))
        /\ \A x : Contains(RemoveAt(s, i), x) <=> Contains(s, x) /\ x # s[i]
    BY <2>1, RemovedAtKeepsDistinct
  <2> QED BY <2>1, <2>2, <2>3, <2>4
<1>2. CASE ~Contains(s, e)
  BY <1>2, RemovedFirst
<1> QED BY <1>1, <1>2

LEMMA AppendedNew ==
    ASSUME NEW S, NEW s \in Seq(S), IsInjective(s), NEW e \in S, ~Contains(s, e)
    PROVE  LET t == Append(s, e)
           IN  /\ t \in Seq(S) /\ IsInjective(t) /\ Len(t) = Len(s) + 1
               /\ \A x : Contains(t, x) <=> Contains(s, x) \/ x = e
<1> DEFINE t == Append(s, e)
<1>1. /\ t \in Seq(S) /\ Len(t) = Len(s) + 1 /\ Len(s) \in Nat /\ t[Len(s) + 1] = e
      /\ \A k \in 1..Len(s) : t[k] = s[k]
  OBVIOUS
<1> HIDE DEF t
<1>2. IsInjective(t)
  BY <1>1 DEF IsInjective, Contains
<1>3. \A x : Contains(t, x) <=> Contains(s, x) \/ x = e
  BY <1>1 DEF Contains
<1> QED BY <1>1, <1>2, <1>3 DEF t

LEMMA TailKeeps ==
    ASSUME NEW S, NEW s \in Seq(S), IsInjective(s), s # <<>>
    PROVE  LET t == Tail(s)
           IN  /\ t \in Seq(S) /\ IsInjective(t) /\ Len(t) = Len(s) - 1
               /\ \A x : Contains(t, x) <=> Contains(s, x) /\ x # s[1]
<1> DEFINE t == Tail(s)
<1>1. t \in Seq(S) /\ Len(t) = Len(s) - 1 /\ \A k \in 1..Len(t) : t[k] = s[k + 1]
  OBVIOUS
<1>0. Len(s) \in Nat \ {0}
  OBVIOUS
<1> HIDE DEF t
<1>2. IsInjective(t)
  <2> SUFFICES ASSUME NEW k \in 1..Len(t), NEW m \in 1..Len(t), t[k] = t[m]
               PROVE  k = m
    BY <1>1 DEF IsInjective
  <2>1. s[k + 1] = s[m + 1] /\ k + 1 \in 1..Len(s) /\ m + 1 \in 1..Len(s)
    BY <1>0, <1>1
  <2> QED BY <2>1 DEF IsInjective
<1>3. ASSUME NEW x, Contains(t, x) PROVE Contains(s, x) /\ x # s[1]
  BY <1>0, <1>1, <1>3 DEF Contains, IsInjective
<1>4. ASSUME NEW x, Contains(s, x), x # s[1] PROVE Contains(t, x)
  <2>1. PICK j \in 1..Len(s) : s[j] = x /\ j # 1
    BY <1>4 DEF Contains
  <2>2. j - 1 \in 1..Len(t) /\ t[j - 1] = x
    BY <1>0, <1>1, <2>1
  <2> QED BY <2>2 DEF Contains
<1> QED BY <1>1, <1>2, <1>3, <1>4 DEF t

LEMMA DroppedFirst ==
    ASSUME NEW S, NEW s \in Seq(S), NEW k \in 0..Len(s)
    PROVE  LET t == SubSeq(s, k + 1, Len(s))
           IN  /\ t \in Seq(S) /\ Len(t) = Len(s) - k
               /\ \A i \in 1..(Len(s) - k) : t[i] = s[k + i]
<1>1. Len(s) \in Nat
  OBVIOUS
<1>2. SubSeq(s, k + 1, Len(s)) \in Seq(S)
  BY <1>1
<1>3. Len(SubSeq(s, k + 1, Len(s))) = Len(s) - k
  BY <1>1
<1>4. \A i \in 1..(Len(s) - k) : SubSeq(s, k + 1, Len(s))[i] = s[k + i]
  BY <1>1
<1> QED BY <1>2, <1>3, <1>4

LEMMA AppendedAt ==
    ASSUME NEW S, NEW s \in Seq(S), NEW e \in S
    PROVE  LET t == Append(s, e)
           IN  /\ t \in Seq(S) /\ Len(t) = Len(s) + 1 /\ t[Len(s) + 1] = e
               /\ \A k \in 1..Len(s) : t[k] = s[k]
  OBVIOUS

LEMMA TailAt ==
    ASSUME NEW S, NEW s \in Seq(S), s # <<>>
    PROVE  LET t == Tail(s)
           IN  /\ t \in Seq(S) /\ Len(t) = Len(s) - 1
               /\ \A k \in 1..(Len(s) - 1) : t[k] = s[k + 1]
  OBVIOUS

-----------------------------------------------------------------------------
(* The API keys (ApiKeys).                                                 *)

KeyIds == 1..MaxId
KeyHandlerStates ==
    [pc : {"idle", "modify", "read", "install"},
     op : {"none", "enable", "disable", "delete"}, id : 0..MaxId,
     active : Nat, since : Nat, rows : SUBSET Secrets, at : Nat]
KeyRequestStates ==
    [pc : {"idle", "find", "accept", "forget", "reject"},
     secret : Secrets \cup {Legacy}, valid : BOOLEAN]
KeyTables == UNION {[D -> KeyRows] : D \in SUBSET KeyIds}

KeysTyped ==
    /\ keys \in KeyTables
    /\ keyHandler \in [Handlers -> KeyHandlerStates]
    /\ request \in [Requesters -> KeyRequestStates]
    /\ keyTable \in SUBSET Secrets
    /\ version \in Nat /\ shown \in Nat /\ due \in Nat
    /\ shown <= due /\ due <= version
    /\ \A h \in Handlers : writer = h <=> keyHandler[h].pc = "modify"

\* What a handler has counted under the lock is still there.
KeysCounted ==
    \A h \in Handlers : keyHandler[h].pc = "modify" =>
        keyHandler[h].active <= Cardinality(Enabled(keys))

\* What was read or installed at the latest change is what is enabled, and
\* someone will install that, or has.
KeysFollowed ==
    /\ \A h \in Handlers : LET c == keyHandler[h] IN
          /\ c.since <= version /\ c.at <= version
          /\ c.pc = "install" /\ c.at = version => c.rows = Usable(keys)
    /\ shown = version => keyTable = Usable(keys)
    /\ \/ due = version
       \/ \E h \in Handlers : LET c == keyHandler[h] IN
             \/ c.pc = "read" /\ c.since = version
             \/ c.pc = "install" /\ c.at = version

\* A check that finds its key loaded knows so.
KeysSeen ==
    \A r \in Requesters :
        /\ request[r].pc = "accept" => request[r].valid
        /\ request[r].pc = "find" /\ request[r].secret \in keyTable
              => request[r].valid

KeysInductive == KeysTyped /\ OneEnabledRemains /\ KeysCounted /\ KeysFollowed /\ KeysSeen

-----------------------------------------------------------------------------
(* Types.                                                                  *)

LEMMA IdleKeyTypes ==
    /\ IdleHandler \in KeyHandlerStates /\ IdleHandler.pc = "idle"
    /\ IdleHandler.since = 0 /\ IdleHandler.at = 0
    /\ IdleRequest \in KeyRequestStates /\ IdleRequest.pc = "idle"
BY KeyConstants DEF IdleHandler, IdleRequest, KeyHandlerStates, KeyRequestStates

\* What a handler becomes when its change is committed.
LEMMA ReadingType ==
    ASSUME NEW v \in Nat
    PROVE  LET c == [IdleHandler EXCEPT !.pc = "read", !.since = v]
           IN  c \in KeyHandlerStates /\ c.pc = "read" /\ c.since = v /\ c.at = 0
BY IdleKeyTypes DEF KeyHandlerStates, IdleHandler

LEMMA EnabledFinite ==
    ASSUME NEW rows \in KeyTables
    PROVE  IsFiniteSet(Enabled(rows)) /\ Cardinality(Enabled(rows)) \in Nat
<1>1. Enabled(rows) \subseteq KeyIds
    BY DEF Enabled, KeyTables
<1>2. IsFiniteSet(KeyIds)
    BY KeyConstants, FS_Interval DEF KeyIds
<1>3. QED
    BY <1>1, <1>2, FS_Subset, FS_CardinalityType

LEMMA UsableType ==
    ASSUME NEW rows \in KeyTables
    PROVE  Usable(rows) \in SUBSET Secrets
BY DEF Usable, Enabled, KeyTables, KeyRows

\* What a committed change does to everything but the rows of the table.
LEMMA ChangedTyped ==
    ASSUME KeysTyped, NEW h \in Handlers, NEW rows \in KeyTables, Changed(h, rows)
    PROVE  /\ keys' = rows /\ version' = version + 1
           /\ \/ /\ keyHandler' = [keyHandler EXCEPT ![h] = keyHandler'[h]]
                 /\ keyHandler'[h] \in KeyHandlerStates
                 /\ keyHandler'[h].pc = "read" /\ keyHandler'[h].since = version'
                 /\ keyHandler'[h].at = 0
                 /\ due' = due
              \/ /\ keyHandler' = [keyHandler EXCEPT ![h] = IdleHandler]
                 /\ keyHandler'[h] = IdleHandler
                 /\ due' = version'
<1>1. keys' = rows /\ version' = version + 1 /\ version' \in Nat
    BY DEF Changed, KeysTyped
<1>2. CASE GoesOn(h) /\ UNCHANGED <<due, keyFaults>>
    <2>1. keyHandler' = [keyHandler EXCEPT ![h] =
              [IdleHandler EXCEPT !.pc = "read", !.since = version']]
        BY <1>2 DEF GoesOn
    <2>2. keyHandler'[h] = [IdleHandler EXCEPT !.pc = "read", !.since = version']
        BY <2>1 DEF KeysTyped
    <2>3. QED
        BY <1>1, <1>2, <2>1, <2>2, ReadingType
<1>3. CASE /\ keyHandler' = [keyHandler EXCEPT ![h] = IdleHandler]
           /\ Fault /\ Later(version')
    <2>1. keyHandler'[h] = IdleHandler
        BY <1>3 DEF KeysTyped
    <2>2. due' = version'
        BY <1>1, <1>3 DEF Later, KeysTyped
    <2>3. QED
        BY <1>1, <1>3, <2>1, <2>2
<1>4. QED
    BY <1>2, <1>3 DEF Changed

LEMMA ChangeKeepsTypes ==
    ASSUME KeysTyped, NEW h \in Handlers, NEW rows \in KeyTables, Changed(h, rows),
           UNCHANGED <<memory, request>>,
           \/ keyHandler[h].pc = "idle" /\ UNCHANGED writer
           \/ /\ keyHandler[h].pc = "modify"
              /\ writer' = IF writer = h THEN Nobody ELSE writer
    PROVE  KeysTyped'
<1>1. /\ keyHandler' \in [Handlers -> KeyHandlerStates]
      /\ keyHandler'[h].pc \in {"idle", "read"}
      /\ \A g \in Handlers \ {h} : keyHandler'[g] = keyHandler[g]
    BY ChangedTyped, IdleKeyTypes DEF KeysTyped
<1>2. due' \in Nat /\ due <= due' /\ due' <= version' /\ version' \in Nat
    BY ChangedTyped DEF KeysTyped
<1>3. \A g \in Handlers : writer' = g <=> keyHandler'[g].pc = "modify"
    BY <1>1, KeyConstants DEF KeysTyped, Nobody
<1>4. keys' \in KeyTables
    BY ChangedTyped
<1>5. UNCHANGED <<request, keyTable, shown>>
    BY DEF memory
<1>6. QED
    BY <1>1, <1>2, <1>3, <1>4, <1>5 DEF KeysTyped

\* The rows after each kind of change.
LEMMA CreatedType ==
    ASSUME keys \in KeyTables, NEW s \in Secrets, NEW i \in KeyIds
    PROVE  LET rows == [j \in DOMAIN keys \cup {i} |->
                   IF j = i THEN [secret |-> s, enabled |-> TRUE] ELSE keys[j]]
           IN  rows \in KeyTables /\ Enabled(keys) \subseteq Enabled(rows)
<1>1. PICK D \in SUBSET KeyIds : keys \in [D -> KeyRows]
    BY DEF KeyTables
<1>2. [secret |-> s, enabled |-> TRUE] \in KeyRows
    BY DEF KeyRows
<1>3. [j \in DOMAIN keys \cup {i} |->
          IF j = i THEN [secret |-> s, enabled |-> TRUE] ELSE keys[j]]
        \in [D \cup {i} -> KeyRows]
    BY <1>1, <1>2
<1>4. D \cup {i} \in SUBSET KeyIds
    BY <1>1
<1>5. QED
    BY <1>1, <1>3, <1>4 DEF KeyTables, Enabled

LEMMA RotatedType ==
    ASSUME keys \in KeyTables, NEW s \in Secrets, NEW i \in DOMAIN keys
    PROVE  LET rows == [keys EXCEPT ![i].secret = s]
           IN  rows \in KeyTables /\ Enabled(keys) = Enabled(rows)
<1>1. PICK D \in SUBSET KeyIds : keys \in [D -> KeyRows]
    BY DEF KeyTables
<1>2. [keys[i] EXCEPT !.secret = s] \in KeyRows
    BY <1>1 DEF KeyRows
<1>3. [keys[i] EXCEPT !.secret = s].enabled = keys[i].enabled
    BY <1>1 DEF KeyRows
<1>4. [keys EXCEPT ![i].secret = s] \in [D -> KeyRows]
    BY <1>1, <1>2
<1>5. \A j \in D : [keys EXCEPT ![i].secret = s][j].enabled = keys[j].enabled
    BY <1>1, <1>3
<1>6. QED
    BY <1>1, <1>4, <1>5 DEF KeyTables, Enabled

LEMMA DeletedType ==
    ASSUME keys \in KeyTables, NEW i
    PROVE  LET rows == [j \in DOMAIN keys \ {i} |-> keys[j]]
           IN  rows \in KeyTables /\ Enabled(rows) = Enabled(keys) \ {i}
<1>1. PICK D \in SUBSET KeyIds : keys \in [D -> KeyRows]
    BY DEF KeyTables
<1>2. [j \in DOMAIN keys \ {i} |-> keys[j]] \in [D \ {i} -> KeyRows]
    BY <1>1
<1>3. D \ {i} \in SUBSET KeyIds
    BY <1>1
<1>4. QED
    BY <1>1, <1>2, <1>3 DEF KeyTables, Enabled

LEMMA SwitchedType ==
    ASSUME keys \in KeyTables, NEW i \in DOMAIN keys, NEW on \in BOOLEAN
    PROVE  LET rows == [keys EXCEPT ![i].enabled = on]
           IN  /\ rows \in KeyTables
               /\ Enabled(rows) = IF on THEN Enabled(keys) \cup {i}
                                  ELSE Enabled(keys) \ {i}
<1>1. PICK D \in SUBSET KeyIds : keys \in [D -> KeyRows]
    BY DEF KeyTables
<1>2. [keys[i] EXCEPT !.enabled = on] \in KeyRows
    BY <1>1 DEF KeyRows
<1>3. [keys[i] EXCEPT !.enabled = on].enabled = on
    BY <1>1 DEF KeyRows
<1>4. [keys EXCEPT ![i].enabled = on] \in [D -> KeyRows]
    BY <1>1, <1>2
<1>5. \A j \in D : [keys EXCEPT ![i].enabled = on][j].enabled
                   = IF j = i THEN on ELSE keys[j].enabled
    BY <1>1, <1>3
<1>6. DOMAIN [keys EXCEPT ![i].enabled = on] = D /\ DOMAIN keys = D
    BY <1>1
<1>7. QED
    BY <1>4, <1>5, <1>6 DEF KeyTables, Enabled

-----------------------------------------------------------------------------
(* Changes of the table.                                                   *)

LEMMA ChangeKeepsInductive ==
    ASSUME KeysInductive, NEW h \in Handlers, NEW rows \in KeyTables, Changed(h, rows),
           UNCHANGED <<memory, request>>,
           \/ keyHandler[h].pc = "idle" /\ UNCHANGED writer
           \/ /\ keyHandler[h].pc = "modify"
              /\ writer' = IF writer = h THEN Nobody ELSE writer,
           Enabled(rows) # {},
           \A g \in Handlers \ {h} : keyHandler[g].pc = "modify" =>
               keyHandler[g].active <= Cardinality(Enabled(rows))
    PROVE  KeysInductive'
<1>1. KeysTyped
    BY DEF KeysInductive
<1>2. KeysTyped'
    BY <1>1, ChangeKeepsTypes
<1>3. keys' = rows /\ version' = version + 1
    BY <1>1, ChangedTyped
<1>4. \A g \in Handlers \ {h} : keyHandler'[g] = keyHandler[g]
    BY <1>1, ChangedTyped DEF KeysTyped
<1>5. \/ keyHandler'[h].pc = "idle" /\ keyHandler'[h].since = 0
         /\ keyHandler'[h].at = 0 /\ due' = version'
      \/ keyHandler'[h].pc = "read" /\ keyHandler'[h].since = version'
         /\ keyHandler'[h].at = 0
    BY <1>1, ChangedTyped, IdleKeyTypes
<1>6. OneEnabledRemains'
    BY <1>3 DEF OneEnabledRemains
<1>7. KeysCounted'
    BY <1>3, <1>4, <1>5 DEF KeysCounted
<1>8. KeysFollowed'
    <2>1. version \in Nat /\ shown \in Nat /\ shown <= version
        BY <1>1 DEF KeysTyped
    <2>2. shown' = shown /\ shown' # version'
        BY <1>3, <2>1 DEF memory
    <2>3. \A g \in Handlers \ {h} : /\ keyHandler[g].since <= version
                                   /\ keyHandler[g].at <= version
                                   /\ keyHandler[g].since \in Nat
                                   /\ keyHandler[g].at \in Nat
        BY <1>1 DEF KeysInductive, KeysFollowed, KeysTyped, KeyHandlerStates
    <2>4. \A g \in Handlers : LET c == keyHandler'[g] IN
              /\ c.since <= version' /\ c.at <= version' /\ c.at # version'
        BY <1>3, <1>4, <1>5, <2>1, <2>3
    <2>5. \/ due' = version'
          \/ \E g \in Handlers : /\ keyHandler'[g].pc = "read"
                                 /\ keyHandler'[g].since = version'
        BY <1>5
    <2>6. QED
        BY <2>2, <2>4, <2>5 DEF KeysFollowed
<1>9. KeysSeen'
    BY DEF KeysInductive, KeysSeen, memory
<1>10. QED
    BY <1>2, <1>6, <1>7, <1>8, <1>9 DEF KeysInductive

\* More keys are enabled than before, so all counts are covered.
LEMMA CountedAgain ==
    ASSUME KeysTyped, KeysCounted, NEW rows \in KeyTables, Enabled(keys) \subseteq Enabled(rows)
    PROVE  \A g \in Handlers : keyHandler[g].pc = "modify" =>
               keyHandler[g].active <= Cardinality(Enabled(rows))
<1>1. /\ IsFiniteSet(Enabled(rows)) /\ Cardinality(Enabled(rows)) \in Nat
      /\ Cardinality(Enabled(keys)) \in Nat
    BY EnabledFinite DEF KeysTyped
<1>2. Cardinality(Enabled(keys)) <= Cardinality(Enabled(rows))
    BY <1>1, FS_Subset
<1>3. \A g \in Handlers : keyHandler[g].active \in Nat
    BY DEF KeysTyped, KeyHandlerStates
<1>4. QED
    BY <1>1, <1>2, <1>3 DEF KeysCounted

LEMMA CreateKeeps ==
    ASSUME KeysInductive, NEW h \in Handlers, NEW s \in Secrets, CreateKey(h, s)
    PROVE  KeysInductive'
<1>1. PICK i \in KeyIds : Changed(h, [j \in DOMAIN keys \cup {i} |->
                 IF j = i THEN [secret |-> s, enabled |-> TRUE] ELSE keys[j]])
    BY DEF CreateKey, KeyIds
<1>2. DEFINE rows == [j \in DOMAIN keys \cup {i} |->
                 IF j = i THEN [secret |-> s, enabled |-> TRUE] ELSE keys[j]]
<1>3. rows \in KeyTables /\ Enabled(keys) \subseteq Enabled(rows)
    BY CreatedType DEF KeysInductive, KeysTyped
<1>4. keyHandler[h].pc = "idle" /\ UNCHANGED <<writer, memory, request>>
    BY DEF CreateKey, Called
<1>5. Changed(h, rows)
    BY <1>1
<1>6. Enabled(rows) # {}
    BY <1>3 DEF KeysInductive, OneEnabledRemains
<1>7. \A g \in Handlers : keyHandler[g].pc = "modify" =>
          keyHandler[g].active <= Cardinality(Enabled(rows))
    BY <1>3, CountedAgain DEF KeysInductive
<1> HIDE DEF rows
<1>8. QED
    BY <1>3, <1>4, <1>5, <1>6, <1>7, ChangeKeepsInductive

LEMMA RotateKeeps ==
    ASSUME KeysInductive, NEW h \in Handlers, NEW i \in KeyIds, NEW s \in Secrets,
           RotateKey(h, i, s)
    PROVE  KeysInductive'
<1>1. DEFINE rows == [keys EXCEPT ![i].secret = s]
<1>2. i \in DOMAIN keys /\ Changed(h, rows)
    BY DEF RotateKey
<1>3. rows \in KeyTables /\ Enabled(keys) \subseteq Enabled(rows)
    BY <1>2, RotatedType DEF KeysInductive, KeysTyped
<1>4. keyHandler[h].pc = "idle" /\ UNCHANGED <<writer, memory, request>>
    BY DEF RotateKey, Called
<1>5. Enabled(rows) # {}
    BY <1>3 DEF KeysInductive, OneEnabledRemains
<1>6. \A g \in Handlers : keyHandler[g].pc = "modify" =>
          keyHandler[g].active <= Cardinality(Enabled(rows))
    BY <1>3, CountedAgain DEF KeysInductive
<1> HIDE DEF rows
<1>7. QED
    BY <1>2, <1>3, <1>4, <1>5, <1>6, ChangeKeepsInductive

\* Taking away one of at least two keys, or one that is not enabled, leaves one.
LEMMA OneIsLeft ==
    ASSUME KeysTyped, OneEnabledRemains, NEW i,
           i \in Enabled(keys) => Cardinality(Enabled(keys)) > 1
    PROVE  Enabled(keys) \ {i} # {}
<1>1. IsFiniteSet(Enabled(keys))
    BY EnabledFinite DEF KeysTyped
<1>2. CASE i \in Enabled(keys)
    <2>1. Cardinality(Enabled(keys) \ {i}) = Cardinality(Enabled(keys)) - 1
        BY <1>1, <1>2, FS_RemoveElement
    <2>2. Cardinality({}) = 0
        BY FS_EmptySet
    <2>3. Cardinality(Enabled(keys)) \in Nat
        BY EnabledFinite DEF KeysTyped
    <2>4. QED
        BY <1>2, <2>1, <2>2, <2>3
<1>3. CASE i \notin Enabled(keys)
    BY <1>3 DEF OneEnabledRemains
<1>4. QED
    BY <1>2, <1>3

LEMMA ModifyKeeps ==
    ASSUME KeysInductive, NEW h \in Handlers, ModifyKey(h)
    PROVE  KeysInductive'
<1>1. DEFINE c == keyHandler[h]
             rows == IF c.op = "delete" THEN [j \in DOMAIN keys \ {c.id} |-> keys[j]]
                     ELSE [keys EXCEPT ![c.id].enabled = c.op = "enable"]
<1>2. /\ c.pc = "modify" /\ Changed(h, rows) /\ c.id \in DOMAIN keys
      /\ c.op # "enable" /\ keys[c.id].enabled => c.active > 1
      /\ writer' = IF writer = h THEN Nobody ELSE writer
      /\ UNCHANGED <<memory, request>>
    <2>1. c \in KeyHandlerStates /\ c.active \in Nat
        BY DEF KeysInductive, KeysTyped, KeyHandlerStates
    <2>2. QED
        BY <2>1 DEF ModifyKey, Refused
<1>3. /\ rows \in KeyTables
      /\ Enabled(rows) = IF c.op = "enable" THEN Enabled(keys) \cup {c.id}
                         ELSE Enabled(keys) \ {c.id}
    <2>1. keys \in KeyTables
        BY DEF KeysInductive, KeysTyped
    <2>2. CASE c.op = "delete"
        BY <2>1, <2>2, DeletedType
    <2>3. CASE c.op # "delete"
        BY <1>2, <2>1, <2>3, SwitchedType
    <2>4. QED
        BY <2>2, <2>3
<1>4. Enabled(rows) # {}
    <2>1. c.active \in Nat /\ c.active <= Cardinality(Enabled(keys))
        BY <1>2 DEF KeysInductive, KeysTyped, KeyHandlerStates, KeysCounted
    <2>2. Cardinality(Enabled(keys)) \in Nat
        BY EnabledFinite DEF KeysInductive, KeysTyped
    <2>3. CASE c.op = "enable"
        BY <1>3, <2>3 DEF KeysInductive, OneEnabledRemains
    <2>4. CASE c.op # "enable"
        <3>1. c.id \in Enabled(keys) => Cardinality(Enabled(keys)) > 1
            BY <1>2, <2>1, <2>2, <2>4 DEF Enabled
        <3>2. QED
            BY <1>3, <2>4, <3>1, OneIsLeft DEF KeysInductive
    <2>5. QED
        BY <2>3, <2>4
<1>5. \A g \in Handlers \ {h} : keyHandler[g].pc # "modify"
    BY <1>2 DEF KeysInductive, KeysTyped
<1> HIDE DEF rows
<1>6. QED
    BY <1>2, <1>3, <1>4, <1>5, ChangeKeepsInductive

-----------------------------------------------------------------------------
(* Counting, and giving up.                                                *)

\* A step of a handler that touches neither the rows nor what is loaded, and
\* takes nothing away from who is going to load.
LEMMA HandlerKeepsRest ==
    ASSUME KeysInductive, NEW h \in Handlers, KeysTyped',
           UNCHANGED <<keys, memory, request, version>>,
           \A g \in Handlers \ {h} : keyHandler'[g] = keyHandler[g],
           keyHandler'[h].pc = "modify" =>
               keyHandler'[h].active <= Cardinality(Enabled(keys)),
           keyHandler'[h].since <= version /\ keyHandler'[h].at <= version,
           keyHandler'[h].pc = "install" => keyHandler'[h].rows = Usable(keys),
           \/ keyHandler[h].pc \notin {"read", "install"} /\ UNCHANGED due
           \/ keyHandler'[h].pc = "install" /\ keyHandler'[h].at = version
           \/ keyHandler[h].pc = "read" /\ Later(keyHandler[h].since)
    PROVE  KeysInductive'
<1>1. OneEnabledRemains' /\ KeysCounted' /\ KeysSeen'
    BY DEF KeysInductive, OneEnabledRemains, KeysCounted, KeysSeen, memory
<1>2. \/ due' = version'
      \/ \E g \in Handlers : LET c == keyHandler'[g] IN
            \/ c.pc = "read" /\ c.since = version'
            \/ c.pc = "install" /\ c.at = version'
    BY DEF KeysInductive, KeysFollowed, Later, KeysTyped
<1>3. KeysFollowed'
    BY <1>2 DEF KeysInductive, KeysFollowed, memory
<1>4. QED
    BY <1>1, <1>3 DEF KeysInductive

LEMMA CountKeeps ==
    ASSUME KeysInductive, NEW h \in Handlers, NEW op \in {"enable", "disable", "delete"},
           NEW i \in KeyIds, CountKeys(h, op, i)
    PROVE  KeysInductive'
<1>1. Cardinality(Enabled(keys)) \in Nat /\ version \in Nat
    BY EnabledFinite DEF KeysInductive, KeysTyped
<1>2. /\ keyHandler[h].pc = "idle" /\ writer = Nobody /\ writer' = h
      /\ UNCHANGED <<keys, memory, request, version, due>>
    BY DEF CountKeys, Called, CountLocks
<1>3. keyHandler' = [keyHandler EXCEPT ![h] =
           [IdleHandler EXCEPT !.pc = "modify", !.op = op, !.id = i,
                               !.active = Cardinality(Enabled(keys))]]
    BY DEF CountKeys
<1>4. /\ keyHandler'[h] \in KeyHandlerStates /\ keyHandler'[h].pc = "modify"
      /\ keyHandler'[h].active = Cardinality(Enabled(keys))
      /\ keyHandler'[h].since = 0 /\ keyHandler'[h].at = 0
    <2>1. keyHandler'[h] =
              [IdleHandler EXCEPT !.pc = "modify", !.op = op, !.id = i,
                                  !.active = Cardinality(Enabled(keys))]
        BY <1>3 DEF KeysInductive, KeysTyped
    <2>2. i \in 0..MaxId
        BY KeyConstants DEF KeyIds
    <2>3. QED
        BY <1>1, <2>1, <2>2, IdleKeyTypes DEF KeyHandlerStates, IdleHandler
<1>5. /\ keyHandler' \in [Handlers -> KeyHandlerStates]
      /\ \A g \in Handlers \ {h} : keyHandler'[g] = keyHandler[g]
    BY <1>3, <1>4 DEF KeysInductive, KeysTyped
<1>6. \A g \in Handlers : writer' = g <=> keyHandler'[g].pc = "modify"
    BY <1>2, <1>4, <1>5, KeyConstants DEF KeysInductive, KeysTyped, Nobody
<1>7. KeysTyped'
    BY <1>2, <1>5, <1>6 DEF KeysInductive, KeysTyped, memory
<1>8. QED
    BY <1>1, <1>2, <1>4, <1>5, <1>7, HandlerKeepsRest

\* A handler that ends.
LEMMA EndTyped ==
    ASSUME KeysTyped, NEW h \in Handlers,
           keyHandler' = [keyHandler EXCEPT ![h] = IdleHandler]
    PROVE  /\ keyHandler' \in [Handlers -> KeyHandlerStates]
           /\ keyHandler'[h].pc = "idle"
           /\ keyHandler'[h].since = 0 /\ keyHandler'[h].at = 0
           /\ \A g \in Handlers \ {h} : keyHandler'[g] = keyHandler[g]
BY IdleKeyTypes DEF KeysTyped

LEMMA AbandonKeeps ==
    ASSUME KeysInductive, NEW h \in Handlers, AbandonKey(h)
    PROVE  KeysInductive'
<1>1. /\ keyHandler[h].pc = "modify"
      /\ keyHandler' = [keyHandler EXCEPT ![h] = IdleHandler]
      /\ writer' = IF writer = h THEN Nobody ELSE writer
      /\ UNCHANGED <<keys, memory, request, version, due>>
    BY DEF AbandonKey
<1>2. /\ keyHandler' \in [Handlers -> KeyHandlerStates]
      /\ keyHandler'[h].pc = "idle"
      /\ keyHandler'[h].since = 0 /\ keyHandler'[h].at = 0
      /\ \A g \in Handlers \ {h} : keyHandler'[g] = keyHandler[g]
    BY <1>1, EndTyped DEF KeysInductive
<1>3. \A g \in Handlers : writer' = g <=> keyHandler'[g].pc = "modify"
    BY <1>1, <1>2, KeyConstants DEF KeysInductive, KeysTyped, Nobody
<1>4. KeysTyped'
    BY <1>1, <1>2, <1>3 DEF KeysInductive, KeysTyped, memory
<1>5. 0 <= version
    BY DEF KeysInductive, KeysTyped
<1>6. QED
    BY <1>1, <1>2, <1>4, <1>5, HandlerKeepsRest

-----------------------------------------------------------------------------
(* reload_api_keys().                                                      *)

LEMMA ReadKeeps ==
    ASSUME KeysInductive, NEW h \in Handlers, ReadKeys(h)
    PROVE  KeysInductive'
<1>1. /\ keyHandler[h].pc = "read"
      /\ UNCHANGED <<keys, writer, memory, request, version, due>>
    BY DEF ReadKeys
<1>2. keyHandler' = [keyHandler EXCEPT ![h] =
          [keyHandler[h] EXCEPT !.pc = "install", !.rows = Usable(keys),
                                !.at = version]]
    BY DEF ReadKeys, KeysInductive, KeysTyped
<1>3. /\ keyHandler'[h] \in KeyHandlerStates /\ keyHandler'[h].pc = "install"
      /\ keyHandler'[h].rows = Usable(keys) /\ keyHandler'[h].at = version
      /\ keyHandler'[h].since = keyHandler[h].since
    <2>1. keyHandler'[h] = [keyHandler[h] EXCEPT !.pc = "install",
                               !.rows = Usable(keys), !.at = version]
        BY <1>2 DEF KeysInductive, KeysTyped
    <2>2. /\ keyHandler[h] \in KeyHandlerStates /\ version \in Nat
          /\ Usable(keys) \in SUBSET Secrets
        BY UsableType DEF KeysInductive, KeysTyped
    <2>3. QED
        BY <2>1, <2>2 DEF KeyHandlerStates
<1>4. /\ keyHandler' \in [Handlers -> KeyHandlerStates]
      /\ \A g \in Handlers \ {h} : keyHandler'[g] = keyHandler[g]
    BY <1>2, <1>3 DEF KeysInductive, KeysTyped
<1>5. \A g \in Handlers : writer' = g <=> keyHandler'[g].pc = "modify"
    BY <1>1, <1>3, <1>4 DEF KeysInductive, KeysTyped
<1>6. KeysTyped'
    BY <1>1, <1>4, <1>5 DEF KeysInductive, KeysTyped, memory
<1>7. keyHandler[h].since <= version /\ version <= version
    BY DEF KeysInductive, KeysFollowed, KeysTyped
<1>8. QED
    BY <1>1, <1>3, <1>4, <1>6, <1>7, HandlerKeepsRest

LEMMA ReadFailsKeeps ==
    ASSUME KeysInductive, NEW h \in Handlers, ReadKeysFails(h)
    PROVE  KeysInductive'
<1>1. /\ keyHandler[h].pc = "read" /\ Later(keyHandler[h].since)
      /\ keyHandler' = [keyHandler EXCEPT ![h] = IdleHandler]
      /\ UNCHANGED <<keys, writer, memory, request, version>>
    BY DEF ReadKeysFails
<1>2. /\ keyHandler' \in [Handlers -> KeyHandlerStates]
      /\ keyHandler'[h].pc = "idle"
      /\ keyHandler'[h].since = 0 /\ keyHandler'[h].at = 0
      /\ \A g \in Handlers \ {h} : keyHandler'[g] = keyHandler[g]
    BY <1>1, EndTyped DEF KeysInductive
<1>3. \A g \in Handlers : writer' = g <=> keyHandler'[g].pc = "modify"
    BY <1>1, <1>2 DEF KeysInductive, KeysTyped
<1>4. keyHandler[h].since \in Nat /\ keyHandler[h].since <= version
    BY DEF KeysInductive, KeysFollowed, KeysTyped, KeyHandlerStates
<1>5. due' \in Nat /\ due <= due' /\ due' <= version
    BY <1>1, <1>4 DEF Later, KeysInductive, KeysTyped
<1>6. KeysTyped'
    BY <1>1, <1>2, <1>3, <1>5 DEF KeysInductive, KeysTyped, memory
<1>7. 0 <= version
    BY DEF KeysInductive, KeysTyped
<1>8. QED
    BY <1>1, <1>2, <1>6, <1>7, HandlerKeepsRest

LEMMA InstallKeeps ==
    ASSUME KeysInductive, NEW h \in Handlers, InstallKeys(h)
    PROVE  KeysInductive'
<1>1. DEFINE c == keyHandler[h]
<1>2. /\ c.pc = "install" /\ keyTable' = c.rows /\ shown' = c.at /\ Later(c.at)
      /\ keyHandler' = [keyHandler EXCEPT ![h] = IdleHandler]
      /\ UNCHANGED <<keys, writer, version>>
    BY DEF InstallKeys
<1>3. /\ c.rows \in SUBSET Secrets /\ c.at \in Nat /\ c.at <= version
      /\ c.at = version => c.rows = Usable(keys)
    BY <1>2 DEF KeysInductive, KeysFollowed, KeysTyped, KeyHandlerStates
<1>4. /\ keyHandler' \in [Handlers -> KeyHandlerStates]
      /\ keyHandler'[h].pc = "idle"
      /\ keyHandler'[h].since = 0 /\ keyHandler'[h].at = 0
      /\ \A g \in Handlers \ {h} : keyHandler'[g] = keyHandler[g]
    BY <1>2, EndTyped DEF KeysInductive
<1>5. /\ request' \in [Requesters -> KeyRequestStates]
      /\ \A r \in Requesters :
            /\ request'[r].pc = request[r].pc
            /\ request'[r].secret = request[r].secret
            /\ request'[r].valid = (request[r].valid \/ request[r].secret \in c.rows)
    <2>1. request' = [r \in Requesters |->
              [request[r] EXCEPT !.valid = @ \/ request[r].secret \in c.rows]]
        BY DEF InstallKeys
    <2>2. \A r \in Requesters : request[r] \in KeyRequestStates
        BY DEF KeysInductive, KeysTyped
    <2>3. ASSUME NEW r \in Requesters
          PROVE  LET q == [request[r] EXCEPT !.valid =
                              request[r].valid \/ request[r].secret \in c.rows]
                 IN  /\ q \in KeyRequestStates /\ q.pc = request[r].pc
                     /\ q.secret = request[r].secret
                     /\ q.valid = (request[r].valid \/ request[r].secret \in c.rows)
        BY <2>2 DEF KeyRequestStates
    <2>4. QED
        BY <2>1, <2>2, <2>3
<1>6. due' \in Nat /\ due <= due' /\ c.at <= due' /\ due' <= version
    BY <1>2, <1>3 DEF Later, KeysInductive, KeysTyped
<1>7. \A g \in Handlers : writer' = g <=> keyHandler'[g].pc = "modify"
    BY <1>2, <1>4 DEF KeysInductive, KeysTyped
<1>8. KeysTyped'
    BY <1>2, <1>3, <1>4, <1>5, <1>6, <1>7 DEF KeysInductive, KeysTyped
<1>9. OneEnabledRemains' /\ KeysCounted'
    BY <1>2, <1>4 DEF KeysInductive, OneEnabledRemains, KeysCounted
<1>10. KeysSeen'
    BY <1>2, <1>5 DEF KeysInductive, KeysSeen
<1>11. KeysFollowed'
    <2>1. \A g \in Handlers : LET d == keyHandler'[g] IN
              /\ d.since <= version' /\ d.at <= version'
              /\ d.pc = "install" /\ d.at = version' => d.rows = Usable(keys')
        BY <1>2, <1>4 DEF KeysInductive, KeysFollowed, KeysTyped
    <2>2. shown' = version' => keyTable' = Usable(keys')
        BY <1>2, <1>3
    <2>3. \/ due' = version'
          \/ \E g \in Handlers : LET d == keyHandler'[g] IN
                \/ d.pc = "read" /\ d.since = version'
                \/ d.pc = "install" /\ d.at = version'
        <3>1. CASE due = version \/ c.at = version
            BY <1>2, <1>3, <1>6, <3>1 DEF KeysInductive, KeysTyped
        <3>2. CASE due # version /\ c.at # version
            <4>1. PICK g \in Handlers :
                      \/ keyHandler[g].pc = "read" /\ keyHandler[g].since = version
                      \/ keyHandler[g].pc = "install" /\ keyHandler[g].at = version
                BY <3>2 DEF KeysInductive, KeysFollowed
            <4>2. g # h
                BY <1>2, <3>2, <4>1
            <4>3. QED
                BY <1>2, <1>4, <4>1, <4>2
        <3>3. QED
            BY <3>1, <3>2
    <2>4. QED
        BY <2>1, <2>2, <2>3 DEF KeysFollowed
<1>12. QED
    BY <1>8, <1>9, <1>10, <1>11 DEF KeysInductive

-----------------------------------------------------------------------------
(* verify_api_key() and restarts.                                          *)

LEMMA CheckKeeps ==
    ASSUME KeysInductive, ChecksOnly, request' \in [Requesters -> KeyRequestStates], KeysSeen'
    PROVE  KeysInductive'
<1>1. KeysTyped'
    BY DEF ChecksOnly, KeysInductive, KeysTyped
<1>2. OneEnabledRemains' /\ KeysCounted' /\ KeysFollowed'
    BY DEF ChecksOnly, KeysInductive, OneEnabledRemains, KeysCounted, KeysFollowed
<1>3. QED
    BY <1>1, <1>2 DEF KeysInductive

LEMMA VerifyKeeps ==
    ASSUME KeysInductive, NEW r \in Requesters, Verify(r)
    PROVE  KeysInductive'
<1>1. ChecksOnly /\ keyTable' = keyTable
    BY DEF Verify, LookUp, Find, Accept, Forget, Reject, ChecksOnly
<1>2. \E q \in KeyRequestStates :
          /\ request' = [request EXCEPT ![r] = q]
          /\ q.pc = "accept" => q.valid
          /\ q.pc = "find" /\ q.secret \in keyTable => q.valid
    <2>1. request[r] \in KeyRequestStates
        BY DEF KeysInductive, KeysTyped
    <2>2. CASE \E s \in Secrets : LookUp(r, s)
        <3>1. PICK s \in Secrets : LookUp(r, s)
            BY <2>2
        <3>2. [pc |-> "find", secret |-> s, valid |-> s \in keyTable] \in KeyRequestStates
            BY DEF KeyRequestStates
        <3>3. QED
            BY <3>1, <3>2 DEF LookUp
    <2>3. CASE Find(r)
        <3>1. DEFINE pc == IF Known(request[r].secret) THEN "accept" ELSE "forget"
                     q == [request[r] EXCEPT !.pc = pc]
        <3>2. q \in KeyRequestStates /\ q.pc = pc /\ q.valid = request[r].valid
            BY <2>1 DEF KeyRequestStates
        <3>3. pc = "accept" => request[r].valid
            BY <2>3 DEF Find, Known, KeysInductive, KeysSeen
        <3>4. request' = [request EXCEPT ![r] = q] /\ pc # "find"
            BY <2>1, <2>3 DEF Find, Step, KeysInductive, KeysTyped
        <3>5. QED
            BY <3>2, <3>3, <3>4
    <2>4. CASE Accept(r) \/ Reject(r)
        BY <2>4, IdleKeyTypes DEF Accept, Reject
    <2>5. CASE Forget(r)
        <3>1. DEFINE q == [request[r] EXCEPT !.pc = "reject"]
        <3>2. q \in KeyRequestStates /\ q.pc = "reject"
            BY <2>1 DEF KeyRequestStates
        <3>3. request' = [request EXCEPT ![r] = q]
            BY <2>1, <2>5 DEF Forget, Step, KeysInductive, KeysTyped
        <3>4. QED
            BY <3>2, <3>3
    <2>6. QED
        BY <2>2, <2>3, <2>4, <2>5 DEF Verify
<1>3. request' \in [Requesters -> KeyRequestStates] /\ KeysSeen'
    BY <1>1, <1>2 DEF KeysInductive, KeysTyped, KeysSeen
<1>4. QED
    BY <1>1, <1>3, CheckKeeps

LEMMA RestartKeeps ==
    ASSUME KeysInductive, RestartKeys
    PROVE  KeysInductive'
<1>1. /\ UNCHANGED <<keys, version>> /\ writer' = Nobody
      /\ keyHandler' = [h \in Handlers |-> IdleHandler]
      /\ request' = [r \in Requesters |-> IdleRequest]
      /\ keyTable' = Usable(keys) /\ shown' = version /\ due' = version
    BY DEF RestartKeys
<1>2. KeysTyped'
    BY <1>1, IdleKeyTypes, UsableType, KeyConstants DEF KeysInductive, KeysTyped, Nobody
<1>3. OneEnabledRemains' /\ KeysCounted' /\ KeysSeen'
    BY <1>1, IdleKeyTypes DEF KeysInductive, OneEnabledRemains, KeysCounted, KeysSeen
<1>4. KeysFollowed'
    BY <1>1, IdleKeyTypes DEF KeysInductive, KeysTyped, KeysFollowed
<1>5. QED
    BY <1>2, <1>3, <1>4 DEF KeysInductive

LEMMA KeysInitInductive ==
    ASSUME Init
    PROVE  KeysInductive
<1>1. PICK rows \in [1..2 -> KeyRows] : Enabled(rows) # {} /\ Setup(rows)
    BY DEF Init
<1>2. 1..2 \in SUBSET KeyIds /\ rows \in KeyTables
    BY KeyConstants DEF KeyIds, KeyTables
<1>3. /\ keys = rows /\ version = 0 /\ shown = 0 /\ due = 0 /\ writer = Nobody
      /\ keyHandler = [h \in Handlers |-> IdleHandler]
      /\ request = [r \in Requesters |-> IdleRequest]
      /\ keyTable = Usable(keys)
    BY <1>1 DEF Setup
<1>4. KeysTyped
    BY <1>2, <1>3, IdleKeyTypes, UsableType, KeyConstants DEF KeysTyped, Nobody
<1>5. OneEnabledRemains /\ KeysCounted /\ KeysSeen
    BY <1>1, <1>3, IdleKeyTypes DEF OneEnabledRemains, KeysCounted, KeysSeen
<1>6. KeysFollowed
    BY <1>3, IdleKeyTypes DEF KeysFollowed
<1>7. QED
    BY <1>4, <1>5, <1>6 DEF KeysInductive

LEMMA KeysNextInductive ==
    ASSUME KeysInductive, [Next]_keyVars
    PROVE  KeysInductive'
<1>1. ASSUME NEW h \in Handlers, Handle(h)
      PROVE  KeysInductive'
    BY <1>1, CreateKeeps, RotateKeeps, CountKeeps, ModifyKeeps, AbandonKeeps,
       ReadKeeps, ReadFailsKeeps, InstallKeeps DEF Handle, KeyIds
<1>2. ASSUME NEW r \in Requesters, Verify(r)
      PROVE  KeysInductive'
    BY <1>2, VerifyKeeps
<1>3. CASE UNCHANGED keyVars
    <2>1. KeysTyped'
        BY <1>3 DEF keyVars, memory, KeysInductive, KeysTyped
    <2>2. OneEnabledRemains' /\ KeysCounted' /\ KeysSeen'
        BY <1>3 DEF keyVars, memory, KeysInductive, OneEnabledRemains, KeysCounted, KeysSeen
    <2>3. KeysFollowed'
        BY <1>3 DEF keyVars, memory, KeysInductive, KeysFollowed
    <2>4. QED
        BY <2>1, <2>2, <2>3 DEF KeysInductive
<1>4. QED
    BY <1>1, <1>2, <1>3, RestartKeeps DEF Next

-----------------------------------------------------------------------------
(* What is remembered of the checks.                                       *)

RowsAreDistinct ==
    \A i \in DOMAIN keys, j \in DOMAIN keys : keys[i].secret = keys[j].secret => i = j

CacheTyped(c) == c \in Seq(Secrets) /\ IsInjective(c) /\ Len(c) <= CacheLimit

ChecksHaveSecrets ==
    \A r \in Requesters : request[r].pc # "idle" => request[r].secret \in Secrets

KeysRemembered ==
    /\ RowsAreDistinct /\ ChecksHaveSecrets /\ RejectedAreUnknown
    /\ CacheTyped(verified) /\ CacheTyped(rejected)

LEMMA EmptyCache == CacheTyped(<<>>) /\ \A s : ~Holds(<<>>, s)
BY KeyConstants DEF CacheTyped, IsInjective, Holds, Contains

LEMMA CacheIsCache == ASSUME NEW c, CacheTyped(c) PROVE c \in Caches
<1>1. c \in [1..Len(c) -> Secrets] /\ Len(c) \in 0..CacheLimit
  BY KeyConstants DEF CacheTyped
<1> QED BY <1>1 DEF Caches, BoundedSeq, SeqOf, CacheTyped

\* A full cache loses its oldest entry and gains the new one.
LEMMA RememberedCache ==
    ASSUME NEW c, CacheTyped(c), NEW s \in Secrets
    PROVE  /\ CacheTyped(Remembered(c, s))
           /\ \A q : Holds(Remembered(c, s), q) => Holds(c, q) \/ q = s
<1> DEFINE trimmed == IF Len(c) >= CacheLimit THEN Tail(c) ELSE c
<1>1. /\ trimmed \in Seq(Secrets) /\ IsInjective(trimmed) /\ Len(trimmed) < CacheLimit
      /\ \A q : Contains(trimmed, q) => Contains(c, q)
  <2>1. CASE Len(c) >= CacheLimit
    <3>1. c # <<>> /\ c \in Seq(Secrets) /\ IsInjective(c) /\ Len(c) \in Nat
      BY <2>1, KeyConstants DEF CacheTyped
    <3>2. /\ Tail(c) \in Seq(Secrets) /\ IsInjective(Tail(c)) /\ Len(Tail(c)) = Len(c) - 1
          /\ \A q : Contains(Tail(c), q) => Contains(c, q)
      BY <3>1, TailKeeps
    <3> QED BY <2>1, <3>1, <3>2, KeyConstants DEF CacheTyped
  <2>2. CASE ~(Len(c) >= CacheLimit)
    BY <2>2, KeyConstants DEF CacheTyped
  <2> QED BY <2>1, <2>2
<1>2. Remembered(c, s) = IF Contains(trimmed, s) THEN trimmed ELSE Append(trimmed, s)
  BY DEF Remembered, Holds
<1> HIDE DEF trimmed
<1>3. CASE Contains(trimmed, s)
  <2>1. Len(trimmed) <= CacheLimit
    BY <1>1, KeyConstants
  <2> QED BY <1>1, <1>2, <1>3, <2>1 DEF CacheTyped, Holds
<1>4. CASE ~Contains(trimmed, s)
  <2>1. /\ Append(trimmed, s) \in Seq(Secrets) /\ IsInjective(Append(trimmed, s))
        /\ Len(Append(trimmed, s)) = Len(trimmed) + 1
        /\ \A q : Contains(Append(trimmed, s), q) <=> Contains(trimmed, q) \/ q = s
    BY <1>1, <1>4, AppendedNew
  <2>2. Len(trimmed) \in Nat
    BY <1>1
  <2> QED BY <1>1, <1>2, <1>4, <2>1, <2>2, KeyConstants DEF CacheTyped, Holds
<1> QED BY <1>3, <1>4

LEMMA KeysRememberedInit == Init => KeysRemembered
<1> SUFFICES ASSUME Init PROVE KeysRemembered
  OBVIOUS
<1>1. PICK rows \in [1..2 -> KeyRows] : rows[1].secret # rows[2].secret /\ Setup(rows)
  BY DEF Init
<1>2. /\ keys = rows /\ verified = <<>> /\ rejected = <<>>
      /\ \A r \in Requesters : request[r].pc = "idle"
  BY <1>1, IdleKeyTypes DEF Setup
<1>3. RowsAreDistinct
  BY <1>1, <1>2 DEF RowsAreDistinct
<1> QED BY <1>2, <1>3, EmptyCache DEF KeysRemembered, ChecksHaveSecrets, RejectedAreUnknown

\* Only creation and rotation bring a secret into the table, and a new one.
LEMMA RowsStayDistinct ==
    ASSUME KeysInductive, RowsAreDistinct, [Next]_keyVars
    PROVE  RowsAreDistinct'
<1>0. PICK D \in SUBSET KeyIds : keys \in [D -> KeyRows]
  BY DEF KeysInductive, KeysTyped, KeyTables
<1>1. CASE UNCHANGED keys
  BY <1>1 DEF RowsAreDistinct
<1>2. ASSUME NEW h \in Handlers, NEW s \in Secrets, CreateKey(h, s)
      PROVE  RowsAreDistinct'
  <2>1. PICK i \in KeyIds \ DOMAIN keys :
            keys' = [j \in DOMAIN keys \cup {i} |->
                        IF j = i THEN [secret |-> s, enabled |-> TRUE] ELSE keys[j]]
    BY <1>2 DEF CreateKey, Changed, KeyIds
  <2>2. New(s)
    BY <1>2 DEF CreateKey
  <2> QED BY <2>1, <2>2 DEF RowsAreDistinct, New
<1>3. ASSUME NEW h \in Handlers, NEW s \in Secrets, NEW i \in 1..MaxId, RotateKey(h, i, s)
      PROVE  RowsAreDistinct'
  <2>1. keys' = [keys EXCEPT ![i].secret = s] /\ New(s) /\ i \in D
    BY <1>0, <1>3 DEF RotateKey, Changed
  <2>2. /\ DOMAIN keys' = D /\ DOMAIN keys = D
        /\ \A j \in D : keys'[j].secret = IF j = i THEN s ELSE keys[j].secret
    BY <1>0, <2>1 DEF KeyRows
  <2> QED BY <2>1, <2>2 DEF RowsAreDistinct, New
<1>4. ASSUME NEW h \in Handlers, ModifyKey(h)
      PROVE  RowsAreDistinct'
  <2> DEFINE c == keyHandler[h]
  <2>1. \/ keys' = [j \in DOMAIN keys \ {c.id} |-> keys[j]]
        \/ keys' = [keys EXCEPT ![c.id].enabled = (c.op = "enable")]
    BY <1>4 DEF ModifyKey, Changed
  <2>2. /\ DOMAIN keys' \subseteq D /\ DOMAIN keys = D
        /\ \A j \in DOMAIN keys' : keys'[j].secret = keys[j].secret
    BY <1>0, <2>1 DEF KeyRows
  <2> QED BY <2>2 DEF RowsAreDistinct
<1>5. CASE RestartKeys \/ \E r \in Requesters : Verify(r)
  BY <1>1, <1>5 DEF RestartKeys, Verify, LookUp, Find, Accept, Forget, Reject, ChecksOnly
<1>6. ASSUME NEW h \in Handlers, Handle(h)
      PROVE  RowsAreDistinct'
  BY <1>1, <1>2, <1>3, <1>4, <1>6 DEF Handle, CountKeys, AbandonKey, ReadKeys,
     ReadKeysFails, InstallKeys
<1> QED BY <1>1, <1>5, <1>6 DEF Next, keyVars

\* Every refusal that is remembered of a loaded key was decided before it was
\* loaded: each install forgets the refusals.
LEMMA KeysRememberedNext ==
    ASSUME KeysInductive, KeysRemembered, [Next]_keyVars
    PROVE  KeysRemembered'
<1> USE DEF KeysRemembered
<1>0. RowsAreDistinct'
  BY RowsStayDistinct
<1>1. CASE UNCHANGED <<memory, request>>
  BY <1>0, <1>1 DEF memory, ChecksHaveSecrets, RejectedAreUnknown, CacheTyped
<1>2. ASSUME NEW h \in Handlers, InstallKeys(h)
      PROVE  KeysRemembered'
  <2>1. verified' = verified /\ rejected' = <<>>
    BY <1>2 DEF InstallKeys, Cleared
  <2>2. \A r \in Requesters : /\ request'[r].pc = request[r].pc
                              /\ request'[r].secret = request[r].secret
    BY <1>2 DEF InstallKeys, KeysInductive, KeysTyped, KeyRequestStates
  <2> QED BY <1>0, <2>1, <2>2, EmptyCache
          DEF ChecksHaveSecrets, RejectedAreUnknown, CacheTyped
<1>3. CASE RestartKeys
  <2>1. verified' = <<>> /\ rejected' = <<>>
    BY <1>3 DEF RestartKeys
  <2>2. \A r \in Requesters : request'[r].pc = "idle"
    BY <1>3, IdleKeyTypes DEF RestartKeys
  <2> QED BY <1>0, <2>1, <2>2, EmptyCache DEF ChecksHaveSecrets, RejectedAreUnknown
<1>4. ASSUME NEW r \in Requesters, Verify(r)
      PROVE  KeysRemembered'
  <2>0. request \in [Requesters -> KeyRequestStates] /\ keyTable' = keyTable
    BY <1>4 DEF KeysInductive, KeysTyped, Verify, LookUp, Find, Accept, Forget, Reject,
       ChecksOnly
  <2>1. ChecksHaveSecrets'
    <3>1. CASE \E s \in Secrets : LookUp(r, s)
      BY <2>0, <3>1 DEF LookUp, ChecksHaveSecrets
    <3>2. CASE Find(r) \/ Forget(r)
      <4>1. PICK pc \in {"accept", "forget", "reject"} :
                request' = [request EXCEPT ![r].pc = pc]
        BY <3>2 DEF Find, Forget, Step
      <4>2. request[r].pc # "idle"
        BY <3>2 DEF Find, Forget
      <4>3. \A q \in Requesters : /\ request'[q].secret = request[q].secret
                                  /\ q # r => request'[q] = request[q]
        BY <2>0, <4>1 DEF KeyRequestStates
      <4> QED BY <4>2, <4>3 DEF ChecksHaveSecrets
    <3>3. CASE Accept(r) \/ Reject(r)
      BY <2>0, <3>3, IdleKeyTypes DEF Accept, Reject, ChecksHaveSecrets
    <3> QED BY <1>4, <3>1, <3>2, <3>3 DEF Verify
  <2>2. CASE UNCHANGED <<verified, rejected, raced>>
    BY <1>0, <2>0, <2>1, <2>2 DEF RejectedAreUnknown, CacheTyped
  <2>3. CASE Accept(r)
    <3>1. request[r].secret \in Secrets
      BY <2>3 DEF Accept, ChecksHaveSecrets
    <3>2. verified' = Remembered(verified, request[r].secret) /\ UNCHANGED <<rejected, raced>>
      BY <2>3 DEF Accept
    <3>3. CacheTyped(verified')
      BY <3>1, <3>2, RememberedCache
    <3> QED BY <1>0, <2>0, <2>1, <3>2, <3>3 DEF RejectedAreUnknown, CacheTyped
  <2>4. CASE Forget(r)
    <3>1. verified' = RemoveFirst(verified, request[r].secret) /\ UNCHANGED <<rejected, raced>>
      BY <2>4 DEF Forget
    <3>2. LET c == RemoveFirst(verified, request[r].secret)
          IN  c \in Seq(Secrets) /\ IsInjective(c) /\ Len(c) <= Len(verified)
      BY RemovedFirstKeeps DEF CacheTyped
    <3>3. CacheTyped(verified')
      BY <3>1, <3>2, KeyConstants DEF CacheTyped
    <3> QED BY <1>0, <2>0, <2>1, <3>1, <3>3 DEF RejectedAreUnknown, CacheTyped
  <2>5. CASE Reject(r)
    <3> DEFINE s == request[r].secret
    <3>1. s \in Secrets
      BY <2>5 DEF Reject, ChecksHaveSecrets
    <3>2. /\ rejected' = Remembered(rejected, s) /\ UNCHANGED verified
          /\ raced' = raced \cup ({s} \cap keyTable)
      BY <2>5 DEF Reject
    <3> HIDE DEF s
    <3>3. CacheTyped(rejected') /\ \A q : Holds(rejected', q) => Holds(rejected, q) \/ q = s
      BY <3>1, <3>2, RememberedCache
    <3> QED BY <1>0, <2>0, <2>1, <3>2, <3>3 DEF RejectedAreUnknown, CacheTyped
  <2> QED BY <1>4, <2>2, <2>3, <2>4, <2>5 DEF Verify, LookUp, Find
<1>5. ASSUME NEW h \in Handlers, Handle(h)
      PROVE  KeysRemembered'
  BY <1>1, <1>2, <1>5 DEF Handle, CreateKey, RotateKey, CountKeys, ModifyKey, AbandonKey,
     ReadKeys, ReadKeysFails
<1> QED BY <1>1, <1>3, <1>4, <1>5 DEF Next, keyVars

LEMMA KeysInductiveIsEnough == KeysInductive /\ KeysRemembered => AccessIsCurrent
<1> SUFFICES ASSUME KeysInductive, KeysRemembered PROVE AccessIsCurrent
  OBVIOUS
<1>1. KeysTypeOK
  <2>1. PICK D \in SUBSET KeyIds : keys \in [D -> KeyRows]
    BY DEF KeysInductive, KeysTyped, KeyTables
  <2>2. verified \in Caches /\ rejected \in Caches
    BY CacheIsCache DEF KeysRemembered
  <2> QED BY <2>1, <2>2 DEF KeysTypeOK, KeysInductive, KeysTyped, KeysRemembered,
          RowsAreDistinct, KeyIds
<1>2. TableIsCurrent /\ RevokedIsRefused
  BY DEF KeysInductive, KeysFollowed, KeysSeen, TableIsCurrent, RevokedIsRefused
<1> QED BY <1>1, <1>2 DEF AccessIsCurrent, KeysInductive, KeysRemembered

\* The table, what is loaded of it and what the checks remember go together: one
\* key stays enabled, exactly the enabled keys are loaded when the handlers are
\* done, no revoked key is accepted and no loaded one refused but by a check that
\* began too early, and the caches stay within their limit (app/auth.py).
THEOREM AccessStaysCurrent == Spec => []AccessIsCurrent
<1>1. Init => KeysInductive /\ KeysRemembered
  BY KeysInitInductive, KeysRememberedInit
<1>2. KeysInductive /\ KeysRemembered /\ [Next]_keyVars => (KeysInductive /\ KeysRemembered)'
  BY KeysNextInductive, KeysRememberedNext
<1> QED BY <1>1, <1>2, KeysInductiveIsEnough, PTL DEF Spec

\* Whatever any number of handlers disable, delete, rotate and create at the
\* same time, one key stays enabled (app/auth.py, _lock_enabled_api_keys).
THEOREM AlwaysOneEnabled == Spec => []OneEnabledRemains
<1>1. AccessIsCurrent => OneEnabledRemains
  BY DEF AccessIsCurrent
<1> QED BY <1>1, AccessStaysCurrent, PTL

\* When no handler is about to reload, exactly the enabled keys are loaded,
\* unless a reload failed or one that had read earlier came last (app/auth.py,
\* reload_api_keys).
THEOREM TableFollows == Spec => []TableIsCurrent
<1>1. AccessIsCurrent => TableIsCurrent
  BY DEF AccessIsCurrent
<1> QED BY <1>1, AccessStaysCurrent, PTL

\* A check accepts only a key that was loaded at some time while it ran
\* (app/auth.py, verify_api_key).
THEOREM AcceptedWasLoaded == Spec => []RevokedIsRefused
<1>1. AccessIsCurrent => RevokedIsRefused
  BY DEF AccessIsCurrent
<1> QED BY <1>1, AccessStaysCurrent, PTL

-----------------------------------------------------------------------------
(* The domains of lists (DomainStore).                                     *)

StoreTasks ==
    [pc : {"idle", "add", "insert", "select", "attach", "remove", "detach",
           "delete", "drop", "cleanup", "count", "store"},
     list : Store!AllLists \cup {0}, domain : StoreDomains \cup {0}, row : Nat,
     ids : SUBSET (StoreDomains \X Nat), count : Nat, alone : BOOLEAN]

StoreTyped ==
    /\ backend \in {"sqlite", "mysql"} /\ lists \subseteq Store!AllLists
    /\ row \in [StoreDomains -> Nat] /\ serial \in Nat
    /\ members \subseteq Store!AllLists \X StoreDomains
    /\ owed \subseteq Store!AllLists \X StoreDomains
    /\ entryCount \in [Store!AllLists -> Nat]
    /\ handler \in [StoreHandlers -> StoreTasks]

\* A handler is about a list, an addition or removal about a domain, and only a
\* deletion about a list that has an address.
StorePlaces ==
    \A h \in StoreHandlers :
        /\ handler[h].pc # "idle" => handler[h].list \in Store!AllLists
        /\ handler[h].pc \in {"add", "insert", "select", "attach", "remove"} =>
              handler[h].domain \in StoreDomains
        /\ handler[h].pc \notin {"idle", "delete", "drop"} =>
              handler[h].list \notin lists \cap UrlLists

\* Somebody is about to use a domain that no list uses, or to delete it.
StoreUnusedAreSeen ==
    \A d \in StoreDomains \ stray :
        row[d] # 0 /\ d \notin Store!Used(members) =>
            \E h \in StoreHandlers :
                \/ handler[h].pc \in {"select", "attach"} /\ handler[h].domain = d
                \/ handler[h].pc = "cleanup" /\ <<d, row[d]>> \in handler[h].ids

StoreCounted(l) == Store!Cardinality(Store!On(l, members))

\* Who is alone with a list has counted its domains before it stores the count.
StoreAloneCounts ==
    \A h \in StoreHandlers :
        handler[h].pc # "idle" /\ handler[h].alone =>
            /\ \A other \in StoreHandlers \ {h} :
                  handler[other].pc # "idle" => handler[other].list # handler[h].list
            /\ handler[h].pc = "store" /\ handler[h].list \in lists =>
                  handler[h].count = StoreCounted(handler[h].list)

\* Unless two handlers came together on a list, the one it has is alone, and its
\* count is right or is about to be.
StoreUncrowded ==
    \A l \in lists \ crowded :
        /\ \A h \in StoreHandlers :
              handler[h].pc # "idle" /\ handler[h].list = l => handler[h].alone
        /\ \/ entryCount[l] = StoreCounted(l)
           \/ \E h \in StoreHandlers :
                 handler[h].list = l /\ handler[h].pc \in {"cleanup", "count", "store"}

StoreInductive ==
    /\ StoreTyped /\ StorePlaces /\ Store!ListsKeepTheirDomains
    /\ StoreUnusedAreSeen /\ StoreAloneCounts /\ StoreUncrowded

LEMMA StoreCardinality == ASSUME NEW S PROVE Store!Cardinality(S) = Cardinality(S)
BY DEF Store!Cardinality, Cardinality

LEMMA StoreCountIsNumber ==
    ASSUME NEW m, NEW l
    PROVE  Store!Cardinality(Store!On(l, m)) \in Nat
<1>1. Store!On(l, m) \subseteq StoreDomains
  BY DEF Store!On
<1>2. IsFiniteSet(Store!On(l, m))
  BY <1>1, StoreConstants, FS_Subset
<1> QED BY <1>2, FS_CardinalityType, StoreCardinality

\* The domains of other lists are what they were.
LEMMA StoreOthersKeep ==
    ASSUME NEW m, NEW n, NEW l, \A d \in StoreDomains : <<l, d>> \in m <=> <<l, d>> \in n
    PROVE  Store!On(l, m) = Store!On(l, n)
BY DEF Store!On

LEMMA StoreInitInductive ==
    (IF part = "store" THEN Store!Init ELSE Store!Setup("sqlite")) => StoreInductive
<1> SUFFICES ASSUME NEW b \in {"sqlite", "mysql"}, Store!Setup(b) PROVE StoreInductive
  BY DEF Store!Init
<1> USE DEF Store!Setup
<1>1. Store!Cardinality(StoreDomains) \in Nat
  BY StoreConstants, FS_CardinalityType, StoreCardinality
<1>2. Store!Idle \in StoreTasks /\ Store!Idle.pc = "idle"
  BY DEF Store!Idle, StoreTasks
<1>3. \A l \in Store!AllLists : Store!On(l, members) = StoreDomains
  BY DEF Store!On
<1>4. StoreTyped
  BY <1>1, <1>2 DEF StoreTyped
<1>5. StorePlaces /\ Store!ListsKeepTheirDomains /\ StoreAloneCounts
  BY <1>2 DEF StorePlaces, Store!ListsKeepTheirDomains, StoreAloneCounts
<1>6. StoreUnusedAreSeen
  BY StoreConstants DEF StoreUnusedAreSeen, Store!Used
<1>7. StoreUncrowded
  BY <1>2, <1>3 DEF StoreUncrowded, StoreCounted
<1> QED BY <1>4, <1>5, <1>6, <1>7 DEF StoreInductive

\* A handler goes on, and what it leaves and comes to says nothing of the tables.
LEMMA StoreHandlerGoes ==
    ASSUME StoreInductive, NEW h \in StoreHandlers, NEW u \in StoreTasks,
           handler' = [handler EXCEPT ![h] = u],
           u.list = handler[h].list, u.domain = handler[h].domain,
           u.alone = handler[h].alone,
           UNCHANGED <<backend, Store!tables, ops, Store!history>>,
           \/ handler[h].pc = "add" /\ u.pc \in {"insert", "count"}
           \/ handler[h].pc = "remove" /\ u.pc \in {"detach", "count"}
           \/ handler[h].pc = "delete" /\ u.pc = "drop"
           \/ /\ handler[h].pc = "count" /\ u.pc = "store"
              /\ u.count = StoreCounted(u.list)
    PROVE  StoreInductive'
<1> USE DEF Store!tables, Store!history
<1>0. handler \in [StoreHandlers -> StoreTasks]
  BY DEF StoreInductive, StoreTyped
<1>1. StoreTyped'
  BY <1>0 DEF StoreInductive, StoreTyped
<1>2. StorePlaces'
  BY <1>0 DEF StoreInductive, StorePlaces
<1>3. Store!ListsKeepTheirDomains'
  BY DEF StoreInductive, Store!ListsKeepTheirDomains
<1>4. StoreUnusedAreSeen'
  BY <1>0 DEF StoreInductive, StoreUnusedAreSeen, Store!Used
<1>5. \A l : StoreCounted(l)' = StoreCounted(l)
  BY DEF StoreCounted, Store!On
<1>6. StoreAloneCounts'
  BY <1>0, <1>5 DEF StoreInductive, StoreAloneCounts
<1>7. StoreUncrowded'
  BY <1>0, <1>5 DEF StoreInductive, StoreUncrowded
<1> QED BY <1>1, <1>2, <1>3, <1>4, <1>6, <1>7 DEF StoreInductive

LEMMA StoreReads ==
    ASSUME StoreInductive, NEW h \in StoreHandlers,
           \/ Store!LookUp(h) \/ Store!SelectMember(h) \/ Store!SelectIds(h) \/ Store!Count(h)
    PROVE  StoreInductive'
<1> DEFINE t == handler[h]
<1> USE DEF Store!Go, Store!tables, Store!history
<1>0. handler \in [StoreHandlers -> StoreTasks] /\ t \in StoreTasks
  BY DEF StoreInductive, StoreTyped
<1>1. row \in [StoreDomains -> Nat]
  BY DEF StoreInductive, StoreTyped
<1>2. CASE Store!LookUp(h)
  <2> DEFINE p == IF <<t.list, t.domain>> \in members THEN "count" ELSE "insert"
             u == [t EXCEPT !.pc = p]
  <2>1. handler' = [handler EXCEPT ![h] = u]
    BY <1>2, <1>0 DEF Store!LookUp
  <2>2. u \in StoreTasks /\ u.list = t.list /\ u.domain = t.domain /\ u.alone = t.alone
        /\ u.pc = p
    BY <1>0 DEF StoreTasks
  <2>3. t.pc = "add" /\ u.pc \in {"insert", "count"}
    BY <1>2, <2>2 DEF Store!LookUp
  <2> HIDE DEF u, p
  <2> QED BY <1>2, <2>1, <2>2, <2>3, StoreHandlerGoes DEF Store!LookUp
<1>3. CASE Store!SelectMember(h)
  <2> DEFINE found == <<t.list, t.domain>> \in members
             p == IF found THEN "detach" ELSE "count"
             s == IF found THEN {<<t.domain, row[t.domain]>>} ELSE t.ids
             u == [t EXCEPT !.pc = p, !.ids = s]
  <2>1. handler' = [handler EXCEPT ![h] = u]
    <3>1. CASE found
      BY <3>1, <1>3, <1>0 DEF Store!SelectMember
    <3>2. CASE ~found
      BY <3>2, <1>3, <1>0 DEF Store!SelectMember, StoreTasks
    <3> QED BY <3>1, <3>2
  <2>2. t.pc = "remove" /\ t.domain \in StoreDomains
    BY <1>3 DEF Store!SelectMember, StoreInductive, StorePlaces
  <2>3. s \in SUBSET (StoreDomains \X Nat)
    BY <2>2, <1>0, <1>1 DEF StoreTasks
  <2>4. u \in StoreTasks /\ u.list = t.list /\ u.domain = t.domain /\ u.alone = t.alone
        /\ u.pc = p
    BY <1>0, <2>3 DEF StoreTasks
  <2>5. u.pc \in {"detach", "count"}
    BY <2>4
  <2> HIDE DEF u, p, s, found
  <2> QED BY <1>3, <2>1, <2>2, <2>4, <2>5, StoreHandlerGoes DEF Store!SelectMember
<1>4. CASE Store!SelectIds(h)
  <2> DEFINE s == {<<d, row[d]>> : d \in Store!On(t.list, members)}
             u == [t EXCEPT !.pc = "drop", !.ids = s]
  <2>1. handler' = [handler EXCEPT ![h] = u]
    BY <1>4, <1>0 DEF Store!SelectIds
  <2>2. s \in SUBSET (StoreDomains \X Nat)
    <3>1. \A d \in Store!On(t.list, members) : d \in StoreDomains
      BY DEF Store!On
    <3>2. \A d \in Store!On(t.list, members) : <<d, row[d]>> \in StoreDomains \X Nat
      BY <3>1, <1>1
    <3> QED BY <3>2
  <2>3. u \in StoreTasks /\ u.list = t.list /\ u.domain = t.domain /\ u.alone = t.alone
        /\ u.pc = "drop"
    BY <1>0, <2>2 DEF StoreTasks
  <2>4. t.pc = "delete"
    BY <1>4 DEF Store!SelectIds
  <2> HIDE DEF u, s
  <2> QED BY <1>4, <2>1, <2>3, <2>4, StoreHandlerGoes DEF Store!SelectIds
<1>5. CASE Store!Count(h)
  <2> DEFINE n == Store!Counted(t.list)
             u == [t EXCEPT !.pc = "store", !.count = n]
  <2>1. handler' = [handler EXCEPT ![h] = u]
    BY <1>5, <1>0 DEF Store!Count
  <2>2. n \in Nat /\ n = StoreCounted(t.list)
    BY StoreCountIsNumber DEF Store!Counted, StoreCounted
  <2>3. u \in StoreTasks /\ u.list = t.list /\ u.domain = t.domain /\ u.alone = t.alone
        /\ u.pc = "store" /\ u.count = n
    BY <1>0, <2>2 DEF StoreTasks
  <2>4. t.pc = "count"
    BY <1>5 DEF Store!Count
  <2> HIDE DEF u, n
  <2> QED BY <1>5, <2>1, <2>2, <2>3, <2>4, StoreHandlerGoes DEF Store!Count
<1> QED BY <1>2, <1>3, <1>4, <1>5

LEMMA StoreInserts ==
    ASSUME StoreInductive, NEW h \in StoreHandlers, Store!InsertDomain(h)
    PROVE  StoreInductive'
<1> DEFINE t == handler[h]
           u == [t EXCEPT !.pc = "select"]
<1>0. handler \in [StoreHandlers -> StoreTasks] /\ t \in StoreTasks
  BY DEF StoreInductive, StoreTyped
<1>1. row \in [StoreDomains -> Nat] /\ serial \in Nat
  BY DEF StoreInductive, StoreTyped
<1>2. /\ t.pc = "insert" /\ handler' = [handler EXCEPT ![h] = u]
      /\ UNCHANGED <<backend, lists, members, entryCount, ops, owed, lost, stray, crowded>>
      /\ Store!Insert({t.domain})
  BY <1>0 DEF Store!InsertDomain, Store!Go, Store!history
<1>3. u \in StoreTasks /\ u.list = t.list /\ u.domain = t.domain /\ u.alone = t.alone
      /\ u.pc = "select"
  BY <1>0 DEF StoreTasks
<1>4. t.domain \in StoreDomains
  BY <1>2 DEF StoreInductive, StorePlaces
<1>5. /\ row' \in [StoreDomains -> Nat] /\ serial' \in Nat
      /\ \A d \in StoreDomains : d # t.domain \/ row[d] # 0 => row'[d] = row[d]
  BY <1>1, <1>2 DEF Store!Insert
<1> HIDE DEF u
<1>6. StoreTyped'
  BY <1>0, <1>2, <1>3, <1>5 DEF StoreInductive, StoreTyped
<1>7. StorePlaces'
  BY <1>0, <1>2, <1>3, <1>4 DEF StoreInductive, StorePlaces
<1>8. Store!ListsKeepTheirDomains'
  BY <1>2 DEF StoreInductive, Store!ListsKeepTheirDomains
<1>9. StoreUnusedAreSeen'
  BY <1>0, <1>2, <1>3, <1>5 DEF StoreInductive, StoreUnusedAreSeen, Store!Used
<1>10. \A l : StoreCounted(l)' = StoreCounted(l)
  BY <1>2 DEF StoreCounted, Store!On
<1>11. StoreAloneCounts'
  BY <1>0, <1>2, <1>3, <1>10 DEF StoreInductive, StoreAloneCounts
<1>12. StoreUncrowded'
  BY <1>0, <1>2, <1>3, <1>10 DEF StoreInductive, StoreUncrowded
<1> QED BY <1>6, <1>7, <1>8, <1>9, <1>11, <1>12 DEF StoreInductive

LEMMA StoreSelects ==
    ASSUME StoreInductive, NEW h \in StoreHandlers, Store!SelectRow(h)
    PROVE  StoreInductive'
<1> DEFINE t == handler[h]
           p == IF row[t.domain] = 0 THEN "count" ELSE "attach"
           u == [t EXCEPT !.pc = p, !.row = row[t.domain]]
<1>0. handler \in [StoreHandlers -> StoreTasks] /\ t \in StoreTasks
  BY DEF StoreInductive, StoreTyped
<1>1. row \in [StoreDomains -> Nat]
  BY DEF StoreInductive, StoreTyped
<1>2. /\ t.pc = "select" /\ handler' = [handler EXCEPT ![h] = u]
      /\ UNCHANGED <<backend, lists, row, serial, members, entryCount, ops, owed, stray,
                     crowded>>
      /\ lost \subseteq lost'
  BY <1>0 DEF Store!SelectRow, Store!tables
<1>3. t.domain \in StoreDomains /\ row[t.domain] \in Nat
  BY <1>1, <1>2 DEF StoreInductive, StorePlaces
<1>4. u \in StoreTasks /\ u.list = t.list /\ u.domain = t.domain /\ u.alone = t.alone
      /\ u.pc = p
  BY <1>0, <1>3 DEF StoreTasks
<1>5. u.pc \in {"count", "attach"} /\ (u.pc = "count" => row[u.domain] = 0)
  BY <1>4
<1> HIDE DEF u, p
<1>6. StoreTyped'
  BY <1>0, <1>2, <1>4 DEF StoreInductive, StoreTyped
<1>7. StorePlaces'
  BY <1>0, <1>2, <1>3, <1>4, <1>5 DEF StoreInductive, StorePlaces
<1>8. Store!ListsKeepTheirDomains'
  BY <1>2 DEF StoreInductive, Store!ListsKeepTheirDomains
<1>9. StoreUnusedAreSeen'
  BY <1>0, <1>2, <1>4, <1>5 DEF StoreInductive, StoreUnusedAreSeen, Store!Used
<1>10. \A l : StoreCounted(l)' = StoreCounted(l)
  BY <1>2 DEF StoreCounted, Store!On
<1>11. StoreAloneCounts'
  BY <1>0, <1>2, <1>4, <1>5, <1>10 DEF StoreInductive, StoreAloneCounts
<1>12. StoreUncrowded'
  BY <1>0, <1>2, <1>4, <1>5, <1>10 DEF StoreInductive, StoreUncrowded
<1> QED BY <1>6, <1>7, <1>8, <1>9, <1>11, <1>12 DEF StoreInductive

LEMMA StoreAttaches ==
    ASSUME StoreInductive, NEW h \in StoreHandlers, Store!Attach(h)
    PROVE  StoreInductive'
<1> DEFINE t == handler[h]
           m == <<t.list, t.domain>>
           found == t.list \in lists /\ row[t.domain] = t.row
           u == IF ~found /\ backend = "sqlite" THEN Store!Idle ELSE [t EXCEPT !.pc = "count"]
<1>0. handler \in [StoreHandlers -> StoreTasks] /\ t \in StoreTasks
  BY DEF StoreInductive, StoreTyped
<1>1. t.pc = "attach" /\ t.list \in Store!AllLists /\ t.domain \in StoreDomains
      /\ t.list \notin lists \cap UrlLists
  BY DEF Store!Attach, StoreInductive, StorePlaces
<1>2. /\ handler' = [handler EXCEPT ![h] = u]
      /\ UNCHANGED <<backend, lists, row, serial, entryCount, ops, crowded>>
  BY <1>0 DEF Store!Attach, Store!Go, Store!Return
<1>3. found => members' = members \cup {m} /\ owed' = owed \cup {m}
               /\ lost' = lost \ {m} /\ stray' = stray
  BY DEF Store!Attach
<1>4. ~found => members' = members /\ owed' = owed
                /\ lost' = lost \cup {m} /\ stray' = stray \cup {t.domain}
  BY DEF Store!Attach
<1>5. u \in StoreTasks /\ u.pc \in {"idle", "count"}
      /\ (u.pc # "idle" => u.list = t.list /\ u.alone = t.alone)
      /\ (found => u.pc = "count" /\ u.list = t.list)
  BY <1>0 DEF StoreTasks, Store!Idle
<1>6. \A l \in Store!AllLists \ {t.list} : StoreCounted(l)' = StoreCounted(l)
  BY <1>3, <1>4 DEF StoreCounted, Store!On
<1>7. ~found => \A l : StoreCounted(l)' = StoreCounted(l)
  BY <1>4 DEF StoreCounted, Store!On
<1>8. StoreTyped'
  BY <1>0, <1>1, <1>2, <1>3, <1>4, <1>5 DEF StoreInductive, StoreTyped
<1> HIDE DEF u
<1>9. StorePlaces'
  BY <1>0, <1>1, <1>2, <1>5 DEF StoreInductive, StorePlaces
<1>10. Store!ListsKeepTheirDomains'
  BY <1>3, <1>4 DEF StoreInductive, Store!ListsKeepTheirDomains
<1>11. StoreUnusedAreSeen'
  BY <1>0, <1>1, <1>2, <1>3, <1>4, <1>5 DEF StoreInductive, StoreUnusedAreSeen, Store!Used
<1>12. StoreAloneCounts'
  <2>1. handler' \in [StoreHandlers -> StoreTasks]
    BY <1>8 DEF StoreTyped
  <2>2. lists \subseteq Store!AllLists
    BY DEF StoreInductive, StoreTyped
  <2>3. \A g \in StoreHandlers \ {h} :
            handler'[g] = handler[g]
            /\ (handler[g].pc # "idle" /\ handler[g].alone => handler[g].list # t.list)
    BY <1>0, <1>1, <1>2 DEF StoreInductive, StoreAloneCounts
  <2>4. \A g \in StoreHandlers \ {h} :
            handler[g].pc = "store" /\ handler[g].alone /\ handler[g].list \in lists =>
                StoreCounted(handler[g].list)' = StoreCounted(handler[g].list)
    BY <1>6, <2>2, <2>3
  <2> HIDE DEF found
  <2> QED BY <1>0, <1>1, <1>2, <1>5, <2>1, <2>3, <2>4 DEF StoreInductive, StoreAloneCounts
<1>13. StoreUncrowded'
  <2>1. lists \subseteq Store!AllLists
    BY DEF StoreInductive, StoreTyped
  <2>2. \A l \in lists : l # t.list \/ ~found => StoreCounted(l)' = StoreCounted(l)
    BY <1>6, <1>7, <2>1
  <2>3. handler'[h] = u /\ \A g \in StoreHandlers \ {h} : handler'[g] = handler[g]
    BY <1>0, <1>2
  <2> HIDE DEF found
  <2> QED BY <1>0, <1>1, <1>2, <1>5, <2>2, <2>3 DEF StoreInductive, StoreUncrowded
<1> QED BY <1>8, <1>9, <1>10, <1>11, <1>12, <1>13 DEF StoreInductive

LEMMA StoreDetaches ==
    ASSUME StoreInductive, NEW h \in StoreHandlers, Store!Detach(h)
    PROVE  StoreInductive'
<1> DEFINE t == handler[h]
           u == [t EXCEPT !.pc = "cleanup"]
           gone == {m \in members : m[1] = t.list /\ <<m[2], row[m[2]]>> \in t.ids}
<1>0. handler \in [StoreHandlers -> StoreTasks] /\ t \in StoreTasks
  BY DEF StoreInductive, StoreTyped
<1>1. /\ row \in [StoreDomains -> Nat] /\ lists \subseteq Store!AllLists
      /\ members \subseteq Store!AllLists \X StoreDomains
  BY DEF StoreInductive, StoreTyped
<1>2. /\ t.pc = "detach" /\ handler' = [handler EXCEPT ![h] = u]
      /\ UNCHANGED <<backend, lists, serial, entryCount, ops, lost, stray, crowded>>
      /\ members' = members \ gone
      /\ owed' = owed \ (members \ members')
  BY <1>0 DEF Store!Detach, Store!Go, Store!RemoveMembers
<1>3. row' = [d \in StoreDomains |->
                 IF backend = "sqlite" /\ d \in Store!Used(members) \ Store!Used(members')
                 THEN 0 ELSE row[d]]
  BY DEF Store!Detach, Store!RemoveMembers
<1>4. /\ row' \in [StoreDomains -> Nat]
      /\ \A d \in StoreDomains : row'[d] # 0 => row'[d] = row[d]
  BY <1>1, <1>3
<1>5. u \in StoreTasks /\ u.list = t.list /\ u.alone = t.alone /\ u.ids = t.ids
      /\ u.pc = "cleanup"
  BY <1>0 DEF StoreTasks
<1>6. t.list \in Store!AllLists /\ t.list \notin lists \cap UrlLists
  BY <1>2 DEF StoreInductive, StorePlaces
<1>7. \A d \in Store!Used(members) \ Store!Used(members') : <<d, row[d]>> \in t.ids
  <2> SUFFICES ASSUME NEW d \in StoreDomains, NEW l \in Store!AllLists,
                      <<l, d>> \in members, <<l, d>> \notin members'
               PROVE  <<d, row[d]>> \in t.ids
    BY DEF Store!Used
  <2> QED BY <1>2
<1>8. \A l \in lists : l # t.list => StoreCounted(l)' = StoreCounted(l)
  <2> SUFFICES ASSUME NEW l \in lists, l # t.list
               PROVE  Store!On(l, members') = Store!On(l, members)
    BY DEF StoreCounted
  <2>1. \A d \in StoreDomains : <<l, d>> \in members' <=> <<l, d>> \in members
    BY <1>2
  <2> QED BY <2>1, StoreOthersKeep
<1> HIDE DEF u, gone
<1>9. StoreTyped'
  BY <1>0, <1>1, <1>2, <1>4, <1>5 DEF StoreInductive, StoreTyped
<1>10. StorePlaces'
  BY <1>0, <1>2, <1>5, <1>6 DEF StoreInductive, StorePlaces
<1>11. Store!ListsKeepTheirDomains'
  BY <1>2 DEF StoreInductive, Store!ListsKeepTheirDomains
<1>12. StoreUnusedAreSeen'
  <2> SUFFICES ASSUME NEW d \in StoreDomains \ stray', row'[d] # 0,
                      d \notin Store!Used(members')
               PROVE  \E g \in StoreHandlers :
                        \/ handler'[g].pc \in {"select", "attach"} /\ handler'[g].domain = d
                        \/ handler'[g].pc = "cleanup" /\ <<d, row'[d]>> \in handler'[g].ids
    BY DEF StoreUnusedAreSeen, Store!Used
  <2>1. CASE d \in Store!Used(members)
    BY <2>1, <1>0, <1>2, <1>4, <1>5, <1>7
  <2>2. CASE d \notin Store!Used(members)
    BY <2>2, <1>0, <1>2, <1>4, <1>5 DEF StoreInductive, StoreUnusedAreSeen
  <2> QED BY <2>1, <2>2
<1>13. StoreAloneCounts'
  BY <1>0, <1>2, <1>5, <1>8 DEF StoreInductive, StoreAloneCounts
<1>14. StoreUncrowded'
  BY <1>0, <1>2, <1>5, <1>8 DEF StoreInductive, StoreUncrowded
<1> QED BY <1>9, <1>10, <1>11, <1>12, <1>13, <1>14 DEF StoreInductive

LEMMA StoreDrops ==
    ASSUME StoreInductive, NEW h \in StoreHandlers, Store!DropList(h)
    PROVE  StoreInductive'
<1> DEFINE t == handler[h]
           u == [t EXCEPT !.pc = "cleanup"]
           late == {d \in Store!On(t.list, members) : <<d, row[d]>> \notin t.ids}
<1>0. handler \in [StoreHandlers -> StoreTasks] /\ t \in StoreTasks
  BY DEF StoreInductive, StoreTyped
<1>1. /\ row \in [StoreDomains -> Nat] /\ lists \subseteq Store!AllLists
      /\ members \subseteq Store!AllLists \X StoreDomains /\ backend \in {"sqlite", "mysql"}
      /\ owed \subseteq Store!AllLists \X StoreDomains
  BY DEF StoreInductive, StoreTyped
<1>2. /\ t.pc = "drop" /\ handler' = [handler EXCEPT ![h] = u]
      /\ UNCHANGED <<backend, serial, entryCount, ops, crowded>>
      /\ lists' = lists \ {t.list}
      /\ members' = {m \in members : m[1] # t.list}
      /\ owed' = {m \in owed : m[1] # t.list}
      /\ lost' = {m \in lost : m[1] # t.list}
      /\ stray' = IF backend = "mysql" THEN stray \cup late ELSE stray
  BY <1>0 DEF Store!DropList, Store!Go, Store!RemoveMembers
<1>3. row' = [d \in StoreDomains |->
                 IF backend = "sqlite" /\ d \in Store!Used(members) \ Store!Used(members')
                 THEN 0 ELSE row[d]]
  BY DEF Store!DropList, Store!RemoveMembers
<1>4. /\ row' \in [StoreDomains -> Nat]
      /\ \A d \in StoreDomains : row'[d] # 0 => row'[d] = row[d]
  BY <1>1, <1>3
<1>5. u \in StoreTasks /\ u.list = t.list /\ u.alone = t.alone /\ u.ids = t.ids
      /\ u.pc = "cleanup"
  BY <1>0 DEF StoreTasks
<1>6. t.list \in Store!AllLists
  BY <1>2 DEF StoreInductive, StorePlaces
<1>7. \A d \in Store!Used(members) \ Store!Used(members') :
          <<d, row[d]>> \in t.ids \/ d \in late
  <2> SUFFICES ASSUME NEW d \in StoreDomains, NEW l \in Store!AllLists,
                      <<l, d>> \in members, <<l, d>> \notin members'
               PROVE  <<d, row[d]>> \in t.ids \/ d \in late
    BY DEF Store!Used
  <2>1. l = t.list
    BY <1>2
  <2> QED BY <2>1 DEF Store!On
<1>8. \A l \in lists' : StoreCounted(l)' = StoreCounted(l)
  <2> SUFFICES ASSUME NEW l \in lists, l # t.list
               PROVE  Store!On(l, members') = Store!On(l, members)
    BY <1>2 DEF StoreCounted
  <2>1. \A d \in StoreDomains : <<l, d>> \in members' <=> <<l, d>> \in members
    BY <1>2
  <2> QED BY <2>1, StoreOthersKeep
<1>9. \A d \in StoreDomains \ stray' :
          d \in Store!Used(members) \ Store!Used(members') =>
              \/ row'[d] = 0
              \/ <<d, row'[d]>> \in t.ids
  BY <1>1, <1>2, <1>3, <1>4, <1>7
<1> HIDE DEF u, late
<1>10. StoreTyped'
  BY <1>0, <1>1, <1>2, <1>4, <1>5 DEF StoreInductive, StoreTyped
<1>11. StorePlaces'
  BY <1>0, <1>2, <1>5, <1>6 DEF StoreInductive, StorePlaces
<1>12. Store!ListsKeepTheirDomains'
  BY <1>2 DEF StoreInductive, Store!ListsKeepTheirDomains
<1>13. StoreUnusedAreSeen'
  <2> SUFFICES ASSUME NEW d \in StoreDomains \ stray', row'[d] # 0,
                      d \notin Store!Used(members')
               PROVE  \E g \in StoreHandlers :
                        \/ handler'[g].pc \in {"select", "attach"} /\ handler'[g].domain = d
                        \/ handler'[g].pc = "cleanup" /\ <<d, row'[d]>> \in handler'[g].ids
    BY DEF StoreUnusedAreSeen, Store!Used
  <2>1. CASE d \in Store!Used(members)
    BY <2>1, <1>0, <1>2, <1>5, <1>9
  <2>2. CASE d \notin Store!Used(members)
    <3>1. d \in StoreDomains \ stray /\ row[d] # 0 /\ row'[d] = row[d]
      BY <1>2, <1>4
    <3> QED BY <2>2, <3>1, <1>0, <1>2, <1>5 DEF StoreInductive, StoreUnusedAreSeen
  <2> QED BY <2>1, <2>2
<1>14. StoreAloneCounts'
  BY <1>0, <1>2, <1>5, <1>8 DEF StoreInductive, StoreAloneCounts
<1>15. StoreUncrowded'
  BY <1>0, <1>2, <1>5, <1>8 DEF StoreInductive, StoreUncrowded
<1> QED BY <1>10, <1>11, <1>12, <1>13, <1>14, <1>15 DEF StoreInductive

LEMMA StoreCleansUp ==
    ASSUME StoreInductive, NEW h \in StoreHandlers, Store!CleanUp(h)
    PROVE  StoreInductive'
<1> DEFINE t == handler[h]
           u == IF t.list \in lists THEN [t EXCEPT !.pc = "count"] ELSE Store!Idle
           present == {d \in StoreDomains : row[d] # 0 /\ <<d, row[d]>> \in t.ids}
           unused == Store!Unused(present, members)
<1>0. handler \in [StoreHandlers -> StoreTasks] /\ t \in StoreTasks
  BY DEF StoreInductive, StoreTyped
<1>1. /\ row \in [StoreDomains -> Nat] /\ lists \subseteq Store!AllLists
      /\ members \subseteq Store!AllLists \X StoreDomains
  BY DEF StoreInductive, StoreTyped
<1>2. /\ t.pc = "cleanup" /\ handler' = [handler EXCEPT ![h] = u]
      /\ UNCHANGED <<backend, lists, serial, entryCount, ops, owed, lost, stray, crowded>>
      /\ row' = [d \in StoreDomains |-> IF d \in unused THEN 0 ELSE row[d]]
      /\ members' = {m \in members : m[2] \notin unused}
  BY <1>0 DEF Store!CleanUp, Store!Go, Store!Return, Store!DeleteRows, Store!history
<1>3. members' = members
  <2>1. \A m \in members : m[2] \in Store!Used(members)
    BY <1>1 DEF Store!Used
  <2> QED BY <1>2, <2>1 DEF Store!Unused
<1>4. /\ row' \in [StoreDomains -> Nat]
      /\ \A d \in StoreDomains : row'[d] # 0 => row'[d] = row[d]
  BY <1>1, <1>2
<1>5. u \in StoreTasks /\ u.pc \in {"count", "idle"} /\ (t.list \in lists => u.pc = "count")
      /\ (u.pc = "count" => u.list = t.list /\ u.alone = t.alone)
  BY <1>0 DEF StoreTasks, Store!Idle
<1>6. t.list \in Store!AllLists /\ t.list \notin lists \cap UrlLists
  BY <1>2 DEF StoreInductive, StorePlaces
<1>7. \A d \in StoreDomains : d \notin Store!Used(members) /\ row'[d] # 0 =>
          <<d, row[d]>> \notin t.ids
  BY <1>2, <1>4 DEF Store!Unused
<1>8. \A l : StoreCounted(l)' = StoreCounted(l)
  BY <1>3 DEF StoreCounted, Store!On
<1> HIDE DEF u, present, unused
<1>9. StoreTyped'
  BY <1>0, <1>2, <1>3, <1>4, <1>5 DEF StoreInductive, StoreTyped
<1>10. StorePlaces'
  BY <1>0, <1>2, <1>5, <1>6 DEF StoreInductive, StorePlaces
<1>11. Store!ListsKeepTheirDomains'
  BY <1>2, <1>3 DEF StoreInductive, Store!ListsKeepTheirDomains
<1>12. StoreUnusedAreSeen'
  <2> SUFFICES ASSUME NEW d \in StoreDomains \ stray, row'[d] # 0,
                      d \notin Store!Used(members)
               PROVE  \E g \in StoreHandlers :
                        \/ handler'[g].pc \in {"select", "attach"} /\ handler'[g].domain = d
                        \/ handler'[g].pc = "cleanup" /\ <<d, row'[d]>> \in handler'[g].ids
    BY <1>2, <1>3 DEF StoreUnusedAreSeen, Store!Used
  <2>1. PICK g \in StoreHandlers :
            \/ handler[g].pc \in {"select", "attach"} /\ handler[g].domain = d
            \/ handler[g].pc = "cleanup" /\ <<d, row[d]>> \in handler[g].ids
    BY <1>4 DEF StoreInductive, StoreUnusedAreSeen
  <2>2. g # h
    BY <1>2, <1>7, <2>1
  <2> QED BY <2>1, <2>2, <1>0, <1>2, <1>4
<1>13. StoreAloneCounts'
  BY <1>0, <1>2, <1>5, <1>8 DEF StoreInductive, StoreAloneCounts
<1>14. StoreUncrowded'
  BY <1>0, <1>2, <1>5, <1>8 DEF StoreInductive, StoreUncrowded
<1> QED BY <1>9, <1>10, <1>11, <1>12, <1>13, <1>14 DEF StoreInductive

LEMMA StoreStoresCount ==
    ASSUME StoreInductive, NEW h \in StoreHandlers, Store!StoreCount(h)
    PROVE  StoreInductive'
<1> DEFINE t == handler[h]
<1>0. handler \in [StoreHandlers -> StoreTasks] /\ t \in StoreTasks
  BY DEF StoreInductive, StoreTyped
<1>1. /\ lists \subseteq Store!AllLists /\ entryCount \in [Store!AllLists -> Nat]
  BY DEF StoreInductive, StoreTyped
<1>2. /\ t.pc = "store" /\ handler' = [handler EXCEPT ![h] = Store!Idle]
      /\ entryCount' = IF t.list \in lists THEN [entryCount EXCEPT ![t.list] = t.count]
                       ELSE entryCount
      /\ crowded' = IF t.alone THEN crowded \ {t.list} ELSE crowded
      /\ UNCHANGED <<backend, lists, row, serial, members, ops, owed, lost, stray>>
  BY DEF Store!StoreCount, Store!Return
<1>3. Store!Idle \in StoreTasks /\ Store!Idle.pc = "idle" /\ t.count \in Nat
  BY <1>0 DEF StoreTasks, Store!Idle
<1>4. \A l : StoreCounted(l)' = StoreCounted(l)
  BY <1>2 DEF StoreCounted, Store!On
<1>5. StoreTyped'
  BY <1>0, <1>1, <1>2, <1>3 DEF StoreInductive, StoreTyped
<1>6. StorePlaces'
  BY <1>0, <1>2, <1>3 DEF StoreInductive, StorePlaces
<1>7. Store!ListsKeepTheirDomains'
  BY <1>2 DEF StoreInductive, Store!ListsKeepTheirDomains
<1>8. StoreUnusedAreSeen'
  BY <1>0, <1>2, <1>3 DEF StoreInductive, StoreUnusedAreSeen, Store!Used
<1>9. StoreAloneCounts'
  BY <1>0, <1>2, <1>3, <1>4 DEF StoreInductive, StoreAloneCounts
<1>10. StoreUncrowded'
  <2> SUFFICES ASSUME NEW l \in lists, l \notin crowded'
               PROVE  /\ \A g \in StoreHandlers :
                           handler'[g].pc # "idle" /\ handler'[g].list = l => handler'[g].alone
                      /\ \/ entryCount'[l] = StoreCounted(l)
                         \/ \E g \in StoreHandlers :
                               handler'[g].list = l
                               /\ handler'[g].pc \in {"cleanup", "count", "store"}
    BY <1>2, <1>4 DEF StoreUncrowded
  <2>1. CASE l = t.list
    <3>1. t.alone
      BY <2>1, <1>2 DEF StoreInductive, StoreUncrowded
    <3>2. t.count = StoreCounted(l)
      BY <2>1, <3>1, <1>2 DEF StoreInductive, StoreAloneCounts
    <3>3. \A g \in StoreHandlers \ {h} : handler[g].pc # "idle" => handler[g].list # l
      BY <2>1, <3>1, <1>2 DEF StoreInductive, StoreAloneCounts
    <3> QED BY <2>1, <3>2, <3>3, <1>0, <1>1, <1>2, <1>3
  <2>2. CASE l # t.list
    <3>1. l \notin crowded /\ entryCount'[l] = entryCount[l]
      BY <2>2, <1>1, <1>2
    <3> QED BY <2>2, <3>1, <1>0, <1>2, <1>3 DEF StoreInductive, StoreUncrowded
  <2> QED BY <2>1, <2>2
<1> QED BY <1>5, <1>6, <1>7, <1>8, <1>9, <1>10 DEF StoreInductive

LEMMA StoreStarts ==
    ASSUME StoreInductive, Store!Start
    PROVE  StoreInductive'
<1>0. handler \in [StoreHandlers -> StoreTasks]
  BY DEF StoreInductive, StoreTyped
<1>1. PICK h \in StoreHandlers, l \in lists, pc \in {"add", "remove", "delete"},
           d \in StoreDomains \cup {0} :
              /\ Store!Call(h, pc, l, d)
              /\ pc # "delete" => l \in ManualLists /\ d \in StoreDomains
  BY DEF Store!Start
<1>2. UNCHANGED <<backend, Store!tables, owed, lost, stray>>
  BY DEF Store!Start
<1> DEFINE u == [Store!Idle EXCEPT !.pc = pc, !.list = l, !.domain = d,
                                   !.alone = Store!Busy(l) = {}]
           more == IF Store!Busy(l) = {} THEN crowded ELSE crowded \cup {l}
<1>3. l \in Store!AllLists
  BY DEF StoreInductive, StoreTyped
<1>4. /\ u \in StoreTasks /\ u.pc = pc /\ u.list = l /\ u.domain = d
      /\ u.alone <=> Store!Busy(l) = {}
  BY <1>3 DEF StoreTasks, Store!Idle
<1>5. /\ handler[h].pc = "idle"
      /\ handler' = [Store!Disturbed(l) EXCEPT ![h] = u]
      /\ crowded' = more
  BY <1>1 DEF Store!Call, Store!Working
<1>6. \A g \in StoreHandlers :
          g \in Store!Busy(l) <=> handler[g].pc # "idle" /\ handler[g].list = l
  BY DEF Store!Busy, Store!Working
<1>7. /\ DOMAIN handler' = StoreHandlers /\ handler' = [g \in StoreHandlers |-> handler'[g]]
      /\ handler'[h] = u
      /\ \A g \in StoreHandlers \ {h} :
            handler'[g] = IF g \in Store!Busy(l) THEN [handler[g] EXCEPT !.alone = FALSE]
                          ELSE handler[g]
  BY <1>5 DEF Store!Disturbed
<1>8. \A g \in StoreHandlers \ {h} :
          /\ handler'[g] \in StoreTasks
          /\ handler'[g].pc = handler[g].pc /\ handler'[g].list = handler[g].list
          /\ handler'[g].domain = handler[g].domain /\ handler'[g].ids = handler[g].ids
          /\ handler'[g].count = handler[g].count
          /\ handler'[g].alone <=> handler[g].alone /\ g \notin Store!Busy(l)
  <2> TAKE g \in StoreHandlers \ {h}
  <2>1. handler[g] \in StoreTasks
    BY <1>0
  <2>2. CASE g \in Store!Busy(l)
    <3>1. handler'[g] = [handler[g] EXCEPT !.alone = FALSE]
      BY <2>2, <1>7
    <3> QED BY <2>1, <2>2, <3>1 DEF StoreTasks
  <2>3. CASE g \notin Store!Busy(l)
    <3>1. handler'[g] = handler[g]
      BY <2>3, <1>7
    <3> QED BY <2>1, <2>3, <3>1
  <2> QED BY <2>2, <2>3
<1>9. h \notin Store!Busy(l)
  BY <1>5, <1>6
<1>10. \A k : StoreCounted(k)' = StoreCounted(k)
  BY <1>2 DEF StoreCounted, Store!On, Store!tables
<1> HIDE DEF u
<1>11. StoreTyped'
  <2>1. \A g \in StoreHandlers : handler'[g] \in StoreTasks
    BY <1>4, <1>7, <1>8
  <2>2. handler' \in [StoreHandlers -> StoreTasks]
    BY <2>1, <1>7
  <2> QED BY <2>2, <1>2 DEF StoreInductive, StoreTyped, Store!tables
<1>12. StorePlaces'
  <2>1. pc # "delete" => l \notin UrlLists
    BY <1>1, StoreConstants
  <2> QED BY <2>1, <1>1, <1>2, <1>3, <1>4, <1>7, <1>8
      DEF StoreInductive, StorePlaces, Store!tables
<1>13. Store!ListsKeepTheirDomains'
  BY <1>2 DEF StoreInductive, Store!ListsKeepTheirDomains, Store!tables
<1>14. StoreUnusedAreSeen'
  <2> SUFFICES ASSUME NEW x \in StoreDomains \ stray, row[x] # 0, x \notin Store!Used(members)
               PROVE  \E g \in StoreHandlers :
                        \/ handler'[g].pc \in {"select", "attach"} /\ handler'[g].domain = x
                        \/ handler'[g].pc = "cleanup" /\ <<x, row[x]>> \in handler'[g].ids
    BY <1>2 DEF StoreUnusedAreSeen, Store!Used, Store!tables
  <2>1. PICK g \in StoreHandlers :
            \/ handler[g].pc \in {"select", "attach"} /\ handler[g].domain = x
            \/ handler[g].pc = "cleanup" /\ <<x, row[x]>> \in handler[g].ids
    BY DEF StoreInductive, StoreUnusedAreSeen
  <2>2. g # h
    BY <1>5, <2>1
  <2> QED BY <2>1, <2>2, <1>8
<1>15. StoreAloneCounts'
  <2> SUFFICES ASSUME NEW g \in StoreHandlers, handler'[g].pc # "idle", handler'[g].alone
               PROVE  /\ \A other \in StoreHandlers \ {g} : handler'[other].pc # "idle" =>
                            handler'[other].list # handler'[g].list
                      /\ handler'[g].pc = "store" /\ handler'[g].list \in lists =>
                            handler'[g].count = StoreCounted(handler'[g].list)
    BY <1>2, <1>10 DEF StoreAloneCounts, Store!tables
  <2>1. CASE g = h
    BY <2>1, <1>1, <1>4, <1>6, <1>7, <1>8
  <2>2. CASE g # h
    <3>1. handler[g].alone /\ g \notin Store!Busy(l) /\ handler[g].pc # "idle"
          /\ handler[g].list # l
      BY <2>2, <1>6, <1>8
    <3>2. /\ \A other \in StoreHandlers \ {g} : handler[other].pc # "idle" =>
                 handler[other].list # handler[g].list
          /\ handler[g].pc = "store" /\ handler[g].list \in lists =>
                 handler[g].count = StoreCounted(handler[g].list)
      BY <3>1 DEF StoreInductive, StoreAloneCounts
    <3> QED BY <2>2, <3>1, <3>2, <1>4, <1>7, <1>8
  <2> QED BY <2>1, <2>2
<1>16. StoreUncrowded'
  <2> SUFFICES ASSUME NEW k \in lists, k \notin crowded'
               PROVE  /\ \A g \in StoreHandlers :
                           handler'[g].pc # "idle" /\ handler'[g].list = k => handler'[g].alone
                      /\ \/ entryCount[k] = StoreCounted(k)
                         \/ \E g \in StoreHandlers :
                               handler'[g].list = k
                               /\ handler'[g].pc \in {"cleanup", "count", "store"}
    BY <1>2, <1>10 DEF StoreUncrowded, Store!tables
  <2>1. k \notin crowded /\ (k = l => Store!Busy(l) = {})
    BY <1>5
  <2>2. /\ \A g \in StoreHandlers :
              handler[g].pc # "idle" /\ handler[g].list = k => handler[g].alone
        /\ \/ entryCount[k] = StoreCounted(k)
           \/ \E g \in StoreHandlers :
                 handler[g].list = k /\ handler[g].pc \in {"cleanup", "count", "store"}
    BY <2>1 DEF StoreInductive, StoreUncrowded
  <2>3. \A g \in StoreHandlers :
           handler'[g].pc # "idle" /\ handler'[g].list = k => handler'[g].alone
    BY <2>1, <2>2, <1>4, <1>6, <1>7, <1>8
  <2>4. \A g \in StoreHandlers : handler[g].pc \in {"cleanup", "count", "store"} =>
            handler'[g].pc = handler[g].pc /\ handler'[g].list = handler[g].list
    BY <1>5, <1>8
  <2> QED BY <2>2, <2>3, <2>4
<1> QED BY <1>11, <1>12, <1>13, <1>14, <1>15, <1>16 DEF StoreInductive

\* A transaction gives list l the domains ds, counts them, and deletes the rows of
\* those in gone.
StoreTables(l, ds, gone) ==
    /\ \A d \in StoreDomains : <<l, d>> \in members' <=> d \in ds
    /\ \A k \in Store!AllLists \ {l}, d \in StoreDomains :
          <<k, d>> \in members' <=> <<k, d>> \in members
    /\ members' \subseteq Store!AllLists \X StoreDomains
    /\ owed' \subseteq Store!AllLists \X StoreDomains
    /\ serial' \in Nat /\ row' \in [StoreDomains -> Nat]
    /\ \A d \in StoreDomains :
          row'[d] = 0 \/ d \in ds \/ (row'[d] = row[d] /\ d \notin gone)
    /\ \A d \in StoreDomains : row[d] # 0 => row'[d] \in {0, row[d]}
    /\ \A d \in StoreDomains : <<l, d>> \in members /\ d \notin ds =>
          d \in gone \/ d \in Store!Used(members')
    /\ entryCount' = [entryCount EXCEPT ![l] = StoreCounted(l)']
    /\ Store!ListsKeepTheirDomains'
    /\ UNCHANGED <<backend, lists, stray>>

\* The handlers of list l are no longer alone with it, if there are any.
StoreDisturbs(l) ==
    /\ DOMAIN handler' = StoreHandlers /\ handler' = [g \in StoreHandlers |-> handler'[g]]
    /\ \A g \in StoreHandlers :
          /\ handler'[g] \in StoreTasks
          /\ handler'[g].pc = handler[g].pc /\ handler'[g].list = handler[g].list
          /\ handler'[g].domain = handler[g].domain /\ handler'[g].ids = handler[g].ids
          /\ handler'[g].count = handler[g].count
          /\ handler'[g].alone => handler[g].alone
          /\ handler[g].pc = "store" /\ handler[g].list = l => ~handler'[g].alone
          /\ handler[g].alone /\ ~handler'[g].alone => l \in crowded' /\ handler[g].list = l
    /\ \A k \in lists \ crowded' : k = l \/ k \notin crowded
    /\ l \notin crowded' /\ l \in crowded =>
          \A g \in StoreHandlers : handler[g].pc # "idle" => handler[g].list # l

LEMMA StoreTransaction ==
    ASSUME StoreInductive, NEW l \in lists,
           NEW ds \in SUBSET StoreDomains, NEW gone \in SUBSET StoreDomains,
           StoreTables(l, ds, gone), StoreDisturbs(l)
    PROVE  StoreInductive'
<1> USE DEF StoreTables, StoreDisturbs
<1>0. /\ handler \in [StoreHandlers -> StoreTasks] /\ lists \subseteq Store!AllLists
      /\ row \in [StoreDomains -> Nat] /\ entryCount \in [Store!AllLists -> Nat]
      /\ members \subseteq Store!AllLists \X StoreDomains
  BY DEF StoreInductive, StoreTyped
<1>1. StoreTyped'
  <2>1. handler' \in [StoreHandlers -> StoreTasks]
    OBVIOUS
  <2>2. StoreCounted(l)' \in Nat
    BY StoreCountIsNumber DEF StoreCounted
  <2>3. entryCount' \in [Store!AllLists -> Nat]
    BY <2>2, <1>0
  <2> QED BY <2>1, <2>3 DEF StoreInductive, StoreTyped
<1>2. StorePlaces'
  BY DEF StoreInductive, StorePlaces
<1>3. \A k \in lists \ {l} : StoreCounted(k)' = StoreCounted(k)
  <2> SUFFICES ASSUME NEW k \in lists \ {l}
               PROVE  Store!On(k, members') = Store!On(k, members)
    BY DEF StoreCounted
  <2> QED BY <1>0, StoreOthersKeep
<1>4. StoreUnusedAreSeen'
  <2> SUFFICES ASSUME NEW d \in StoreDomains \ stray, row'[d] # 0,
                      d \notin Store!Used(members')
               PROVE  \E g \in StoreHandlers :
                        \/ handler'[g].pc \in {"select", "attach"} /\ handler'[g].domain = d
                        \/ handler'[g].pc = "cleanup" /\ <<d, row'[d]>> \in handler'[g].ids
    BY DEF StoreUnusedAreSeen, Store!Used
  <2>1. d \notin ds
    BY <1>0 DEF Store!Used
  <2>2. row'[d] = row[d] /\ d \notin gone
    BY <2>1
  <2>3. <<l, d>> \notin members
    BY <2>1, <2>2
  <2>4. d \notin Store!Used(members)
    BY <2>3, <1>0 DEF Store!Used
  <2>5. PICK g \in StoreHandlers :
            \/ handler[g].pc \in {"select", "attach"} /\ handler[g].domain = d
            \/ handler[g].pc = "cleanup" /\ <<d, row[d]>> \in handler[g].ids
    BY <2>2, <2>4 DEF StoreInductive, StoreUnusedAreSeen
  <2> QED BY <2>2, <2>5
<1>5. StoreAloneCounts'
  <2> SUFFICES ASSUME NEW g \in StoreHandlers, handler'[g].pc # "idle", handler'[g].alone
               PROVE  /\ \A other \in StoreHandlers \ {g} : handler'[other].pc # "idle" =>
                            handler'[other].list # handler'[g].list
                      /\ handler'[g].pc = "store" /\ handler'[g].list \in lists =>
                            handler'[g].count
                               = Store!Cardinality(Store!On(handler'[g].list, members'))
    BY DEF StoreAloneCounts, StoreCounted
  <2>1. handler[g].alone /\ handler[g].pc # "idle"
    OBVIOUS
  <2>2. /\ \A other \in StoreHandlers \ {g} : handler[other].pc # "idle" =>
               handler[other].list # handler[g].list
        /\ handler[g].pc = "store" /\ handler[g].list \in lists =>
               handler[g].count = StoreCounted(handler[g].list)
    BY <2>1 DEF StoreInductive, StoreAloneCounts
  <2>3. handler[g].pc = "store" => handler[g].list # l
    OBVIOUS
  <2>4. \A other \in StoreHandlers \ {g} : handler'[other].pc # "idle" =>
            handler'[other].list # handler'[g].list
    BY <2>2
  <2>5. handler'[g].pc = "store" /\ handler'[g].list \in lists =>
            handler'[g].count
                               = Store!Cardinality(Store!On(handler'[g].list, members'))
    <3> SUFFICES ASSUME handler'[g].pc = "store", handler'[g].list \in lists
                 PROVE  handler'[g].count
                               = Store!Cardinality(Store!On(handler'[g].list, members'))
      OBVIOUS
    <3>1. handler'[g].list = handler[g].list /\ handler'[g].count = handler[g].count
          /\ handler[g].list \in lists \ {l} /\ handler[g].pc = "store"
      BY <2>3
    <3>2. StoreCounted(handler[g].list) = Store!Cardinality(Store!On(handler[g].list, members'))
      BY <3>1, <1>3 DEF StoreCounted
    <3> QED BY <2>2, <3>1, <3>2
  <2> QED BY <2>4, <2>5
<1>6. StoreUncrowded'
  <2> SUFFICES ASSUME NEW k \in lists \ crowded'
               PROVE  /\ \A g \in StoreHandlers :
                           handler'[g].pc # "idle" /\ handler'[g].list = k => handler'[g].alone
                      /\ \/ entryCount'[k] = StoreCounted(k)'
                         \/ \E g \in StoreHandlers :
                               handler'[g].list = k
                               /\ handler'[g].pc \in {"cleanup", "count", "store"}
    BY DEF StoreUncrowded, StoreCounted
  <2>1. CASE k = l /\ l \in crowded
    BY <2>1, <1>0
  <2>2. CASE k \notin crowded
    <3>1. \A g \in StoreHandlers :
             handler[g].pc # "idle" /\ handler[g].list = k => handler[g].alone
      BY <2>2 DEF StoreInductive, StoreUncrowded
    <3>2. \A g \in StoreHandlers :
             handler'[g].pc # "idle" /\ handler'[g].list = k => handler'[g].alone
      BY <3>1
    <3>3. CASE k = l
      BY <3>2, <3>3, <1>0
    <3>4. CASE k # l
      <4>1. entryCount'[k] = entryCount[k] /\ StoreCounted(k)' = StoreCounted(k)
        BY <3>4, <1>0, <1>3
      <4>2. \/ entryCount[k] = StoreCounted(k)
            \/ \E g \in StoreHandlers :
                  handler[g].list = k /\ handler[g].pc \in {"cleanup", "count", "store"}
        BY <2>2 DEF StoreInductive, StoreUncrowded
      <4> QED BY <3>2, <4>1, <4>2
    <3> QED BY <3>3, <3>4
  <2> QED BY <2>1, <2>2
<1> QED BY <1>1, <1>2, <1>4, <1>5, <1>6 DEF StoreInductive

LEMMA StoreReplaces ==
    ASSUME StoreInductive, Store!Replace
    PROVE  StoreInductive'
<1>0. /\ handler \in [StoreHandlers -> StoreTasks] /\ lists \subseteq Store!AllLists
      /\ row \in [StoreDomains -> Nat] /\ serial \in Nat
      /\ members \subseteq Store!AllLists \X StoreDomains
      /\ owed \subseteq Store!AllLists \X StoreDomains
  BY DEF StoreInductive, StoreTyped
<1>1. PICK l \in lists \cap UrlLists, ds \in (SUBSET StoreDomains) \ {{}} :
        LET m == {x \in members : x[1] # l} \cup ({l} \X ds)
            gone == Store!Dropped(Store!On(l, members) \ ds, m)
        IN
        /\ members' = m
        /\ LET new == {d \in ds : row[d] = 0}
           IN  /\ row' = [d \in StoreDomains |-> IF d \in gone THEN 0 ELSE
                                IF d \in new THEN serial + 1 ELSE row[d]]
               /\ serial' = IF new = {} THEN serial ELSE serial + 1
        /\ entryCount' = [entryCount EXCEPT ![l] = Store!Cardinality(ds)]
        /\ owed' = {x \in owed : x[1] # l} \cup ({l} \X ds)
        /\ UNCHANGED <<backend, lists, handler, lost, stray, crowded>>
  BY DEF Store!Replace
<1> DEFINE m == {x \in members : x[1] # l} \cup ({l} \X ds)
           gone == Store!Dropped(Store!On(l, members) \ ds, m)
<1>2. members' = m
  BY <1>1
<1>3. /\ \A d \in StoreDomains : <<l, d>> \in m <=> d \in ds
      /\ \A k \in Store!AllLists \ {l}, d \in StoreDomains : <<k, d>> \in m <=> <<k, d>> \in members
      /\ m \subseteq Store!AllLists \X StoreDomains
      /\ owed' \subseteq Store!AllLists \X StoreDomains
  BY <1>0, <1>1
<1>4. /\ gone \subseteq StoreDomains /\ \A d \in gone : d \notin ds
      /\ \A d \in StoreDomains : <<l, d>> \in members /\ d \notin ds =>
            d \in gone \/ d \in Store!Used(m)
  BY DEF Store!Dropped, Store!Unused, Store!On
<1>5. /\ row' = [d \in StoreDomains |-> IF d \in gone THEN 0 ELSE
                    IF d \in ds /\ row[d] = 0 THEN serial + 1 ELSE row[d]]
      /\ serial' \in {serial, serial + 1}
  BY <1>1
<1> HIDE DEF gone, m
<1>6. /\ serial' \in Nat /\ row' \in [StoreDomains -> Nat]
      /\ \A d \in StoreDomains :
            row'[d] = 0 \/ d \in ds \/ (row'[d] = row[d] /\ d \notin gone)
      /\ \A d \in StoreDomains : row[d] # 0 => row'[d] \in {0, row[d]}
  BY <1>0, <1>5
<1>7. entryCount' = [entryCount EXCEPT ![l] = StoreCounted(l)']
  <2>1. Store!On(l, m) = ds
    BY <1>3 DEF Store!On
  <2>2. StoreCounted(l)' = Store!Cardinality(ds)
    BY <2>1, <1>2 DEF StoreCounted
  <2> QED BY <2>2, <1>1
<1>8. Store!ListsKeepTheirDomains'
  BY <1>1 DEF StoreInductive, Store!ListsKeepTheirDomains
<1>9. \A g \in StoreHandlers : handler[g].pc = "store" => handler[g].list # l
  BY DEF StoreInductive, StorePlaces
<1>10. handler' = handler /\ crowded' = crowded /\ UNCHANGED <<backend, lists, stray>>
  BY <1>1
<1>11. DOMAIN handler' = StoreHandlers /\ handler' = [g \in StoreHandlers |-> handler'[g]]
  BY <1>0, <1>10
<1>12. \A g \in StoreHandlers :
          /\ handler'[g] \in StoreTasks
          /\ handler'[g].pc = handler[g].pc /\ handler'[g].list = handler[g].list
          /\ handler'[g].domain = handler[g].domain /\ handler'[g].ids = handler[g].ids
          /\ handler'[g].count = handler[g].count
          /\ handler'[g].alone => handler[g].alone
          /\ handler[g].pc = "store" /\ handler[g].list = l => ~handler'[g].alone
          /\ handler[g].alone /\ ~handler'[g].alone => l \in crowded' /\ handler[g].list = l
  BY <1>0, <1>9, <1>10
<1>13. /\ \A d \in StoreDomains : <<l, d>> \in members' <=> d \in ds
       /\ \A k \in Store!AllLists \ {l}, d \in StoreDomains :
             <<k, d>> \in members' <=> <<k, d>> \in members
       /\ members' \subseteq Store!AllLists \X StoreDomains
       /\ \A d \in StoreDomains : <<l, d>> \in members /\ d \notin ds =>
              d \in gone \/ d \in Store!Used(members')
  BY <1>2, <1>3, <1>4
<1>14. \A k \in lists \ crowded' : k = l \/ k \notin crowded
  BY <1>10
<1>15. ~(l \notin crowded' /\ l \in crowded)
  BY <1>10
<1> QED
  <2>1. ds \in SUBSET StoreDomains /\ gone \in SUBSET StoreDomains /\ l \in lists
    BY <1>4
  <2>2. StoreTables(l, ds, gone)
    BY <1>3, <1>6, <1>7, <1>8, <1>10, <1>13 DEF StoreTables
  <2>3. StoreDisturbs(l)
    BY <1>11, <1>12, <1>14, <1>15 DEF StoreDisturbs
  <2> QED BY <2>1, <2>2, <2>3, StoreTransaction

LEMMA StoreAdds ==
    ASSUME StoreInductive, Store!QueryAdd
    PROVE  StoreInductive'
<1>0. /\ handler \in [StoreHandlers -> StoreTasks] /\ lists \subseteq Store!AllLists
      /\ row \in [StoreDomains -> Nat] /\ serial \in Nat
      /\ members \subseteq Store!AllLists \X StoreDomains
      /\ owed \subseteq Store!AllLists \X StoreDomains
  BY DEF StoreInductive, StoreTyped
<1>1. PICK l \in lists \cap ManualLists, d \in StoreDomains :
        /\ Store!Insert({d})
        /\ members' = members \cup {<<l, d>>}
        /\ entryCount' = [entryCount EXCEPT
                             ![l] = Store!Cardinality(Store!On(l, members'))]
        /\ owed' = owed \cup {<<l, d>>} /\ lost' = lost \ {<<l, d>>}
        /\ crowded' = IF Store!Busy(l) = {} THEN crowded \ {l} ELSE crowded \cup {l}
        /\ handler' = Store!Disturbed(l)
        /\ UNCHANGED <<backend, lists, stray>>
  BY DEF Store!QueryAdd
<1> DEFINE ds == Store!On(l, members) \cup {d}
<1>2. /\ \A x \in StoreDomains : <<l, x>> \in members' <=> x \in ds
      /\ \A k \in Store!AllLists \ {l}, x \in StoreDomains :
            <<k, x>> \in members' <=> <<k, x>> \in members
      /\ members' \subseteq Store!AllLists \X StoreDomains
      /\ owed' \subseteq Store!AllLists \X StoreDomains
      /\ \A x \in StoreDomains : <<l, x>> \in members => x \in ds
      /\ ds \in SUBSET StoreDomains
  BY <1>0, <1>1 DEF Store!On
<1>3. /\ serial' \in Nat /\ row' \in [StoreDomains -> Nat]
      /\ \A x \in StoreDomains : row'[x] = 0 \/ x \in ds \/ row'[x] = row[x]
      /\ \A x \in StoreDomains : row[x] # 0 => row'[x] \in {0, row[x]}
  BY <1>0, <1>1 DEF Store!Insert
<1>4. entryCount' = [entryCount EXCEPT ![l] = StoreCounted(l)']
  BY <1>1 DEF StoreCounted
<1>5. Store!ListsKeepTheirDomains'
  BY <1>1 DEF StoreInductive, Store!ListsKeepTheirDomains
<1>6. \A g \in StoreHandlers :
          g \in Store!Busy(l) <=> handler[g].pc # "idle" /\ handler[g].list = l
  BY DEF Store!Busy, Store!Working
<1>7. /\ DOMAIN handler' = StoreHandlers /\ handler' = [g \in StoreHandlers |-> handler'[g]]
      /\ \A g \in StoreHandlers :
            handler'[g] = IF g \in Store!Busy(l) THEN [handler[g] EXCEPT !.alone = FALSE]
                          ELSE handler[g]
  BY <1>1 DEF Store!Disturbed
<1>8. \A g \in StoreHandlers :
          /\ handler'[g] \in StoreTasks
          /\ handler'[g].pc = handler[g].pc /\ handler'[g].list = handler[g].list
          /\ handler'[g].domain = handler[g].domain /\ handler'[g].ids = handler[g].ids
          /\ handler'[g].count = handler[g].count
          /\ handler'[g].alone <=> handler[g].alone /\ g \notin Store!Busy(l)
  <2> TAKE g \in StoreHandlers
  <2>1. handler[g] \in StoreTasks
    BY <1>0
  <2>2. CASE g \in Store!Busy(l)
    <3>1. handler'[g] = [handler[g] EXCEPT !.alone = FALSE]
      BY <2>2, <1>7
    <3> QED BY <2>1, <2>2, <3>1 DEF StoreTasks
  <2>3. CASE g \notin Store!Busy(l)
    <3>1. handler'[g] = handler[g]
      BY <2>3, <1>7
    <3> QED BY <2>1, <2>3, <3>1
  <2> QED BY <2>2, <2>3
<1>9. Store!Busy(l) # {} => l \in crowded'
  BY <1>1
<1>10. \A g \in StoreHandlers :
          /\ handler'[g] \in StoreTasks
          /\ handler'[g].pc = handler[g].pc /\ handler'[g].list = handler[g].list
          /\ handler'[g].domain = handler[g].domain /\ handler'[g].ids = handler[g].ids
          /\ handler'[g].count = handler[g].count
          /\ handler'[g].alone => handler[g].alone
          /\ handler[g].pc = "store" /\ handler[g].list = l => ~handler'[g].alone
          /\ handler[g].alone /\ ~handler'[g].alone => l \in crowded' /\ handler[g].list = l
  BY <1>6, <1>8, <1>9
<1>11. \A k \in lists \ crowded' : k = l \/ k \notin crowded
  BY <1>1
<1>12. l \notin crowded' /\ l \in crowded =>
          \A g \in StoreHandlers : handler[g].pc # "idle" => handler[g].list # l
  BY <1>6, <1>9
<1> HIDE DEF ds
<1> QED
  <2>1. UNCHANGED <<backend, lists, stray>> /\ l \in lists
    BY <1>1
  <2>2. \A x \in StoreDomains :
            row'[x] = 0 \/ x \in ds \/ (row'[x] = row[x] /\ x \notin {})
    BY <1>3
  <2>3. \A x \in StoreDomains : <<l, x>> \in members /\ x \notin ds =>
            x \in {} \/ x \in Store!Used(members')
    BY <1>2
  <2>4. {} \in SUBSET StoreDomains
    OBVIOUS
  <2>5. StoreTables(l, ds, {})
    BY <2>1, <2>2, <2>3, <1>2, <1>3, <1>4, <1>5 DEF StoreTables
  <2>6. StoreDisturbs(l)
    BY <1>7, <1>10, <1>11, <1>12 DEF StoreDisturbs
  <2> QED BY <2>1, <2>4, <2>5, <2>6, <1>2, StoreTransaction

LEMMA StoreNextInductive ==
    StoreInductive /\ [Store!Next]_(Store!storeVars) => StoreInductive'
<1> SUFFICES ASSUME StoreInductive, [Store!Next]_(Store!storeVars) PROVE StoreInductive'
  OBVIOUS
<1>1. CASE Store!Start
  BY <1>1, StoreStarts
<1>2. CASE Store!Replace
  BY <1>2, StoreReplaces
<1>3. CASE Store!QueryAdd
  BY <1>3, StoreAdds
<1>4. ASSUME NEW h \in StoreHandlers,
             \/ Store!LookUp(h) \/ Store!InsertDomain(h) \/ Store!SelectRow(h)
             \/ Store!Attach(h) \/ Store!SelectMember(h) \/ Store!Detach(h)
             \/ Store!SelectIds(h) \/ Store!DropList(h) \/ Store!CleanUp(h)
             \/ Store!Count(h) \/ Store!StoreCount(h)
      PROVE  StoreInductive'
  BY <1>4, StoreReads, StoreInserts, StoreSelects, StoreAttaches, StoreDetaches, StoreDrops,
     StoreCleansUp, StoreStoresCount
<1>5. CASE UNCHANGED Store!storeVars
  <2> USE <1>5 DEF Store!storeVars, Store!tables, Store!history, StoreInductive
  <2>1. StoreTyped' /\ StorePlaces' /\ Store!ListsKeepTheirDomains'
    BY DEF StoreTyped, StorePlaces, Store!ListsKeepTheirDomains
  <2>2. StoreUnusedAreSeen'
    BY DEF StoreUnusedAreSeen, Store!Used
  <2>3. StoreAloneCounts'
    BY DEF StoreAloneCounts, StoreCounted, Store!On
  <2>4. StoreUncrowded'
    BY DEF StoreUncrowded, StoreCounted, Store!On
  <2> QED BY <2>1, <2>2, <2>3, <2>4
<1> QED BY <1>1, <1>2, <1>3, <1>4, <1>5 DEF Store!Next

LEMMA StoreInductiveIsEnough ==
    StoreInductive =>
        Store!ListsKeepTheirDomains /\ Store!NoUnusedDomains /\ Store!CountsAgree
<1> SUFFICES ASSUME StoreInductive
             PROVE  Store!NoUnusedDomains /\ Store!CountsAgree
  BY DEF StoreInductive
<1>1. Store!NoUnusedDomains
  BY DEF StoreInductive, StoreUnusedAreSeen, Store!NoUnusedDomains, Store!Quiet, Store!Working
<1>2. Store!CountsAgree
  BY DEF StoreInductive, StoreUncrowded, StoreCounted, Store!CountsAgree, Store!Quiet,
     Store!Working
<1> QED BY <1>1, <1>2

-----------------------------------------------------------------------------
(* The upgrade of a database (DatabaseUpgrade).                            *)

\* The stages at which what an earlier one does is done; those of both engines.
UpgradeSchemaAdded == {"rebuild", "flagColumn", "networks", "logColumns", "stamps",
                       "stampsDone", "names", "running"}
UpgradeListsAdded == {"scopeColumns"} \cup UpgradeSchemaAdded
UpgradeCounted == {"listColumns"} \cup UpgradeListsAdded
UpgradeViewed == {"counts"} \cup UpgradeCounted
UpgradeRebuilt == UpgradeSchemaAdded \ {"rebuild"}
UpgradeFlagged == UpgradeRebuilt \ {"flagColumn"}
UpgradeDerived == UpgradeFlagged \ {"networks"}
UpgradeLogAdded == UpgradeDerived \ {"logColumns"}
UpgradeStamped == UpgradeLogAdded \ {"stamps"}
UpgradeOfMySQL == {"stopped", "view", "listColumns", "scopeColumns", "flagColumn",
                   "logColumns", "running"}

UpgradeTyped ==
    /\ engine \in {"sqlite", "mysql"}
    /\ stage \in {"stopped", "move", "view"} \cup UpgradeViewed
    /\ engine = "mysql" => stage \in UpgradeOfMySQL
    /\ blockEntries \in {"table", "view", "none"}
    /\ DOMAIN counts = OldLists /\ columns \subseteq Upgrade!Columns
    /\ hostnameKind \in BOOLEAN /\ oldStamps \in BOOLEAN
    /\ target \in [OldScopes -> {0, 1}]
    /\ networks \in [OldScopes -> SUBSET {1, 2}]
    /\ identity \in Upgrade!Names /\ logName \in Upgrade!Names
    /\ kept \in [entries : SUBSET Upgrade!Entries, flagged : SUBSET OldScopes,
                networks : [OldScopes -> SUBSET {1, 2}], names : Upgrade!Names]

\* What block_entries was a table for has not been moved, which only SQLite does.
UpgradeEntries ==
    /\ Upgrade!StoredEntries = kept.entries
    /\ blockEntries = "table" =>
          attached = {} /\ engine = "sqlite" /\ stage \in {"stopped", "move"}
    /\ stage \in UpgradeViewed => blockEntries = "view"
    /\ engine = "mysql" \/ stage \in UpgradeCounted =>
          \A l \in OldLists : counts[l] = Upgrade!Cardinality(Upgrade!OnList(l))

UpgradeColumns ==
    /\ stage \in UpgradeListsAdded =>
          {"lists.schedule", "lists.source", "lists.type"} \subseteq columns
    /\ stage \in UpgradeSchemaAdded => "scopes.schedule" \in columns
    /\ stage \in UpgradeFlagged => "scopes.whitelisted" \in columns
    /\ stage \in UpgradeLogAdded => {"log.client_name", "log.response_time"} \subseteq columns
    /\ engine = "mysql" \/ stage \in UpgradeRebuilt => hostnameKind
    /\ engine = "mysql" \/ "stamps" \in markers \/ stage \in UpgradeStamped => ~oldStamps

\* A table that is still to be rebuilt has no flags; networks that are still to be
\* derived are those of the target.
UpgradeTargets ==
    /\ flagged = kept.flagged /\ (~hostnameKind => flagged = {})
    /\ \A s \in OldScopes :
          /\ kept.networks[s] = {} => target[s] = 0
          /\ networks[s] # kept.networks[s] =>
                networks[s] = {} /\ kept.networks[s] = {target[s]} /\ target[s] # 0
    /\ engine = "mysql" \/ stage \in UpgradeDerived => networks = kept.networks

\* Names are those of the log until they have all been taken from there.
UpgradeNames ==
    /\ engine = "mysql" \/ "names" \in markers => identity = kept.names
    /\ engine = "sqlite" /\ "names" \notin markers =>
          kept.names = logName /\ \A c \in OldClients : identity[c] \in {"none", logName[c]}
    /\ engine = "sqlite" /\ stage = "running" => "names" \in markers

UpgradeInductive ==
    UpgradeTyped /\ UpgradeEntries /\ UpgradeColumns /\ UpgradeTargets /\ UpgradeNames

USE DEF UpgradeSchemaAdded, UpgradeListsAdded, UpgradeCounted, UpgradeViewed,
    UpgradeRebuilt, UpgradeFlagged, UpgradeDerived, UpgradeLogAdded, UpgradeStamped,
    UpgradeOfMySQL

LEMMA UpgradeInitInductive ==
    ASSUME IF part = "upgrade" THEN Upgrade!Init
                               ELSE Upgrade!Setup("mysql", 0, {}, {}, FALSE)
    PROVE  UpgradeInductive
<1>1. PICK e \in {"sqlite", "mysql"}, r \in {0, 1, 2, 3}, entries \in SUBSET Upgrade!Entries,
           scopes \in SUBSET OldScopes, named \in BOOLEAN :
              /\ Upgrade!Setup(e, r, entries, scopes, named)
              /\ e = "mysql" => r \in {0, 3}
              /\ r = 0 => entries = {} /\ scopes = {}
  <2>1. CASE Upgrade!Setup("mysql", 0, {}, {}, FALSE)
    BY <2>1
  <2>2. CASE Upgrade!Init
    <3>1. \/ \E r \in {1, 2}, entries \in SUBSET Upgrade!Entries, scopes \in SUBSET OldScopes,
                named \in BOOLEAN : Upgrade!Setup("sqlite", r, entries, scopes, named)
          \/ \E e \in {"sqlite", "mysql"} :
                Upgrade!Setup(e, 3, Upgrade!Entries, OldScopes, TRUE)
          \/ \E e \in {"sqlite", "mysql"} : Upgrade!Setup(e, 0, {}, {}, FALSE)
      BY <2>2 DEF Upgrade!Init
    <3>2. CASE \E e \in {"sqlite", "mysql"} :
                  Upgrade!Setup(e, 3, Upgrade!Entries, OldScopes, TRUE)
      <4>2. PICK e \in {"sqlite", "mysql"} :
                  Upgrade!Setup(e, 3, Upgrade!Entries, OldScopes, TRUE)
        BY <3>2
      <4>3. 3 # 0 /\ 3 \in {0, 3}
        OBVIOUS
      <4> WITNESS e \in {"sqlite", "mysql"}, 3 \in {0, 1, 2, 3},
                  Upgrade!Entries \in SUBSET Upgrade!Entries,
                  OldScopes \in SUBSET OldScopes, TRUE \in BOOLEAN
      <4> QED BY <4>2, <4>3, Zenon
    <3>3. CASE \E e \in {"sqlite", "mysql"} : Upgrade!Setup(e, 0, {}, {}, FALSE)
      BY <3>3
    <3>4. CASE \E r \in {1, 2}, entries \in SUBSET Upgrade!Entries,
                  scopes \in SUBSET OldScopes, named \in BOOLEAN :
                  Upgrade!Setup("sqlite", r, entries, scopes, named)
      BY <3>4
    <3> QED BY <3>1, <3>2, <3>3, <3>4
  <2> QED BY <2>1, <2>2
<1> USE DEF Upgrade!Setup
<1>2. /\ target \in [OldScopes -> {0, 1}]
      /\ \A s \in OldScopes : target[s] = IF s \in scopes THEN 1 ELSE 0
  BY <1>1
<1>3. /\ networks \in [OldScopes -> SUBSET {1, 2}]
      /\ \A s \in OldScopes : networks[s] = IF r = 3 THEN {target[s]} \ {0} ELSE {}
  BY <1>1, <1>2
<1>4. identity \in Upgrade!Names /\ logName \in Upgrade!Names
      /\ \A c \in OldClients : identity[c] = "none"
  BY <1>1 DEF Upgrade!Names, Upgrade!NoName
<1> DEFINE names == IF e = "mysql" THEN identity ELSE logName
           derived == [s \in OldScopes |-> {target[s]} \ {0}]
<1>5. /\ kept = [entries |-> entries, flagged |-> {}, networks |-> derived, names |-> names]
      /\ derived \in [OldScopes -> SUBSET {1, 2}] /\ names \in Upgrade!Names
      /\ kept.entries = entries /\ kept.flagged = {} /\ kept.networks = derived
      /\ kept.names = names
  BY <1>1, <1>2, <1>4
<1>6. \A s \in OldScopes : derived[s] = {target[s]} \ {0}
  OBVIOUS
<1>7. UpgradeTyped
  <2>1. columns \subseteq Upgrade!Columns
    BY <1>1 DEF Upgrade!Columns
  <2>2. kept \in [entries : SUBSET Upgrade!Entries, flagged : SUBSET OldScopes,
                  networks : [OldScopes -> SUBSET {1, 2}], names : Upgrade!Names]
    <3> HIDE DEF derived, names
    <3> QED BY <1>5
  <2> QED BY <1>1, <1>2, <1>3, <1>4, <2>1, <2>2 DEF UpgradeTyped, UpgradeOfMySQL
<1> HIDE DEF derived, names
<1>8. /\ stage = "stopped" /\ engine = e
      /\ hostnameKind <=> r \notin {1, 2}
      /\ oldStamps <=> r = 1
      /\ markers = {} /\ flagged = {}
  BY <1>1
<1>9. UpgradeEntries
  <2>1. /\ blockEntries = IF r = 1 THEN "table" ELSE IF r = 0 THEN "none" ELSE "view"
        /\ legacyEntries = IF r = 1 THEN entries ELSE {}
        /\ attached = IF r = 1 THEN {} ELSE entries
    BY <1>1
  <2>2. Upgrade!StoredEntries = kept.entries
    BY <2>1, <1>5 DEF Upgrade!StoredEntries
  <2>3. blockEntries = "table" => attached = {} /\ engine = "sqlite"
    BY <2>1, <1>1, <1>8
  <2>4. engine = "mysql" =>
            \A l \in OldLists : counts[l] = Upgrade!Cardinality(Upgrade!OnList(l))
    <3> SUFFICES ASSUME engine = "mysql", NEW l \in OldLists
                 PROVE  counts[l] = Upgrade!Cardinality(Upgrade!OnList(l))
      OBVIOUS
    <3>1. attached = entries
      BY <2>1, <1>1, <1>8
    <3>2. counts[l] = Upgrade!Cardinality({m \in entries : m[1] = l})
      BY <1>1, <1>8
    <3> QED BY <3>1, <3>2 DEF Upgrade!OnList
  <2> QED BY <2>2, <2>3, <2>4, <1>8 DEF UpgradeEntries
<1>10. UpgradeColumns
  BY <1>1, <1>8 DEF UpgradeColumns
<1>11. UpgradeTargets
  <2>1. \A s \in OldScopes : kept.networks[s] = {} => target[s] = 0
    BY <1>2, <1>5, <1>6
  <2>2. \A s \in OldScopes : networks[s] # kept.networks[s] =>
            networks[s] = {} /\ kept.networks[s] = {target[s]} /\ target[s] # 0
    BY <1>2, <1>3, <1>5, <1>6
  <2>3. e = "mysql" => networks = kept.networks
    <3> SUFFICES ASSUME e = "mysql" PROVE \A s \in OldScopes : networks[s] = derived[s]
      BY <1>3, <1>5
    <3> QED BY <1>1, <1>2, <1>3, <1>6
  <2> QED BY <1>1, <1>5, <2>1, <2>2, <2>3 DEF UpgradeTargets
<1>12. UpgradeNames
  BY <1>1, <1>4, <1>5 DEF UpgradeNames, names
<1> QED BY <1>7, <1>9, <1>10, <1>11, <1>12 DEF UpgradeInductive

LEMMA UpgradeCreates ==
    ASSUME UpgradeInductive, Upgrade!CreateTables
    PROVE  UpgradeInductive'
<1> USE DEF UpgradeInductive, Upgrade!CreateTables, Upgrade!At, Upgrade!Goto,
     Upgrade!Data, Upgrade!Steady
<1>1. UpgradeTyped'
  BY DEF UpgradeTyped, Upgrade!Columns, Upgrade!Names, Upgrade!NoName
<1>2. UpgradeEntries'
  BY DEF UpgradeTyped, UpgradeEntries, Upgrade!StoredEntries, Upgrade!OnList
<1>3. UpgradeColumns'
  BY DEF UpgradeTyped, UpgradeColumns, Upgrade!Columns
<1>4. UpgradeTargets'
  BY DEF UpgradeTyped, UpgradeTargets, UpgradeColumns
<1>5. UpgradeNames'
  BY DEF UpgradeTyped, UpgradeNames, Upgrade!Names, Upgrade!NoName
<1> QED BY <1>1, <1>2, <1>3, <1>4, <1>5

LEMMA UpgradeMoves ==
    ASSUME UpgradeInductive, Upgrade!MoveEntries
    PROVE  UpgradeInductive'
<1> USE DEF UpgradeInductive, Upgrade!MoveEntries, Upgrade!MovedEntries, Upgrade!At,
     Upgrade!Goto, Upgrade!Data, Upgrade!Steady
<1>1. UpgradeTyped'
  BY DEF UpgradeTyped, Upgrade!Columns, Upgrade!Names, Upgrade!NoName
<1>2. UpgradeEntries'
  BY DEF UpgradeTyped, UpgradeEntries, Upgrade!StoredEntries, Upgrade!OnList
<1>3. UpgradeColumns'
  BY DEF UpgradeTyped, UpgradeColumns, Upgrade!Columns
<1>4. UpgradeTargets'
  BY DEF UpgradeTyped, UpgradeTargets, UpgradeColumns
<1>5. UpgradeNames'
  BY DEF UpgradeTyped, UpgradeNames, Upgrade!Names, Upgrade!NoName
<1> QED BY <1>1, <1>2, <1>3, <1>4, <1>5

LEMMA UpgradeViews ==
    ASSUME UpgradeInductive, Upgrade!CreateView
    PROVE  UpgradeInductive'
<1> USE DEF UpgradeInductive, Upgrade!CreateView, Upgrade!At, Upgrade!Goto,
     Upgrade!Data, Upgrade!Steady
<1>1. UpgradeTyped'
  BY DEF UpgradeTyped, Upgrade!Columns, Upgrade!Names, Upgrade!NoName
<1>2. UpgradeEntries'
  BY DEF UpgradeTyped, UpgradeEntries, Upgrade!StoredEntries, Upgrade!OnList
<1>3. UpgradeColumns'
  BY DEF UpgradeTyped, UpgradeColumns, Upgrade!Columns
<1>4. UpgradeTargets'
  BY DEF UpgradeTyped, UpgradeTargets, UpgradeColumns
<1>5. UpgradeNames'
  BY DEF UpgradeTyped, UpgradeNames, Upgrade!Names, Upgrade!NoName
<1> QED BY <1>1, <1>2, <1>3, <1>4, <1>5

LEMMA UpgradeCounts ==
    ASSUME UpgradeInductive, Upgrade!SyncCounts
    PROVE  UpgradeInductive'
<1> USE DEF UpgradeInductive, Upgrade!SyncCounts, Upgrade!At, Upgrade!Goto,
     Upgrade!Data, Upgrade!Steady
<1>1. UpgradeTyped'
  BY DEF UpgradeTyped, Upgrade!Columns, Upgrade!Names, Upgrade!NoName
<1>2. UpgradeEntries'
  BY DEF UpgradeTyped, UpgradeEntries, Upgrade!StoredEntries, Upgrade!OnList
<1>3. UpgradeColumns'
  BY DEF UpgradeTyped, UpgradeColumns, Upgrade!Columns
<1>4. UpgradeTargets'
  BY DEF UpgradeTyped, UpgradeTargets, UpgradeColumns
<1>5. UpgradeNames'
  BY DEF UpgradeTyped, UpgradeNames, Upgrade!Names, Upgrade!NoName
<1> QED BY <1>1, <1>2, <1>3, <1>4, <1>5

LEMMA UpgradeRebuilds ==
    ASSUME UpgradeInductive, Upgrade!RebuildScopes
    PROVE  UpgradeInductive'
<1> USE DEF UpgradeInductive, Upgrade!RebuildScopes, Upgrade!Outdated, Upgrade!At,
     Upgrade!Goto, Upgrade!Data, Upgrade!Steady
<1>1. UpgradeTyped'
  BY DEF UpgradeTyped, UpgradeColumns, Upgrade!Columns, Upgrade!Names, Upgrade!NoName
<1>2. UpgradeEntries'
  BY DEF UpgradeTyped, UpgradeEntries, Upgrade!StoredEntries, Upgrade!OnList
<1>3. UpgradeColumns'
  BY DEF UpgradeTyped, UpgradeColumns, Upgrade!Columns
<1>4. UpgradeTargets'
  BY DEF UpgradeTyped, UpgradeTargets, UpgradeColumns
<1>5. UpgradeNames'
  BY DEF UpgradeTyped, UpgradeNames, Upgrade!Names, Upgrade!NoName
<1> QED BY <1>1, <1>2, <1>3, <1>4, <1>5

LEMMA UpgradeDerives ==
    ASSUME UpgradeInductive, Upgrade!BackfillNetworks
    PROVE  UpgradeInductive'
<1> USE DEF UpgradeInductive, Upgrade!BackfillNetworks, Upgrade!WithoutNetworks,
     Upgrade!At, Upgrade!Goto, Upgrade!Data, Upgrade!Steady
<1>1. UpgradeTyped'
  BY DEF UpgradeTyped, Upgrade!Columns, Upgrade!Names, Upgrade!NoName
<1>2. UpgradeEntries'
  BY DEF UpgradeTyped, UpgradeEntries, Upgrade!StoredEntries, Upgrade!OnList
<1>3. UpgradeColumns'
  BY DEF UpgradeTyped, UpgradeColumns, Upgrade!Columns
<1>4. UpgradeTargets'
  <2>1. \A s \in OldScopes : target[s] \in {0, 1}
    BY DEF UpgradeTyped
  <2>2. CASE Upgrade!WithoutNetworks = {}
    <3>1. networks' = networks
      BY <2>2
    <3>2. \A s \in OldScopes : networks[s] = kept.networks[s]
      BY <2>2 DEF UpgradeTargets
    <3>3. networks = kept.networks
      BY <3>2 DEF UpgradeTyped
    <3> QED BY <3>1, <3>3 DEF UpgradeTargets
  <2>3. CASE Upgrade!WithoutNetworks # {}
    <3>1. PICK s \in Upgrade!WithoutNetworks : networks' = [networks EXCEPT ![s] = {target[s]}]
      BY <2>3
    <3>2. s \in OldScopes /\ target[s] # 0 /\ networks[s] = {}
      OBVIOUS
    <3>3. kept.networks[s] = {target[s]}
      BY <3>2 DEF UpgradeTargets
    <3>4. \A x \in OldScopes : networks'[x] = IF x = s THEN {target[s]} ELSE networks[x]
      BY <3>1 DEF UpgradeTyped
    <3>5. \A x \in OldScopes : networks'[x] # kept.networks[x] =>
              networks'[x] = {} /\ kept.networks[x] = {target[x]} /\ target[x] # 0
      BY <3>3, <3>4 DEF UpgradeTargets
    <3>6. stage' = "networks" /\ engine = "sqlite" /\ stage' \notin UpgradeDerived
      BY <2>3 DEF UpgradeTyped
    <3> QED BY <3>5, <3>6 DEF UpgradeTargets
  <2> QED BY <2>2, <2>3
<1>5. UpgradeNames'
  BY DEF UpgradeTyped, UpgradeNames, Upgrade!Names, Upgrade!NoName
<1> QED BY <1>1, <1>2, <1>3, <1>4, <1>5

LEMMA UpgradeNormalizes ==
    ASSUME UpgradeInductive, Upgrade!NormalizeStamps
    PROVE  UpgradeInductive'
<1> USE DEF UpgradeInductive, Upgrade!NormalizeStamps, Upgrade!At, Upgrade!Goto,
     Upgrade!Data, Upgrade!Steady
<1>1. UpgradeTyped'
  BY DEF UpgradeTyped, Upgrade!Columns, Upgrade!Names, Upgrade!NoName
<1>2. UpgradeEntries'
  BY DEF UpgradeTyped, UpgradeEntries, Upgrade!StoredEntries, Upgrade!OnList
<1>3. UpgradeColumns'
  BY DEF UpgradeTyped, UpgradeColumns, Upgrade!Columns
<1>4. UpgradeTargets'
  BY DEF UpgradeTyped, UpgradeTargets, UpgradeColumns
<1>5. UpgradeNames'
  BY DEF UpgradeTyped, UpgradeNames, Upgrade!Names, Upgrade!NoName
<1> QED BY <1>1, <1>2, <1>3, <1>4, <1>5

LEMMA UpgradeMarks ==
    ASSUME UpgradeInductive, Upgrade!MarkStamps
    PROVE  UpgradeInductive'
<1> USE DEF UpgradeInductive, Upgrade!MarkStamps, Upgrade!At, Upgrade!Goto,
     Upgrade!Data, Upgrade!Steady
<1>1. UpgradeTyped'
  BY DEF UpgradeTyped, Upgrade!Columns, Upgrade!Names, Upgrade!NoName
<1>2. UpgradeEntries'
  BY DEF UpgradeTyped, UpgradeEntries, Upgrade!StoredEntries, Upgrade!OnList
<1>3. UpgradeColumns'
  BY DEF UpgradeTyped, UpgradeColumns, Upgrade!Columns
<1>4. UpgradeTargets'
  BY DEF UpgradeTyped, UpgradeTargets, UpgradeColumns
<1>5. UpgradeNames'
  BY DEF UpgradeTyped, UpgradeNames, Upgrade!Names, Upgrade!NoName
<1> QED BY <1>1, <1>2, <1>3, <1>4, <1>5

LEMMA UpgradeLearns ==
    ASSUME UpgradeInductive, Upgrade!BackfillNames
    PROVE  UpgradeInductive'
<1> USE DEF UpgradeInductive, Upgrade!BackfillNames, Upgrade!Backfilled,
     Upgrade!Unlearned, Upgrade!At, Upgrade!Goto, Upgrade!Data, Upgrade!Steady
<1>1. UpgradeTyped'
  BY DEF UpgradeTyped, Upgrade!Columns, Upgrade!Names, Upgrade!NoName
<1>2. UpgradeEntries'
  BY DEF UpgradeTyped, UpgradeEntries, Upgrade!StoredEntries, Upgrade!OnList
<1>3. UpgradeColumns'
  BY DEF UpgradeTyped, UpgradeColumns, Upgrade!Columns
<1>4. UpgradeTargets'
  BY DEF UpgradeTyped, UpgradeTargets, UpgradeColumns
<1>5. UpgradeNames'
  BY DEF UpgradeTyped, UpgradeNames, Upgrade!Names, Upgrade!NoName
<1> QED BY <1>1, <1>2, <1>3, <1>4, <1>5

LEMMA UpgradeEditsEntries ==
    ASSUME UpgradeInductive, Upgrade!EditEntries
    PROVE  UpgradeInductive'
<1> USE DEF UpgradeInductive, Upgrade!EditEntries, Upgrade!Change, Upgrade!At,
     Upgrade!Goto, Upgrade!Data, Upgrade!Steady
<1>0. PICK m \in Upgrade!Entries :
          /\ attached' = IF m \in attached THEN attached \ {m} ELSE attached \cup {m}
          /\ counts' = [counts EXCEPT ![m[1]] =
                           Upgrade!Cardinality({x \in attached' : x[1] = m[1]})]
  OBVIOUS
<1>a. /\ stage = "running" /\ blockEntries = "view" /\ kept.entries = attached
      /\ attached \subseteq Upgrade!Entries
  BY DEF UpgradeEntries, UpgradeTyped, Upgrade!StoredEntries
<1>b. /\ attached' \subseteq Upgrade!Entries /\ kept' = [kept EXCEPT !.entries = attached']
      /\ kept'.entries = attached' /\ kept'.flagged = kept.flagged
      /\ kept'.networks = kept.networks /\ kept'.names = kept.names
      /\ kept' \in [entries : SUBSET Upgrade!Entries, flagged : SUBSET OldScopes,
                     networks : [OldScopes -> SUBSET {1, 2}], names : Upgrade!Names]
  BY <1>0, <1>a DEF UpgradeTyped
<1>1. UpgradeTyped'
  BY <1>0, <1>a, <1>b DEF UpgradeTyped, Upgrade!Names
<1>2. UpgradeEntries'
  <2>1. \A l \in OldLists : counts[l] = Upgrade!Cardinality(Upgrade!OnList(l))
    BY <1>a DEF UpgradeEntries
  <2>2. DOMAIN counts = OldLists
    BY DEF UpgradeTyped
  <2>3. \A l \in OldLists : counts'[l] = Upgrade!Cardinality(Upgrade!OnList(l))'
    <3> SUFFICES ASSUME NEW l \in OldLists
                 PROVE  counts'[l] = Upgrade!Cardinality({x \in attached' : x[1] = l})
      BY DEF Upgrade!OnList
    <3>1. CASE l = m[1]
      BY <3>1, <1>0, <2>2
    <3>2. CASE l # m[1]
      <4>1. {x \in attached' : x[1] = l} = {x \in attached : x[1] = l}
        BY <3>2, <1>0
      <4> QED BY <3>2, <4>1, <1>0, <2>1, <2>2 DEF Upgrade!OnList
    <3> QED BY <3>1, <3>2
  <2> QED BY <1>a, <1>b, <2>3 DEF UpgradeEntries, Upgrade!StoredEntries
<1>3. UpgradeColumns'
  BY DEF UpgradeTyped, UpgradeColumns, Upgrade!Columns
<1>4. UpgradeTargets'
  BY DEF UpgradeTyped, UpgradeTargets, UpgradeColumns
<1>5. UpgradeNames'
  BY DEF UpgradeTyped, UpgradeNames, Upgrade!Names, Upgrade!NoName
<1> QED BY <1>1, <1>2, <1>3, <1>4, <1>5

LEMMA UpgradeEditsTargets ==
    ASSUME UpgradeInductive, Upgrade!EditScope
    PROVE  UpgradeInductive'
<1> USE DEF UpgradeInductive, Upgrade!EditScope, Upgrade!Change, Upgrade!At,
     Upgrade!Goto, Upgrade!Data, Upgrade!Steady
<1>0. PICK s \in OldScopes, nets \in {{1, 2}, {2}} :
          /\ networks' = [networks EXCEPT ![s] = nets]
          /\ flagged' \in {flagged \cup {s}, flagged \ {s}}
  OBVIOUS
<1>a. flagged' \subseteq OldScopes /\ networks' \in [OldScopes -> SUBSET {1, 2}]
  BY <1>0 DEF UpgradeTyped, UpgradeTargets
<1>b. /\ kept' = [kept EXCEPT !.networks = networks', !.flagged = flagged']
      /\ kept'.entries = kept.entries /\ kept'.flagged = flagged'
      /\ kept'.networks = networks' /\ kept'.names = kept.names
      /\ kept' \in [entries : SUBSET Upgrade!Entries, flagged : SUBSET OldScopes,
                     networks : [OldScopes -> SUBSET {1, 2}], names : Upgrade!Names]
  BY <1>a DEF UpgradeTyped
<1>1. UpgradeTyped'
  BY <1>a, <1>b DEF UpgradeTyped, Upgrade!Names
<1>2. UpgradeEntries'
  BY DEF UpgradeTyped, UpgradeEntries, Upgrade!StoredEntries, Upgrade!OnList
<1>3. UpgradeColumns'
  BY DEF UpgradeTyped, UpgradeColumns, Upgrade!Columns
<1>4. UpgradeTargets'
  BY DEF UpgradeTyped, UpgradeTargets, UpgradeColumns
<1>5. UpgradeNames'
  BY DEF UpgradeTyped, UpgradeNames, Upgrade!Names, Upgrade!NoName
<1> QED BY <1>1, <1>2, <1>3, <1>4, <1>5

LEMMA UpgradeLearnsNew ==
    ASSUME UpgradeInductive, Upgrade!LearnOrFlush
    PROVE  UpgradeInductive'
<1> USE DEF UpgradeInductive, Upgrade!LearnOrFlush, Upgrade!Change, Upgrade!At,
     Upgrade!Goto, Upgrade!Data, Upgrade!Steady
<1>1. UpgradeTyped'
  BY DEF UpgradeTyped, Upgrade!Columns, Upgrade!Names, Upgrade!NoName
<1>2. UpgradeEntries'
  BY DEF UpgradeTyped, UpgradeEntries, Upgrade!StoredEntries, Upgrade!OnList
<1>3. UpgradeColumns'
  BY DEF UpgradeTyped, UpgradeColumns, Upgrade!Columns
<1>4. UpgradeTargets'
  BY DEF UpgradeTyped, UpgradeTargets, UpgradeColumns
<1>5. UpgradeNames'
  BY DEF UpgradeTyped, UpgradeNames, Upgrade!Names, Upgrade!NoName
<1> QED BY <1>1, <1>2, <1>3, <1>4, <1>5

LEMMA UpgradeEnds ==
    ASSUME UpgradeInductive, Upgrade!Crash
    PROVE  UpgradeInductive'
<1> USE DEF UpgradeInductive, Upgrade!Crash, Upgrade!At, Upgrade!Goto, Upgrade!Data,
     Upgrade!Steady
<1>1. UpgradeTyped'
  BY DEF UpgradeTyped, Upgrade!Columns, Upgrade!Names, Upgrade!NoName
<1>2. UpgradeEntries'
  BY DEF UpgradeTyped, UpgradeEntries, Upgrade!StoredEntries, Upgrade!OnList
<1>3. UpgradeColumns'
  BY DEF UpgradeTyped, UpgradeColumns, Upgrade!Columns
<1>4. UpgradeTargets'
  BY DEF UpgradeTyped, UpgradeTargets, UpgradeColumns
<1>5. UpgradeNames'
  BY DEF UpgradeTyped, UpgradeNames, Upgrade!Names, Upgrade!NoName
<1> QED BY <1>1, <1>2, <1>3, <1>4, <1>5

LEMMA UpgradeAddsColumns ==
    ASSUME UpgradeInductive,
           \/ Upgrade!ListColumns \/ Upgrade!ScopeColumns
           \/ Upgrade!FlagColumn \/ Upgrade!LogColumns
    PROVE  UpgradeInductive'
<1> USE DEF UpgradeInductive, Upgrade!ListColumns, Upgrade!ScopeColumns,
     Upgrade!FlagColumn,
       Upgrade!LogColumns, Upgrade!AddColumns, Upgrade!At, Upgrade!Goto, Upgrade!Data,
       Upgrade!Steady
<1>1. UpgradeTyped'
  BY DEF UpgradeTyped, Upgrade!Columns, Upgrade!Names, Upgrade!NoName
<1>2. UpgradeEntries'
  BY DEF UpgradeTyped, UpgradeEntries, Upgrade!StoredEntries, Upgrade!OnList
<1>3. UpgradeColumns'
  BY DEF UpgradeTyped, UpgradeColumns, Upgrade!Columns
<1>4. UpgradeTargets'
  BY DEF UpgradeTyped, UpgradeTargets, UpgradeColumns
<1>5. UpgradeNames'
  BY DEF UpgradeTyped, UpgradeNames, Upgrade!Names, Upgrade!NoName
<1> QED BY <1>1, <1>2, <1>3, <1>4, <1>5

LEMMA UpgradeNextInductive ==
    UpgradeInductive /\ [Upgrade!Next]_(Upgrade!upgradeVars) => UpgradeInductive'
<1> SUFFICES ASSUME UpgradeInductive, [Upgrade!Next]_(Upgrade!upgradeVars)
             PROVE  UpgradeInductive'
  OBVIOUS
<1>1. CASE Upgrade!Initialize
  BY <1>1, UpgradeCreates, UpgradeMoves, UpgradeViews, UpgradeCounts,
     UpgradeAddsColumns, UpgradeRebuilds, UpgradeDerives, UpgradeNormalizes,
     UpgradeMarks, UpgradeLearns
     DEF Upgrade!Initialize
<1>2. CASE Upgrade!EditEntries
  BY <1>2, UpgradeEditsEntries
<1>3. CASE Upgrade!EditScope
  BY <1>3, UpgradeEditsTargets
<1>4. CASE Upgrade!LearnOrFlush
  BY <1>4, UpgradeLearnsNew
<1>5. CASE Upgrade!Crash
  BY <1>5, UpgradeEnds
<1>6. CASE UNCHANGED Upgrade!upgradeVars
  <2> USE <1>6 DEF Upgrade!upgradeVars, UpgradeInductive
  <2>1. UpgradeTyped' /\ UpgradeColumns' /\ UpgradeTargets' /\ UpgradeNames'
    BY DEF UpgradeTyped, UpgradeColumns, UpgradeTargets, UpgradeNames
  <2>2. UpgradeEntries'
    BY DEF UpgradeEntries, Upgrade!StoredEntries, Upgrade!OnList
  <2> QED BY <2>1, <2>2
<1> QED BY <1>1, <1>2, <1>3, <1>4, <1>5, <1>6 DEF Upgrade!Next

LEMMA UpgradeInductiveIsEnough ==
    UpgradeInductive => /\ Upgrade!EntriesSurvive /\ Upgrade!TargetsSurvive
                        /\ Upgrade!NamesSurvive /\ Upgrade!RunsOnCurrentSchema
<1> SUFFICES ASSUME UpgradeInductive
             PROVE  /\ Upgrade!EntriesSurvive /\ Upgrade!TargetsSurvive
                    /\ Upgrade!NamesSurvive /\ Upgrade!RunsOnCurrentSchema
  OBVIOUS
<1> USE DEF UpgradeInductive, UpgradeTyped
<1>1. Upgrade!EntriesSurvive
  BY DEF Upgrade!EntriesSurvive, UpgradeEntries
<1>2. Upgrade!TargetsSurvive
  BY DEF Upgrade!TargetsSurvive, UpgradeTargets
<1>3. Upgrade!NamesSurvive
  BY DEF Upgrade!NamesSurvive, UpgradeNames
<1>4. Upgrade!RunsOnCurrentSchema
  <2>1. stage # "failed"
    OBVIOUS
  <2> SUFFICES ASSUME stage = "running"
               PROVE  columns = Upgrade!Columns /\ hostnameKind /\ blockEntries = "view"
                      /\ ~oldStamps
    BY <2>1 DEF Upgrade!RunsOnCurrentSchema
  <2>2. Upgrade!Columns \subseteq columns
    BY DEF UpgradeColumns, Upgrade!Columns
  <2>3. columns = Upgrade!Columns
    BY <2>2
  <2>4. hostnameKind /\ ~oldStamps
    BY DEF UpgradeColumns
  <2>5. blockEntries = "view"
    BY DEF UpgradeEntries
  <2> QED BY <2>3, <2>4, <2>5
<1> QED BY <1>1, <1>2, <1>3, <1>4

HIDE DEF UpgradeSchemaAdded, UpgradeListsAdded, UpgradeCounted, UpgradeViewed,
     UpgradeRebuilt, UpgradeFlagged, UpgradeDerived, UpgradeLogAdded, UpgradeStamped,
     UpgradeOfMySQL

-----------------------------------------------------------------------------
(* The migration between databases (Migration).                            *)

MigrateDatabases ==
    [Migrate!Tables -> SUBSET (RowIds \cup {"dark", "light", Migrate!Marker})]
MigrateTable(i) == Migrate!TableOrder[i]

\* Where a run has seen that its source can be migrated.
MigrateValidated == {"count", "clear", "begin", "copy", "compare", "verify", "rebuild"}

MigrateTyped ==
    /\ destinationKind \in {"mysql", "sqlite"} /\ disturbed \in BOOLEAN
    /\ position \in {"idle", "initialize", "validate"} \cup MigrateValidated
    /\ position # "idle" => outcome = "none"
    /\ outcome \in {"none", "refused", "failed", "success"}
    /\ table \in 1..6 /\ (position \in {"clear", "begin"} => table = 1)
    /\ position = "verify" => verify
    /\ source \in MigrateDatabases /\ destination \in MigrateDatabases
    /\ snapshot \in MigrateDatabases /\ former \in MigrateDatabases
    /\ moments \subseteq MigrateDatabases /\ DOMAIN expected = Migrate!Tables

\* Tables come from one moment of the source, one after the other.
MigrateMoments ==
    /\ source \in moments /\ (~disturbed => moments = {source})
    /\ position = "begin" => destination = Migrate!Empty
    /\ position = "copy" =>
          /\ snapshot \in moments
          /\ \A i \in 1..6 : destination[MigrateTable(i)] =
                IF i < table THEN snapshot[MigrateTable(i)] ELSE {}
    /\ position \in {"compare", "verify", "rebuild"} => destination \in moments
    /\ Migrate!SuccessIsComplete

\* A run that nothing has disturbed has counted, and finds, the rows of its source.
MigrateUndisturbed ==
    /\ Migrate!Consistent(source)
    /\ Migrate!OfflineRunsSucceed
    /\ ~disturbed =>
          /\ position \in MigrateValidated =>
                /\ snapshot = source
                /\ destinationKind = "mysql" => ~Migrate!Conflicts(source)
          /\ position = "count" => \A i \in 1..6 : i < table =>
                expected[MigrateTable(i)] = Migrate!Cardinality(source[MigrateTable(i)])
          /\ position \in {"clear", "begin", "copy", "compare"} => \A t \in Migrate!Tables :
                expected[t] = Migrate!Cardinality(source[t])

MigrateKeeps == \A t \in Migrate!Tables : former[t] \subseteq destination[t]
MigratePossible == destinationKind = "mysql" => \E db \in moments : ~Migrate!Conflicts(db)

\* Before it has seen that, a run only adds to the destination.
MigrateRefusals ==
    /\ MigrateKeeps \/ MigratePossible
    /\ position \in {"initialize", "validate"} \/ outcome = "refused" => MigrateKeeps
    /\ position \in MigrateValidated => MigratePossible

MigrateInductive ==
    MigrateTyped /\ MigrateMoments /\ MigrateUndisturbed /\ MigrateRefusals

LEMMA MigrateTableOrder ==
    /\ Migrate!TableOrder = <<"settings", "blocklists", "memberships", "query_log",
                              "client_identities", "api_keys">>
    /\ Migrate!Len(Migrate!TableOrder) = 6
    /\ MigrateTable(1) = "settings" /\ MigrateTable(2) = "blocklists"
    /\ MigrateTable(3) = "memberships" /\ MigrateTable(4) = "query_log"
    /\ MigrateTable(5) = "client_identities" /\ MigrateTable(6) = "api_keys"
    /\ Migrate!Tables = {"settings", "blocklists", "memberships", "query_log",
                         "client_identities", "api_keys"}
<1> USE DEF MigrateTable, Migrate!TableOrder
<1>1. DOMAIN Migrate!TableOrder = 1..6
  OBVIOUS
<1>2. Migrate!Tables = {MigrateTable(i) : i \in 1..6}
  BY <1>1 DEF Migrate!Tables, Migrate!Range
<1>3. 1..6 = {1, 2, 3, 4, 5, 6}
  OBVIOUS
<1> QED BY <1>2, <1>3

LEMMA MigrateEmptyTyped == Migrate!Empty \in MigrateDatabases
BY DEF Migrate!Empty, MigrateDatabases

LEMMA MigrateInitInductive ==
    Migrate!Init => MigrateInductive
<1> USE MigrateTableOrder
<1> DEFINE from(blocks, seen, access) ==
               Migrate!Database("dark", blocks, {Migrate!First}, {Migrate!First}, seen, access)
<1> SUFFICES ASSUME Migrate!Init PROVE MigrateInductive
  OBVIOUS
<1>1. PICK kind \in {"mysql", "sqlite"}, blocks \in Migrate!OneOrAll,
           seen \in Migrate!OneOrAll, access \in Migrate!OneOrAll,
           same \in BOOLEAN, to \in {Migrate!Empty, Migrate!InUse} :
              Migrate!Setup(kind, same, from(blocks, seen, access), to)
  BY DEF Migrate!Init
<1>2. Migrate!First \in RowIds
  BY MigrationConstants DEF Migrate!First
<1>3. /\ from(blocks, seen, access) \in MigrateDatabases
      /\ Migrate!Consistent(from(blocks, seen, access))
  BY <1>2 DEF MigrateDatabases, Migrate!Database, Migrate!Consistent, Migrate!OneOrAll
<1>4. Migrate!InUse \in MigrateDatabases
  BY <1>2 DEF MigrateDatabases, Migrate!Database, Migrate!InUse
<1>5. to \in MigrateDatabases
  BY <1>4, MigrateEmptyTyped
<1> HIDE DEF from
<1> USE DEF Migrate!Setup
<1>6. MigrateTyped
  <2>1. DOMAIN expected = Migrate!Tables /\ moments \subseteq MigrateDatabases
    BY <1>1, <1>3
  <2>2. /\ source \in MigrateDatabases /\ destination \in MigrateDatabases
        /\ snapshot \in MigrateDatabases /\ former \in MigrateDatabases
    BY <1>1, <1>3, <1>5, MigrateEmptyTyped
  <2>3. /\ destinationKind \in {"mysql", "sqlite"} /\ disturbed \in BOOLEAN
        /\ position = "idle" /\ outcome = "none" /\ table = 1
    BY <1>1
  <2> QED BY <2>1, <2>2, <2>3 DEF MigrateTyped
<1>7. MigrateMoments
  BY <1>1 DEF MigrateMoments, Migrate!SuccessIsComplete
<1>8. MigrateUndisturbed
  BY <1>1, <1>3 DEF MigrateUndisturbed, MigrateValidated, Migrate!OfflineRunsSucceed
<1>9. MigrateRefusals
  BY <1>1 DEF MigrateRefusals, MigrateKeeps, MigrateValidated
<1> QED BY <1>6, <1>7, <1>8, <1>9 DEF MigrateInductive

LEMMA MigrateStarts ==
    ASSUME MigrateInductive, Migrate!Start
    PROVE  MigrateInductive'
<1> USE MigrateTableOrder DEF MigrateInductive, Migrate!Start, Migrate!End
<1>1. MigrateTyped'
  <2>1. DOMAIN expected' = Migrate!Tables /\ moments' \subseteq MigrateDatabases
    BY DEF MigrateTyped
  <2>2. /\ source' \in MigrateDatabases /\ destination' \in MigrateDatabases
        /\ snapshot' \in MigrateDatabases /\ former' \in MigrateDatabases
    BY MigrateEmptyTyped DEF MigrateTyped
  <2>3. /\ destinationKind' \in {"mysql", "sqlite"} /\ disturbed' \in BOOLEAN
        /\ position' \in {"idle", "initialize"} /\ outcome' \in {"none", "refused"}
        /\ position' # "idle" => outcome' = "none"
        /\ table' = 1
    BY DEF MigrateTyped
  <2> QED BY <2>1, <2>2, <2>3 DEF MigrateTyped
<1>2. MigrateMoments' /\ MigrateUndisturbed'
  BY DEF MigrateTyped, MigrateMoments, MigrateUndisturbed, Migrate!SuccessIsComplete,
         MigrateValidated, Migrate!OfflineRunsSucceed
<1>3. MigrateRefusals'
  BY DEF MigrateRefusals, MigrateKeeps, MigrateValidated
<1> QED BY <1>1, <1>2, <1>3

LEMMA MigrateInitializes ==
    ASSUME MigrateInductive, Migrate!Initialize
    PROVE  MigrateInductive'
<1> USE MigrateTableOrder DEF MigrateInductive, Migrate!Initialize, Migrate!Goto, Migrate!runVars
<1>1. PICK more \in SUBSET {"light", Migrate!Marker} :
         destination' = [destination EXCEPT !["settings"] = @ \cup more]
  <2> DEFINE themed == IF destination["settings"] \cap Migrate!Themes = {} THEN {"light"}
                                                                         ELSE {}
             marked == IF destinationKind = "sqlite" THEN {Migrate!Marker} ELSE {}
  <2>1. themed \cup marked \in SUBSET {"light", Migrate!Marker}
    OBVIOUS
  <2>2. destination' = [destination EXCEPT !["settings"] = @ \cup (themed \cup marked)]
    OBVIOUS
  <2> HIDE DEF themed, marked
  <2> QED BY <2>1, <2>2
<1>2. /\ destination' \in MigrateDatabases
      /\ \A t \in Migrate!Tables : destination[t] \subseteq destination'[t]
  BY <1>1 DEF MigrateTyped, MigrateDatabases
<1>3. MigrateTyped'
  BY <1>2 DEF MigrateTyped, MigrateValidated
<1>4. MigrateMoments' /\ MigrateUndisturbed'
  BY DEF MigrateTyped, MigrateMoments, MigrateUndisturbed, Migrate!SuccessIsComplete,
         MigrateValidated, Migrate!OfflineRunsSucceed
<1>5. MigrateRefusals'
  BY <1>2 DEF MigrateTyped, MigrateRefusals, MigrateKeeps, MigratePossible, MigrateValidated
<1> QED BY <1>3, <1>4, <1>5

LEMMA MigrateValidates ==
    ASSUME MigrateInductive, Migrate!Validate
    PROVE  MigrateInductive'
<1> USE MigrateTableOrder DEF MigrateInductive, Migrate!Validate, Migrate!Goto, Migrate!End,
        Migrate!runVars, Migrate!Refused
<1>1. MigrateTyped'
  BY DEF MigrateTyped, MigrateValidated
<1>2. MigrateMoments' /\ MigrateUndisturbed'
  BY DEF MigrateTyped, MigrateMoments, MigrateUndisturbed, Migrate!SuccessIsComplete,
         MigrateValidated, Migrate!OfflineRunsSucceed
<1>3. MigrateRefusals'
  BY DEF MigrateTyped, MigrateMoments, MigrateRefusals, MigrateKeeps, MigratePossible,
         MigrateValidated
<1> QED BY <1>1, <1>2, <1>3

\* What is read of a source that nobody changes is the source.
LEMMA MigrateSeesSource ==
    ASSUME MigrateInductive, position \in MigrateValidated, ~disturbed, NEW t
    PROVE  Migrate!Seen(t) = source[t]
BY DEF MigrateInductive, MigrateUndisturbed, Migrate!Seen

LEMMA MigrateCounts ==
    ASSUME MigrateInductive, Migrate!Count
    PROVE  MigrateInductive'
<1> USE MigrateTableOrder DEF MigrateInductive, Migrate!Count, Migrate!Goto, Migrate!runVars
<1>1. MigrateTyped'
  BY DEF MigrateTyped, MigrateValidated
<1>2. MigrateMoments'
  BY DEF MigrateTyped, MigrateMoments, Migrate!SuccessIsComplete
<1>3. MigrateUndisturbed'
  <2>1. ~disturbed => \A i \in 1..6 : i <= table =>
           expected'[MigrateTable(i)] = Migrate!Cardinality(source[MigrateTable(i)])
    <3> SUFFICES ASSUME ~disturbed, NEW i \in 1..6, i <= table
                 PROVE  expected'[MigrateTable(i)] =
                           Migrate!Cardinality(source[MigrateTable(i)])
      OBVIOUS
    <3>1. expected' = [expected EXCEPT ![MigrateTable(table)] =
                          Migrate!Cardinality(source[MigrateTable(table)])]
      BY MigrateSeesSource DEF MigrateValidated, MigrateTable
    <3>2. i < table => /\ MigrateTable(i) # MigrateTable(table)
                       /\ expected[MigrateTable(i)] =
                             Migrate!Cardinality(source[MigrateTable(i)])
      BY DEF MigrateTyped, MigrateUndisturbed
    <3> QED BY <3>1, <3>2 DEF MigrateTyped
  <2> QED BY <2>1 DEF MigrateTyped, MigrateUndisturbed, MigrateValidated,
         Migrate!OfflineRunsSucceed
<1>4. MigrateRefusals'
  BY DEF MigrateTyped, MigrateRefusals, MigrateKeeps, MigratePossible, MigrateValidated
<1> QED BY <1>1, <1>2, <1>3, <1>4

LEMMA MigrateClears ==
    ASSUME MigrateInductive, Migrate!Clear \/ Migrate!BeginConsistentRead
    PROVE  MigrateInductive'
<1> USE MigrateTableOrder DEF MigrateInductive, Migrate!Clear, Migrate!BeginConsistentRead,
        Migrate!Goto, Migrate!runVars
<1>1. MigrateTyped'
  BY MigrateEmptyTyped DEF MigrateTyped, MigrateValidated
<1>2. MigrateMoments'
  <2>1. \A i \in 1..6 : Migrate!Empty[MigrateTable(i)] = {}
    BY DEF Migrate!Empty
  <2>2. CASE Migrate!Clear
    BY <2>2 DEF MigrateTyped, MigrateMoments, Migrate!SuccessIsComplete
  <2>3. CASE Migrate!BeginConsistentRead
    <3>1. \A i \in 1..6 : destination'[MigrateTable(i)] = {} /\ ~(i < table')
      BY <2>1, <2>3 DEF MigrateTyped, MigrateMoments
    <3> QED BY <2>3, <3>1 DEF MigrateTyped, MigrateMoments, Migrate!SuccessIsComplete
  <2> QED BY <2>2, <2>3
<1>3. MigrateUndisturbed'
  BY DEF MigrateTyped, MigrateUndisturbed, MigrateValidated,
         Migrate!OfflineRunsSucceed
<1>4. MigrateRefusals'
  BY DEF MigrateTyped, MigrateRefusals, MigrateKeeps, MigratePossible, MigrateValidated
<1> QED BY <1>1, <1>2, <1>3, <1>4

LEMMA MigrateCopies ==
    ASSUME MigrateInductive, Migrate!Copy
    PROVE  MigrateInductive'
<1> USE MigrateTableOrder DEF MigrateInductive, Migrate!runVars
<1> DEFINE t == MigrateTable(table)
           filled == [destination EXCEPT ![t] = snapshot[t]]
           accepted == /\ Migrate!Consistent(filled)
                       /\ Migrate!TakenBy(filled, destinationKind)
           counts_ == Migrate!Cardinality(snapshot[t]) = expected[t]
<1>1. /\ position = "copy" /\ UNCHANGED <<source, expected, snapshot>>
      /\ UNCHANGED Migrate!runVars
      /\ destination' = IF accepted THEN filled ELSE destination
      /\ IF ~accepted \/ ~counts_ THEN Migrate!End("failed") /\ UNCHANGED table
         ELSE IF table < 6 THEN table' = table + 1 /\ Migrate!Goto("copy")
         ELSE table' = 1 /\ Migrate!Goto("compare")
  BY DEF Migrate!Copy, Migrate!FilledTable, Migrate!CopiedRows, Migrate!Seen, MigrateTable
<1>2. /\ t \in Migrate!Tables /\ filled \in MigrateDatabases
      /\ \A u \in Migrate!Tables : filled[u] = IF u = t THEN snapshot[t] ELSE destination[u]
  BY DEF MigrateTyped, MigrateDatabases
<1>3. \A i \in 1..6 : filled[MigrateTable(i)] =
         IF i <= table THEN snapshot[MigrateTable(i)] ELSE {}
  BY <1>1, <1>2 DEF MigrateMoments, MigrateTyped
<1> HIDE DEF filled
<1> DEFINE unforeseen == destinationKind = "mysql" /\ Migrate!Unforeseen(source)
<1>4. ~disturbed => (accepted \/ unforeseen) /\ counts_
  <2> SUFFICES ASSUME ~disturbed PROVE (accepted \/ unforeseen) /\ counts_
    OBVIOUS
  <2>1. /\ snapshot = source /\ Migrate!Consistent(source)
        /\ destinationKind = "mysql" => ~Migrate!Conflicts(source)
        /\ \A u \in Migrate!Tables : expected[u] = Migrate!Cardinality(source[u])
    BY <1>1 DEF MigrateUndisturbed, MigrateValidated
  <2>2. /\ filled["blocklists"] = IF 2 <= table THEN source["blocklists"] ELSE {}
        /\ filled["memberships"] = IF 3 <= table THEN source["memberships"] ELSE {}
        /\ filled["api_keys"] = IF 6 <= table THEN source["api_keys"] ELSE {}
    BY <1>3, <2>1
  <2>3. Migrate!Consistent(filled)
    BY <2>1, <2>2 DEF Migrate!Consistent, MigrateTyped
  <2>4. /\ Migrate!Conflicts(filled) => Migrate!Conflicts(source)
        /\ Migrate!Unforeseen(filled) => Migrate!Unforeseen(source)
    BY <2>2 DEF Migrate!Conflicts, Migrate!Unforeseen
  <2> QED BY <1>2, <2>1, <2>3, <2>4 DEF Migrate!TakenBy
<1> HIDE DEF accepted, counts_
<1> USE DEF Migrate!End, Migrate!Goto
<1>5. MigrateTyped'
  BY <1>1, <1>2 DEF MigrateTyped, MigrateValidated
<1>6. MigrateMoments'
  <2>1. CASE position' = "compare"
    <3>1. destination' = filled /\ table = 6
      BY <1>1, <2>1 DEF MigrateTyped
    <3>2. \A u \in Migrate!Tables : filled[u] = snapshot[u]
      BY <1>3, <3>1
    <3>3. destination' = snapshot
      BY <1>2, <3>1, <3>2 DEF MigrateTyped, MigrateDatabases
    <3> QED BY <1>1, <2>1, <3>3 DEF MigrateTyped, MigrateMoments, Migrate!SuccessIsComplete
  <2>2. CASE position' = "copy"
    <3>1. destination' = filled /\ table' = table + 1
      BY <1>1, <2>2 DEF MigrateTyped
    <3>2. \A i \in 1..6 : destination'[MigrateTable(i)] =
             IF i < table' THEN snapshot'[MigrateTable(i)] ELSE {}
      BY <1>1, <1>3, <3>1 DEF MigrateTyped
    <3> QED BY <1>1, <2>2, <3>2 DEF MigrateTyped, MigrateMoments, Migrate!SuccessIsComplete
  <2>3. CASE position' = "idle"
    BY <1>1, <2>3 DEF MigrateTyped, MigrateMoments, Migrate!SuccessIsComplete
  <2> QED BY <1>1, <2>1, <2>2, <2>3
<1>7. MigrateUndisturbed'
  BY <1>1, <1>4 DEF MigrateTyped, Migrate!Unforeseen, MigrateUndisturbed, MigrateValidated,
         Migrate!OfflineRunsSucceed
<1>8. MigrateRefusals'
  BY <1>1 DEF MigrateTyped, MigrateRefusals, MigrateKeeps, MigratePossible, MigrateValidated
<1> QED BY <1>5, <1>6, <1>7, <1>8

LEMMA MigrateCompares ==
    ASSUME MigrateInductive, Migrate!Compare \/ Migrate!Verify
    PROVE  MigrateInductive'
<1> USE MigrateTableOrder DEF MigrateInductive, Migrate!runVars, Migrate!Compare,
        Migrate!Verify, Migrate!End, Migrate!Goto
<1>1. MigrateTyped'
  BY DEF MigrateTyped, MigrateValidated
<1>2. MigrateMoments'
  BY DEF MigrateTyped, MigrateMoments, Migrate!SuccessIsComplete
<1>3. MigrateUndisturbed'
  <2>1. ~disturbed => destination = source
    BY DEF MigrateMoments
  <2>2. ~disturbed => Migrate!Consistent(destination)
                      /\ Migrate!Seen(MigrateTable(table)) = destination[MigrateTable(table)]
    BY <2>1, MigrateSeesSource DEF MigrateUndisturbed, MigrateValidated
  <2>3. ~disturbed /\ position = "compare" =>
            \A t \in Migrate!Tables : Migrate!Cardinality(destination[t]) = expected[t]
    BY <2>1 DEF MigrateUndisturbed
  <2>4. CASE Migrate!Compare
    BY <2>2, <2>3, <2>4 DEF MigrateTyped, MigrateUndisturbed, MigrateValidated,
       Migrate!OfflineRunsSucceed
  <2>5. CASE Migrate!Verify
    <3>1. ~disturbed /\ outcome' = "failed" =>
             /\ verify /\ destination = source
             /\ Migrate!OrdersDiffer("client_identities", source["client_identities"])
      BY <2>1, <2>2, <2>5 DEF MigrateTyped, MigrateTable, Migrate!OrdersDiffer
    <3>2. Migrate!OfflineRunsSucceed'
      BY <2>5, <3>1 DEF Migrate!OfflineRunsSucceed, Migrate!OrdersDiffer
    <3> QED BY <2>5, <3>2 DEF MigrateTyped, MigrateUndisturbed, MigrateValidated
  <2> QED BY <2>4, <2>5
<1>4. MigrateRefusals'
  BY DEF MigrateTyped, MigrateRefusals, MigrateKeeps, MigratePossible, MigrateValidated
<1> QED BY <1>1, <1>2, <1>3, <1>4

LEMMA MigrateRebuilds ==
    ASSUME MigrateInductive, Migrate!Rebuild
    PROVE  MigrateInductive'
<1> USE MigrateTableOrder DEF MigrateInductive, Migrate!runVars, Migrate!Rebuild,
        Migrate!End, Migrate!Goto
<1>1. /\ destination' \in MigrateDatabases
      /\ \A t \in Migrate!Tables : destination'[t] =
            IF t = "settings" THEN destination[t] \cup {Migrate!Marker} ELSE destination[t]
  BY DEF MigrateTyped, MigrateDatabases
<1>2. MigrateTyped'
  BY <1>1 DEF MigrateTyped, MigrateValidated
<1>3. MigrateMoments'
  <2>1. \A t \in Migrate!Tables :
           destination'[t] \ {Migrate!Marker} = destination[t] \ {Migrate!Marker}
    BY <1>1
  <2>2. Migrate!Data(destination)' = Migrate!Data(destination)
    BY <2>1 DEF Migrate!Data
  <2>3. destination \in moments
    BY DEF MigrateMoments
  <2>4. counted' = Migrate!Cardinality(destination'["query_log"])
    BY <1>1 DEF Migrate!Recounted
  <2>5. Migrate!SuccessIsComplete'
    BY <2>2, <2>3, <2>4 DEF Migrate!SuccessIsComplete
  <2> QED BY <2>5 DEF MigrateMoments
<1>4. MigrateUndisturbed'
  BY DEF MigrateTyped, MigrateUndisturbed, MigrateValidated,
         Migrate!OfflineRunsSucceed
<1>5. MigrateRefusals'
  BY DEF MigrateTyped, MigrateRefusals, MigrateKeeps, MigratePossible, MigrateValidated
<1> QED BY <1>2, <1>3, <1>4, <1>5

LEMMA MigrateFaults ==
    ASSUME MigrateInductive, Migrate!Fault
    PROVE  MigrateInductive'
<1> USE MigrateTableOrder DEF MigrateInductive, Migrate!Fault, Migrate!End
<1>1. MigrateTyped'
  BY DEF MigrateTyped, MigrateValidated
<1>2. MigrateMoments' /\ MigrateUndisturbed'
  BY DEF MigrateTyped, MigrateMoments, MigrateUndisturbed, Migrate!SuccessIsComplete,
         Migrate!OfflineRunsSucceed
<1>3. MigrateRefusals'
  BY DEF MigrateTyped, MigrateRefusals, MigrateKeeps, MigratePossible, MigrateValidated
<1> QED BY <1>1, <1>2, <1>3

LEMMA MigrateChanges ==
    ASSUME MigrateInductive, Migrate!Change
    PROVE  MigrateInductive'
<1> USE MigrateTableOrder DEF MigrateInductive, Migrate!Change
<1>1. source' \in MigrateDatabases /\ Migrate!Consistent(source')
  <2> USE DEF MigrateTyped, MigrateUndisturbed, MigrateDatabases, Migrate!Consistent
  <2>1. CASE source' = [source EXCEPT !["settings"] = {"light", Migrate!Marker}]
    BY <2>1
  <2>2. CASE \E i \in RowIds : source' = [source EXCEPT !["blocklists"] = @ \ {i},
                                                        !["memberships"] = @ \ {i}]
    BY <2>2
  <2>3. CASE \E i \in source["blocklists"] :
                source' = [source EXCEPT !["memberships"] = @ \cup {i}]
    BY <2>3
  <2>4. CASE \E j \in RowIds : source' = [source EXCEPT !["query_log"] = {j}]
    BY <2>4
  <2>5. CASE \E i \in RowIds :
                source' = [source EXCEPT !["client_identities"] = @ \cup {i}]
    BY <2>5
  <2> QED BY <2>1, <2>2, <2>3, <2>4, <2>5
<1>2. MigrateTyped'
  BY <1>1 DEF MigrateTyped, MigrateValidated
<1>3. MigrateMoments' /\ MigrateUndisturbed'
  BY <1>1 DEF MigrateTyped, MigrateMoments, MigrateUndisturbed, Migrate!SuccessIsComplete,
         Migrate!OfflineRunsSucceed
<1>4. MigrateRefusals'
  BY DEF MigrateTyped, MigrateRefusals, MigrateKeeps, MigratePossible, MigrateValidated
<1> QED BY <1>2, <1>3, <1>4

LEMMA MigrateNextInductive ==
    MigrateInductive /\ [Migrate!Next]_(Migrate!migrationVars) => MigrateInductive'
<1> SUFFICES ASSUME MigrateInductive, [Migrate!Next]_(Migrate!migrationVars)
             PROVE  MigrateInductive'
  OBVIOUS
<1>1. CASE Migrate!Next
  BY <1>1, MigrateStarts, MigrateInitializes, MigrateValidates, MigrateCounts, MigrateClears,
     MigrateCopies, MigrateCompares, MigrateRebuilds, MigrateFaults, MigrateChanges
     DEF Migrate!Next
<1>2. CASE UNCHANGED Migrate!migrationVars
  BY <1>2 DEF Migrate!migrationVars, MigrateInductive, MigrateTyped, MigrateMoments,
     MigrateUndisturbed, MigrateRefusals, MigrateKeeps, MigratePossible,
     Migrate!SuccessIsComplete, Migrate!OfflineRunsSucceed, Migrate!OrdersDiffer,
     Migrate!Unforeseen
<1> QED BY <1>1, <1>2

LEMMA MigrateInductiveIsEnough ==
    MigrateInductive => /\ Migrate!SuccessIsComplete /\ Migrate!RefusedKeepsData
                        /\ Migrate!OfflineRunsSucceed
BY DEF MigrateInductive, MigrateMoments, MigrateUndisturbed, MigrateRefusals, MigrateKeeps,
   MigratePossible, Migrate!RefusedKeepsData, Migrate!OfflineRunsSucceed

=============================================================================
