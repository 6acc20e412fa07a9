------------------------------ MODULE MySQLPool ------------------------------
(***************************************************************************)
(* The connection pool of app/mysql_backend.py: a semaphore of slots, a    *)
(* stack of idle connections, and connect(), which takes a connection for  *)
(* the duration of a with block and gives it back, rolled back, whatever   *)
(* the block did.  Connections age and the server drops them at any time.  *)
(*                                                                         *)
(* What a block does is one step: it may leave a transaction open, as a    *)
(* handler does that raises between BEGIN and COMMIT.                      *)
(***************************************************************************)
EXTENDS Naturals, Sequences, FiniteSets

CONSTANTS
    Threads, Connections,
    PoolSize,
    MaxUses,       \* bound: with blocks that are entered
    MaxTrouble     \* bound: connections that age or break, opens that fail

None == "none"

VARIABLES
    slots,         \* _pool_slots
    pool,          \* _pool, a LifoQueue
    open,          \* the connections that are open in this process
    broken,        \* open, but the server has dropped them
    aged,          \* older than pool_recycle
    pending,       \* whose uncommitted work each connection holds
    thread,        \* where each thread is, and with which connection
    uses, trouble

poolVars == <<slots, pool, open, broken, aged, pending, thread, uses, trouble>>
wire == <<open, broken, aged, pending>>

AtRest == [pc |-> "idle", con |-> None]
Init ==
    /\ slots = PoolSize /\ pool = <<>>
    /\ open = {} /\ broken = {} /\ aged = {}
    /\ pending = [c \in Connections |-> None]
    /\ thread = [t \in Threads |-> AtRest]
    /\ uses = 0 /\ trouble = 0

Trouble == trouble < MaxTrouble /\ trouble' = trouble + 1
To(t, pc) == thread' = [thread EXCEPT ![t].pc = pc]
With(t, pc, c) == thread' = [thread EXCEPT ![t] = [pc |-> pc, con |-> c]]

Close(c) ==
    /\ open' = open \ {c} /\ broken' = broken \ {c} /\ aged' = aged \ {c}
    /\ pending' = [pending EXCEPT ![c] = None]

-----------------------------------------------------------------------------
(* _acquire_raw                                                            *)

Enter(t) ==
    /\ thread[t].pc = "idle" /\ uses < MaxUses /\ uses' = uses + 1
    /\ To(t, "wait")
    /\ UNCHANGED <<slots, pool, wire, trouble>>

TakeSlot(t) ==
    /\ thread[t].pc = "wait" /\ slots > 0
    /\ slots' = slots - 1 /\ To(t, "take")
    /\ UNCHANGED <<pool, wire, uses, trouble>>

\* After pool_timeout seconds the handler fails.
TimesOut(t) ==
    /\ thread[t].pc = "wait" /\ slots = 0
    /\ To(t, "idle")
    /\ UNCHANGED <<slots, pool, wire, uses, trouble>>

\* The connection that was put back last; an old one is closed and the next
\* one looked at.
Take(t) ==
    LET last == pool[Len(pool)] IN
    /\ thread[t].pc = "take"
    /\ IF pool = <<>> THEN To(t, "connect") /\ UNCHANGED <<pool, wire>>
       ELSE /\ pool' = SubSeq(pool, 1, Len(pool) - 1)
            /\ IF last \in aged
               THEN Close(last) /\ UNCHANGED thread
               ELSE With(t, "ping", last) /\ UNCHANGED wire
    /\ UNCHANGED <<slots, uses, trouble>>

Ping(t) ==
    LET c == thread[t].con IN
    /\ thread[t].pc = "ping"
    /\ IF c \in broken THEN Close(c) /\ With(t, "take", None)
       ELSE To(t, "use") /\ UNCHANGED wire
    /\ UNCHANGED <<slots, pool, uses, trouble>>

Connect(t) ==
    /\ thread[t].pc = "connect"
    /\ \E c \in Connections \ open : open' = open \cup {c} /\ With(t, "use", c)
    /\ UNCHANGED <<slots, pool, broken, aged, pending, uses, trouble>>

\* Mutant: an error other than a timeout keeps the slot.
SlotKept == slots

\* What the except clause leaves behind.
SlotReturned == slots + 1

ConnectFails(t) ==
    /\ thread[t].pc = "connect" /\ Trouble
    /\ slots' = SlotReturned /\ With(t, "idle", None)
    /\ UNCHANGED <<pool, wire, uses>>

-----------------------------------------------------------------------------
(* The with block, and _release_raw.                                       *)

Use(t) ==
    LET c == thread[t].con IN
    /\ thread[t].pc = "use" /\ To(t, "release")
    /\ \E left \in {None, t} :
          pending' = [pending EXCEPT ![c] =
                        IF c \in broken THEN None ELSE left]
    /\ UNCHANGED <<slots, pool, open, broken, aged, uses, trouble>>

\* Mutant: only a connection that failed is treated.
RolledBackNever(c) == pending

RolledBack(c) == [pending EXCEPT ![c] = None]

\* A rollback that fails closes the connection.
Roll(t) ==
    LET c == thread[t].con IN
    /\ thread[t].pc = "release"
    /\ IF c \in broken THEN Close(c) /\ With(t, "free", None)
       ELSE /\ pending' = RolledBack(c) /\ To(t, "store")
            /\ UNCHANGED <<open, broken, aged>>
    /\ UNCHANGED <<slots, pool, uses, trouble>>

Store(t) ==
    LET c == thread[t].con IN
    /\ thread[t].pc = "store" /\ With(t, "free", None)
    /\ IF c \in aged \/ Len(pool) = PoolSize
       THEN Close(c) /\ UNCHANGED pool
       ELSE pool' = Append(pool, c) /\ UNCHANGED wire
    /\ UNCHANGED <<slots, uses, trouble>>

\* Mutant: the slot is released before the connection is put back.
FreeFirst(t) ==
    /\ thread[t].pc \in {"release", "free"}
    /\ slots' = slots + (IF thread[t].pc = "release" THEN 1 ELSE 0)
    /\ IF thread[t].pc = "release"
       THEN With(t, "store", thread[t].con) ELSE To(t, "idle")
    /\ UNCHANGED <<pool, wire, uses, trouble>>

\* The finally clause.
Free(t) ==
    /\ thread[t].pc = "free" /\ To(t, "idle")
    /\ slots' = slots + 1
    /\ UNCHANGED <<pool, wire, uses, trouble>>

-----------------------------------------------------------------------------
(* The server and the clock.                                               *)

Breaks ==
    /\ Trouble /\ open \ broken # {} /\ broken' = open
    /\ pending' = [c \in Connections |-> None]
    /\ UNCHANGED <<slots, pool, open, aged, thread, uses>>

Ages ==
    /\ Trouble
    /\ \E c \in open \ aged : aged' = aged \cup {c}
    /\ UNCHANGED <<slots, pool, open, broken, pending, thread, uses>>

Moves(t) ==
    \/ TakeSlot(t) \/ TimesOut(t) \/ Take(t) \/ Ping(t) \/ Connect(t)
    \/ ConnectFails(t) \/ Use(t) \/ Roll(t) \/ Store(t) \/ Free(t)
Next == Breaks \/ Ages \/ \E t \in Threads : Enter(t) \/ Moves(t)
Spec == Init /\ [][Next]_poolVars

-----------------------------------------------------------------------------
(* What is checked.                                                        *)

HoldsSlot(t) == thread[t].pc \notin {"idle", "wait"}

\* Every slot is free or held by one thread, through failed pings, failed
\* connections, failed rollbacks and recycling: none is lost, none is given
\* back twice.
SlotsConserved ==
    slots + Cardinality({t \in Threads : HoldsSlot(t)}) = PoolSize

InPool == {pool[i] : i \in DOMAIN pool}
Held == {thread[t].con : t \in Threads} \ {None}

\* docs/OPERATIONS.md calls MYSQL_POOL_SIZE the maximum of pooled connections:
\* no more are ever open, each is idle or belongs to one thread, and none is
\* open that nobody knows.
ConnectionsBounded ==
    /\ Cardinality(open) <= PoolSize
    /\ Len(pool) = Cardinality(InPool) /\ InPool \cap Held = {}
    /\ open = InPool \cup Held
    /\ \A t, u \in Threads : t # u /\ thread[t].con # None =>
          thread[t].con # thread[u].con

\* A thread never finds the uncommitted work of another on its connection.
WorkIsOwn ==
    /\ \A c \in InPool : pending[c] = None
    /\ \A t \in Threads : thread[t].con # None =>
          pending[thread[t].con] \in {None, t}
=============================================================================
