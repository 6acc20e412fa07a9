----------------------------- MODULE PtrResolver -----------------------------
(***************************************************************************)
(* PtrResolutionManager of app/ptr_resolver.py: how the names of clients   *)
(* are looked up beside the decisions, stored, handed to the policy and    *)
(* filled into the query log.                                              *)
(*                                                                         *)
(* One thread goes through a tick: it stores the observed clients,         *)
(* collects finished lookups, seeds and walks the tables, starts the       *)
(* lookups that are due, collects again and goes on with the name jobs.    *)
(* The tick holds _state_lock throughout, so that a flush falls between    *)
(* two ticks; client observations, lookups, log rows and other rebuilds    *)
(* fall anywhere.  An exception ends a tick where it occurs.               *)
(*                                                                         *)
(* Every write is one transaction.  It may fail without effect, or take    *)
(* effect without being acknowledged; both raise.  A time that must pass   *)
(* is a step that may happen (Tick); attempt counts and the delays they    *)
(* select are left out.                                                    *)
(***************************************************************************)
EXTENDS Integers, Sequences, FiniteSets

CONSTANTS
    Clients,    \* client addresses
    Names,      \* PTR host names
    NoName,     \* NULL
    Workers,    \* threads that look names up
    BatchSize,  \* rows a tick seeds, walks or schedules (512)
    ChunkSize,  \* log rows one name job transaction visits (128)
    MaxRows,    \* bound: rows of the query log
    MaxFlushes, \* bound: acknowledged flushes
    MaxFaults   \* bound: transactions that raise and restarts

NameOrNone == Names \cup {NoName}
Answers == [kind : {"resolved"}, name : Names]
           \cup [kind : {"no_ptr", "retry"}, name : {NoName}]

ASSUME ParametersOK ==
    /\ NoName \notin Names /\ IsFiniteSet(Clients)
    /\ Workers \in Nat \ {0} /\ BatchSize \in Nat \ {0}
    /\ ChunkSize \in Nat \ {0}
    /\ MaxRows \in Nat /\ MaxFlushes \in Nat /\ MaxFaults \in Nat

VARIABLES
    status,     \* client_ptr_status; `epoch` is history: the flushes that the
                \* lookup behind a row has seen
    identities, \* client_identities
    log,        \* query_log, a row's place being its id
    cursor,     \* the setting ptr_log_cursor
    jobs,       \* the settings ptr_backfill:<client>
    observed,   \* _observed
    futures,    \* _futures, by client; those in use are _inflight
    phase,      \* where the tick is
    todo,       \* what is left of the loop of the phase
    told,       \* the names the policy snapshot has been given
    unheard,    \* history: clients whose committed change was not called back
    epoch,      \* history: acknowledged flushes
    faults

tables == <<status, identities, log, cursor, jobs>>
memory == <<observed, futures, phase, todo, told>>
history == <<unheard, epoch>>
vars == <<tables, memory, history, faults>>

Untracked == [state |-> "untracked", name |-> NoName, due |-> FALSE, epoch |-> 0]
Pending == [state |-> "pending", name |-> NoName, due |-> TRUE, epoch |-> 0]
NoJob == [name |-> NoName, after |-> 0, through |-> 0]
NoFuture == [state |-> "none", epoch |-> 0]
Phases == {"idle", "collect", "seed", "walk", "schedule", "recollect", "jobs"}

Least(m, n) == IF m <= n THEN m ELSE n

\* A database from before client_ptr_status may hold names already.
Init ==
    /\ status = [c \in Clients |-> Untracked]
    /\ identities \in [Clients -> NameOrNone]
    /\ log = <<>> /\ cursor = 0
    /\ jobs = [c \in Clients |-> NoJob]
    /\ observed = {}
    /\ futures = [c \in Clients |-> NoFuture]
    /\ phase = "idle" /\ todo = {}
    /\ told = identities
    /\ unheard = {} /\ epoch = 0 /\ faults = 0

Tracked == {c \in Clients : status[c].state # "untracked"}
InFlight == {c \in Clients : futures[c].state # "none"}
Done == {c \in InFlight : futures[c].state = "done" \/ futures[c].state = "stale"}

-----------------------------------------------------------------------------
(* What happens beside the tick.                                           *)

\* decide_with_log_row.  That an address seen in the last 30 seconds is left
\* out makes some observations stutters.
Observe(c) ==
    /\ observed' = observed \cup {c}
    /\ UNCHANGED <<tables, futures, phase, todo, told, history, faults>>

\* The query logger stores a row later than the decision read the name.
LogRow(c) ==
    /\ Len(log) < MaxRows
    /\ \E n \in {told[c], NoName} :
          log' = Append(log, [client |-> c, name |-> n])
    /\ UNCHANGED <<status, identities, cursor, jobs, memory, history, faults>>

\* next_attempt_at comes.
Tick(c) ==
    /\ c \in Tracked /\ ~status[c].due
    /\ status' = [status EXCEPT ![c].due = TRUE]
    /\ UNCHANGED <<identities, log, cursor, jobs, memory, history, faults>>

\* A worker finishes a lookup, or finds it cancelled.  Its answer is chosen
\* when it is collected; nobody looks at it before.
FinishLookup(c) ==
    /\ \/ /\ futures[c].state = "running"
          /\ futures' = [futures EXCEPT ![c].state = "done"]
       \/ /\ futures[c].state = "cancelled"
          /\ futures' = [futures EXCEPT ![c].state = "stale"]
    /\ UNCHANGED <<tables, observed, phase, todo, told, history, faults>>

\* A full rebuild of the policy reads client_identities.
Reload ==
    /\ told' = identities
    /\ unheard' = {}
    /\ UNCHANGED <<tables, observed, futures, phase, todo, epoch,
                   faults>>

-----------------------------------------------------------------------------
(* Transactions.                                                           *)

Fault == faults < MaxFaults /\ faults' = faults + 1

\* An exception leaves the tick; the next one starts a second later.
Abort == phase' = "idle" /\ todo' = {}

\* A transaction that is acknowledged lets the tick go on; one that is not
\* may have taken effect or not.
Write(effect, continue) ==
    \/ effect /\ continue /\ UNCHANGED faults
    \/ effect /\ Abort /\ Fault
    \/ UNCHANGED tables /\ Abort /\ Fault

-----------------------------------------------------------------------------
(* The tick.                                                               *)

Loop(next, work) == phase' = next /\ todo' = work

\* Mutant: clients that are tracked are updated, new ones are not inserted.
TrackKnown(clients) == status

\* ON CONFLICT, a client that is tracked only gets another last_seen_at.
Track(clients) ==
    [c \in Clients |-> IF c \in clients \ Tracked THEN Pending ELSE status[c]]

\* _flush_observed takes the addresses out of the set before it writes them.
FlushObserved ==
    /\ phase = "idle"
    /\ observed' = {}
    /\ IF observed = {}
       THEN Loop("collect", Done) /\ UNCHANGED <<tables, faults>>
       ELSE Write(/\ status' = Track(observed)
                  /\ UNCHANGED <<identities, log, cursor, jobs>>,
                  Loop("collect", Done))
    /\ UNCHANGED <<futures, told, history>>

\* Rows of a client that a name job has still to visit, the first ones.
Visited(rows, c, after, through) ==
    LET mine == {i \in DOMAIN rows :
                    rows[i].client = c /\ i > after /\ i <= through}
    IN  {i \in mine : Cardinality({j \in mine : j < i}) < ChunkSize}

\* Rows that have a name keep it.
NameRows(rows, ids, names) ==
    [i \in DOMAIN rows |->
        IF i \in ids /\ rows[i].name = NoName
        THEN [rows[i] EXCEPT !.name = names[rows[i].client]]
        ELSE rows[i]]

\* Mutant: the progress of a job skips a row.
AdvanceTooFar(ids, n, through) ==
    LET last == CHOOSE i \in ids : \A j \in ids : j <= i
    IN  IF Cardinality(ids) < ChunkSize \/ last >= through
        THEN NoJob ELSE [name |-> n, after |-> last + 1, through |-> through]

\* The job ends with a chunk that is not full or reaches its last row.
Advance(ids, n, through) ==
    LET last == CHOOSE i \in ids : \A j \in ids : j <= i
    IN  IF Cardinality(ids) < ChunkSize \/ last >= through
        THEN NoJob ELSE [name |-> n, after |-> last, through |-> through]

\* _backfill_name_chunk
BackfillChunk(c, n, after, through) ==
    LET ids == Visited(log, c, after, through)
    IN  /\ log' = NameRows(log, ids, [d \in {c} |-> n])
        /\ jobs' = [jobs EXCEPT ![c] = Advance(ids, n, through)]

Answered(c, state, n) ==
    status' = [status EXCEPT ![c] = [state |-> state, name |-> n, due |-> FALSE,
                                     epoch |-> futures[c].epoch]]

PersistResolved(c, n) ==
    /\ Answered(c, "resolved", n)
    /\ identities' = [identities EXCEPT ![c] = n]
    /\ BackfillChunk(c, n, 0, Len(log))
    /\ UNCHANGED cursor

PersistNoPtr(c) ==
    /\ Answered(c, "no_ptr", NoName)
    /\ identities' = [identities EXCEPT ![c] = NoName]
    /\ UNCHANGED <<log, cursor, jobs>>

PersistRetry(c) ==
    /\ Answered(c, "retry", status[c].name)
    /\ UNCHANGED <<identities, log, cursor, jobs>>

Persist(c, a) ==
    CASE a.kind = "resolved" -> PersistResolved(c, a.name)
      [] a.kind = "no_ptr" -> PersistNoPtr(c)
      [] a.kind = "retry" -> PersistRetry(c)

\* Mutant: a missing name is handed on only if the status row had one.
UpdatesOfChanges(c, a) ==
    a.kind \in {"resolved", "no_ptr"} /\ a.name # status[c].name

\* A name is handed on when the status row had another, a missing one always.
Updates(c, a) ==
    \/ a.kind = "resolved" /\ a.name # status[c].name
    \/ a.kind = "no_ptr"

HandOn(c, a) ==
    IF Updates(c, a)
    THEN told' = [told EXCEPT ![c] = a.name] /\ unheard' = unheard \ {c}
    ELSE UNCHANGED <<told, unheard>>

\* Mutant: answers from before a flush count.
DiscardsNone(c) == FALSE

\* _stale_futures
Discards(c) == futures[c].state = "stale"

Collecting == phase \in {"collect", "recollect"}

\* _collect_done and _persist_result of one future; it leaves _futures and
\* _inflight whatever comes of it.
Collect(c) ==
    /\ Collecting /\ c \in todo
    /\ futures' = [futures EXCEPT ![c] = NoFuture]
    /\ IF Discards(c)
       THEN /\ todo' = todo \ {c}
            /\ UNCHANGED <<tables, phase, told, unheard, faults>>
       ELSE \/ \E a \in Answers :
                  /\ Persist(c, a)
                  /\ \/ /\ todo' = todo \ {c} /\ UNCHANGED <<phase, faults>>
                        /\ HandOn(c, a)
                     \/ /\ Abort /\ Fault
                        /\ unheard' = IF identities'[c] # identities[c]
                                      THEN unheard \cup {c} ELSE unheard
                        /\ UNCHANGED told
            \/ UNCHANGED <<tables, told, unheard>> /\ Abort /\ Fault
    /\ UNCHANGED <<observed, epoch>>

\* The backfill runs every ten seconds; other ticks skip it.
Collected ==
    /\ Collecting /\ todo = {}
    /\ IF phase = "collect"
       THEN \E next \in {"seed", "schedule"} : Loop(next, {})
       ELSE Loop("jobs", {c \in Clients : jobs[c] # NoJob})
    /\ UNCHANGED <<tables, observed, futures, told, history, faults>>

Some(n, set) ==
    {s \in SUBSET set : Cardinality(s) = Least(n, Cardinality(set))}

\* Names that came from elsewhere get a status row of their own.
Seed ==
    /\ phase = "seed"
    /\ \E s \in Some(BatchSize,
                     {c \in Clients \ Tracked : identities[c] # NoName}) :
          IF s = {}
          THEN UNCHANGED tables /\ Loop("walk", {}) /\ UNCHANGED faults
          ELSE Write(/\ status' = [c \in Clients |->
                           IF c \notin s THEN status[c]
                           ELSE [state |-> "resolved", name |-> identities[c],
                                 due |-> FALSE, epoch |-> epoch]]
                     /\ UNCHANGED <<identities, log, cursor, jobs>>,
                     Loop("walk", {}))
    /\ UNCHANGED <<observed, futures, told, history>>

\* Mutant: a batch that is not full is counted as one.
CandidatesOfFullBatch == (cursor + 1)..(cursor + BatchSize)

Candidates == (cursor + 1)..Least(cursor + BatchSize, Len(log))

\* The rows after the cursor are visited once; their clients are tracked and
\* those with a known name get it.
Walk ==
    /\ phase = "walk"
    /\ LET ids == Candidates
       IN  IF ids = {}
           THEN UNCHANGED tables /\ Loop("schedule", {}) /\ UNCHANGED faults
           ELSE Write(/\ status' = Track({log[i].client : i \in ids \cap DOMAIN log})
                      /\ log' = NameRows(log, ids, identities)
                      /\ cursor' = cursor + Cardinality(ids)
                      /\ UNCHANGED <<identities, jobs>>,
                      Loop("schedule", {}))
    /\ UNCHANGED <<observed, futures, told, history>>

Rank(c) == CASE status[c].state = "pending" -> 0
             [] status[c].state = "retry" -> 1
             [] status[c].state = "no_ptr" -> 2
             [] OTHER -> 3

\* The first due rows by rank, those in flight included, which are skipped.
Schedule ==
    /\ phase = "schedule"
    /\ LET due == {c \in Tracked : status[c].due}
           capacity == 2 * Workers - Cardinality(InFlight)
       IN  \E s \in Some(Least(BatchSize, capacity), due) :
              /\ \A c \in s, d \in due \ s : Rank(c) <= Rank(d)
              /\ futures' = [c \in Clients |->
                    IF c \in s \ InFlight
                    THEN [NoFuture EXCEPT !.state = "running", !.epoch = epoch]
                    ELSE futures[c]]
    /\ Loop("recollect", Done)
    /\ UNCHANGED <<tables, observed, told, history, faults>>

\* _backfill_known_names, one job
NameJob(c) ==
    /\ phase = "jobs" /\ c \in todo
    /\ Write(/\ BackfillChunk(c, jobs[c].name, jobs[c].after, jobs[c].through)
             /\ UNCHANGED <<status, identities, cursor>>,
             Loop("jobs", todo \ {c}))
    /\ UNCHANGED <<observed, futures, told, history>>

EndTick ==
    /\ phase = "jobs" /\ todo = {}
    /\ Loop("idle", {})
    /\ UNCHANGED <<tables, observed, futures, told, history, faults>>

-----------------------------------------------------------------------------
(* flush_cache.                                                            *)

NamedClients == {c \in Clients : identities[c] # NoName}

\* Mutant: a client keeps the time of its next lookup.
RequeuedLater(c) == [Pending EXCEPT !.due = status[c].due]

Requeued(c) == Pending

ClearNames ==
    /\ status' = [c \in Clients |->
                     IF c \in Tracked \cup NamedClients THEN Requeued(c)
                                                        ELSE status[c]]
    /\ identities' = [c \in Clients |-> NoName]
    /\ jobs' = [c \in Clients |-> NoJob]
    /\ UNCHANGED <<log, cursor>>

Flush ==
    /\ phase = "idle" /\ epoch < MaxFlushes
    /\ ClearNames
    /\ epoch' = epoch + 1
    /\ futures' = [c \in Clients |->
                      CASE futures[c].state = "running" ->
                               [futures[c] EXCEPT !.state = "cancelled"]
                        [] futures[c].state = "done" ->
                               [futures[c] EXCEPT !.state = "stale"]
                        [] OTHER -> futures[c]]
    /\ told' = [c \in Clients |-> IF c \in NamedClients THEN NoName ELSE told[c]]
    /\ unheard' = unheard \ NamedClients
    /\ UNCHANGED <<observed, phase, todo, faults>>

\* The administrator sees an error; the names may be gone nevertheless.
FlushFails ==
    /\ phase = "idle" /\ Fault
    /\ \/ UNCHANGED <<tables, unheard>>
       \/ ClearNames /\ unheard' = unheard \cup NamedClients
    /\ UNCHANGED <<memory, epoch>>

\* The process ends and starts again, which loads the policy.
Restart ==
    /\ Fault
    /\ observed' = {}
    /\ futures' = [c \in Clients |-> NoFuture]
    /\ Abort
    /\ told' = identities /\ unheard' = {}
    /\ UNCHANGED <<tables, epoch>>

-----------------------------------------------------------------------------
TickStep ==
    \/ FlushObserved \/ Collected \/ Seed \/ Walk \/ Schedule \/ EndTick
    \/ \E c \in Clients : Collect(c) \/ NameJob(c)

Next ==
    \/ TickStep
    \/ \E c \in Clients : \/ Observe(c) \/ LogRow(c) \/ Tick(c)
                          \/ FinishLookup(c)
    \/ Reload \/ Flush \/ FlushFails \/ Restart

Spec == Init /\ [][Next]_vars

\* The manager's thread runs and lookups end (they have a timeout).
\* The ten seconds after which a tick does not skip the backfill pass again
\* and again, hence the strong fairness.  Nothing makes a client ask, a name
\* expire, a rebuild, a flush or a restart happen.
Fairness ==
    /\ WF_vars(TickStep)
    /\ SF_vars(Collected /\ phase' = "seed")
    /\ \A c \in Clients : WF_vars(FinishLookup(c))

FairSpec == Spec /\ Fairness

\* Names are looked up again and again.
RefreshingSpec == FairSpec /\ \A c \in Clients : WF_vars(Tick(c))

-----------------------------------------------------------------------------
(* Properties.                                                             *)

\* Type invariant of the tables and of the manager's fields.
TypeOK ==
    /\ status \in [Clients -> [state : {"untracked", "pending", "resolved",
                                        "no_ptr", "retry"},
                               name : NameOrNone, due : BOOLEAN,
                               epoch : 0..MaxFlushes]]
    /\ identities \in [Clients -> NameOrNone]
    /\ log \in Seq([client : Clients, name : NameOrNone]) /\ Len(log) <= MaxRows
    /\ cursor \in 0..Len(log)
    /\ jobs \in [Clients -> [name : NameOrNone, after : 0..MaxRows,
                             through : 0..MaxRows]]
    /\ observed \subseteq Clients
    /\ futures \in [Clients -> [state : {"none", "running", "done", "cancelled",
                                         "stale"},
                                epoch : 0..MaxFlushes]]
    /\ Cardinality(InFlight) <= 2 * Workers
    /\ phase \in Phases /\ todo \subseteq Clients
    /\ told \in [Clients -> NameOrNone]
    /\ unheard \subseteq Clients
    /\ epoch \in 0..MaxFlushes /\ faults \in 0..MaxFaults

\* A flush that was acknowledged is not undone by lookups that began before
\* it: no row holds their answers.
AnswersPostdateFlush ==
    \A c \in Tracked : status[c].state # "pending" => status[c].epoch = epoch

\* The policy has been given the stored name of every client whose last change
\* was acknowledged, though what is handed on is decided from the status row,
\* which a client with an old name need not have agreed with.
NamesAreHandedOn == \A c \in Clients \ unheard : told[c] = identities[c]

\* Every row of the log that could be named and is not is ahead of the cursor
\* or of the client's name job: neither a row stored late, nor a crash or a
\* failure between two chunks, nor a name learnt again leaves a gap.
UnnamedRowsAreAhead ==
    \A i \in DOMAIN log :
        LET c == log[i].client
        IN  log[i].name = NoName /\ identities[c] # NoName =>
                \/ i > cursor
                \/ /\ jobs[c].name = identities[c]
                   /\ jobs[c].after < i /\ i <= jobs[c].through

\* A name that was acknowledged is on its way to the policy and to the log.
NamesArrive == NamesAreHandedOn /\ UnnamedRowsAreAhead

\* Every tracked client is looked up: none stays pending, though due rows in
\* flight take places of the schedule, answers are lost with their transaction
\* and a flush makes lookups void.
NobodyStaysPending == <>[](\A c \in Clients : status[c].state # "pending")

\* Once errors stop, every row of a client with a name gets it, provided the
\* name is not looked up again and again before its job is through: each answer
\* starts the job over.
RowsGetTheirNames ==
    \A c \in Clients :
        <>[](identities[c] # NoName /\ ~status[c].due) =>
            <>[](\A i \in DOMAIN log :
                    log[i].client = c => log[i].name # NoName)

\* docs/USER_GUIDE.md: one state is persisted for every observed client.  An
\* address is taken out of the set before it is written, so this holds as long
\* as no error or restart comes in between.
ObservedIsTracked ==
    \A c \in Clients, k \in 0..MaxFaults :
        (faults = k /\ c \in observed) ~> (c \in Tracked \/ faults > k)

\* docs/USER_GUIDE.md: a stored name is propagated into the policy snapshot.
NamesReachThePolicy ==
    \A c \in Clients, n \in Names :
        []<>(identities[c] # n \/ told[c] = n)
=============================================================================
