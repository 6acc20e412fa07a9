----------------------------- MODULE Admission -----------------------------
(***************************************************************************)
(* One of the two bounded pools of app/admin.py: console_read() for pages, *)
(* run_admin() for handlers that write.  The event loop admits a request   *)
(* if a slot is free and hands its function to the workers; the slot       *)
(* returns when the function ends, whether or not the caller still waits.  *)
(* admin_action() admits a request twice: for the session, and, once the   *)
(* form was read and its token compared, for the handler itself.           *)
(*                                                                         *)
(* A caller that disconnects has its coroutine cancelled.  The future is   *)
(* the one of the executor: cancelling it works while it is queued only,   *)
(* and its callbacks run before the loop hears of it.                      *)
(***************************************************************************)
EXTENDS Naturals, Sequences, FiniteSets, Functions

CONSTANTS
    Plain, Posts,  \* requests: with one admission, and of admin_action()
    Slots, Workers,
    MaxFaults      \* bound: submissions that raise

VARIABLES
    free,       \* the value of the semaphore
    waiting,    \* the queue of the executor
    work,       \* the function of each request and the state of its future
    caller,     \* the coroutine of each request
    formOpen,   \* requests with an open form
    cancelled,  \* how often each caller was cancelled
    admissionFaults

admissionVars == <<free, waiting, work, caller, formOpen, cancelled,
                   admissionFaults>>
Callers == Plain \cup Posts

Init ==
    /\ free = Slots /\ waiting = <<>> /\ formOpen = {}
    /\ work = [r \in Callers |-> [job |-> "none", state |-> "none"]]
    /\ caller = [r \in Callers |-> "idle"]
    /\ cancelled = [r \in Callers |-> 0] /\ admissionFaults = 0

Goes(r, pc) == caller' = [caller EXCEPT ![r] = pc]
Leaves(r) == Goes(r, "gone") /\ formOpen' = formOpen \ {r}
Becomes(r, s) == work' = [work EXCEPT ![r].state = s]
In(r, states) == work[r].state \in states
Busy == {r \in Callers : In(r, {"queued", "running"})}

\* A coroutine that comes to an admission: the first of the request, or the one
\* in the task that admin_action() has created.
Asks(r) == caller[r] \in {"idle", "task"}
Job(r) == IF caller[r] = "task" THEN "action"
          ELSE IF r \in Posts THEN "session" ELSE "page"

Admit(r) ==
    /\ Asks(r) /\ free > 0 /\ free' = free - 1
    /\ work' = [work EXCEPT ![r] = [job |-> Job(r), state |-> "queued"]]
    /\ waiting' = Append(waiting, r) /\ Goes(r, Job(r))
    /\ UNCHANGED <<formOpen, cancelled, admissionFaults>>

\* Mutant: a submission that raises keeps its slot.
ReturnedNever == free - 1
Returned == free

SubmitRaises(r) ==
    /\ Asks(r) /\ free > 0 /\ free' = Returned
    /\ admissionFaults < MaxFaults /\ admissionFaults' = admissionFaults + 1
    /\ Leaves(r) /\ UNCHANGED <<work, waiting, cancelled>>

\* Without waiting: status 503.
Refuse(r) ==
    /\ Asks(r) /\ free = 0 /\ Leaves(r)
    /\ UNCHANGED <<free, waiting, work, cancelled, admissionFaults>>

\* A worker takes the next item, and passes over one that was cancelled.
Take ==
    /\ waiting # <<>> /\ waiting' = Tail(waiting)
    /\ \/ /\ In(Head(waiting), {"queued"}) /\ Becomes(Head(waiting), "running")
          /\ Cardinality({r \in Callers : In(r, {"running"})}) < Workers
       \/ In(Head(waiting), {"cancelled"}) /\ UNCHANGED work
    /\ UNCHANGED <<free, caller, formOpen, cancelled, admissionFaults>>

\* The function returns or raises; the callback releases the slot.
Finish(r) ==
    /\ In(r, {"running"}) /\ Becomes(r, "done") /\ free' = free + 1
    /\ UNCHANGED <<waiting, caller, formOpen, cancelled, admissionFaults>>

\* The loop resumes the coroutine.  With a session, and a form whose token fits,
\* admin_action() goes on; otherwise the request has its response.
Resume(r) ==
    /\ In(r, {"done"}) /\ caller[r] = work[r].job
    /\ \/ Leaves(r)
       \/ /\ caller[r] = "session" /\ Goes(r, "form")
          /\ formOpen' = formOpen \cup {r}
    /\ UNCHANGED <<free, waiting, work, cancelled, admissionFaults>>

StartTask(r) ==
    /\ caller[r] = "form" /\ Goes(r, "task")
    /\ UNCHANGED <<free, waiting, work, formOpen, cancelled, admissionFaults>>

\* Mutant: the slot returns when the caller leaves.
AbandonedWork(r) ==
    IF In(r, {"queued"}) THEN Becomes(r, "cancelled") /\ free' = free + 1
    ELSE UNCHANGED work /\ free' = free + (IF In(r, {"running"}) THEN 1 ELSE 0)

\* Cancelling a coroutine that waits for a future cancels the future, which has
\* no effect on one whose function runs.
AbandonWork(r) ==
    IF In(r, {"queued"}) /\ caller[r] = work[r].job
    THEN Becomes(r, "cancelled") /\ free' = free + 1
    ELSE UNCHANGED <<work, free>>

\* Mutant: the task is awaited without a shield.
ShieldedNever(r) == FALSE

\* The first cancellation leaves the task alone and waits for it.
Shielded(r) == caller[r] \in {"task", "action"} /\ cancelled[r] = 0

Cancel(r) ==
    /\ caller[r] \notin {"idle", "gone"}
    /\ cancelled[r] < 2 /\ cancelled' = [cancelled EXCEPT ![r] = @ + 1]
    /\ IF Shielded(r) THEN UNCHANGED <<caller, work, free, formOpen>>
                      ELSE AbandonWork(r) /\ Leaves(r)
    /\ UNCHANGED <<waiting, admissionFaults>>

Next ==
    \/ \E r \in Callers :
          \/ Admit(r) \/ SubmitRaises(r) \/ Refuse(r) \/ Finish(r)
          \/ Resume(r) \/ StartTask(r) \/ Cancel(r)
    \/ Take
Spec == Init /\ [][Next]_admissionVars

-----------------------------------------------------------------------------

AdmissionTypeOK ==
    /\ free \in 0..Slots /\ formOpen \subseteq Posts
    /\ work \in [Callers -> [job : {"none", "page", "session", "action"},
                   state : {"none", "queued", "running", "cancelled", "done"}]]
    /\ caller \in [Callers -> {"idle", "page", "session", "form", "task",
                               "action", "gone"}]

\* Every slot is free or belongs to a function that is queued or runs, whatever
\* became of its caller: the pool neither shrinks nor admits more than its
\* limit, and no caller waits for a function that will not be run.
SlotsAreWork ==
    /\ free + Cardinality(Busy) = Slots
    /\ \A r \in Callers :
          /\ In(r, {"queued"}) => r \in Range(waiting)
          /\ caller[r] \in {"page", "session", "action"} =>
                work[r].job = caller[r] /\ In(r, {"queued", "running", "done"})

\* While a handler runs, its form and its uploads are open, also when its caller
\* has disconnected (admin.py: "Keep upload handles alive if the caller
\* disconnects mid-write"), unless the caller is cancelled a second time.
FormsOutliveWork ==
    \A r \in Posts :
        work[r].job = "action" /\ In(r, {"running"}) /\ cancelled[r] <= 1
        => r \in formOpen
=============================================================================
