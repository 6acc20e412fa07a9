---------------------------- MODULE PolicyRequest ----------------------------
(***************************************************************************)
(* decide_with_log_row of app/policy.py: request threads that answer DNS   *)
(* policy requests of several questions while snapshots are published      *)
(* under them.  No lock is taken: the record-type filter reads the current *)
(* snapshot once per question, decide() captures it once per question, the *)
(* time is read once per request, and the mask of the lists on schedule is *)
(* shared between threads through one cached tuple.                        *)
(*                                                                         *)
(* A snapshot is its place in `published`: two publications of the same    *)
(* configuration are different objects.  A request's client is an address  *)
(* after IPv4-mapped addresses are unmapped; DecisionRequest admits no     *)
(* request without questions.                                              *)
(***************************************************************************)
EXTENDS PolicyDecision

CONSTANTS
    Workers,      \* request threads
    Policies,     \* configurations with a field `ignored`, a set of types
    Requests,     \* records [ip, questions], a question is [name, type]
    MaxPublished, \* bound: snapshots ever published
    MaxMinute     \* bound: the clock, in minutes

VARIABLES
    published,  \* configurations of all snapshots; the last is _snapshot
    resetDue,   \* a list rebuild has published and not yet reset the cache
    minute,     \* the clock; schedules have the resolution of a minute
    cache,      \* PolicyEngine._active_list_cache
    pc,         \* where each request thread is
    request,    \* the request it is answering
    since,      \* history: the snapshot in use when the request arrived
    filtered,   \* the number of questions the type filter has looked at
    evaluated,  \* the positions of the questions that passed the filter
    now,        \* the time the request is decided at
    held,       \* the snapshot decide() has captured
    answers,    \* the answers so far, one for each of `evaluated`
    row         \* the log row, Nobody when there is none

shared == <<published, resetDue, minute, cache>>
local == <<pc, request, since, filtered, evaluated, now, held, answers, row>>
vars == <<shared, local>>

Current == Len(published)
Snap(serial) == Compile(published[serial])
NoCache == [serial |-> 0, minute |-> 0, mask |-> {}]

Questions(w) == request[w].questions

-----------------------------------------------------------------------------
\* A process that has just started on configuration c.
Setup(c) ==
    /\ published = <<c>>
    /\ resetDue = FALSE
    /\ minute = 0
    /\ cache = NoCache
    /\ pc = [w \in Workers |-> "idle"]
    /\ request = [w \in Workers |-> Nobody]
    /\ since = [w \in Workers |-> 0]
    /\ filtered = [w \in Workers |-> 0]
    /\ evaluated = [w \in Workers |-> <<>>]
    /\ now = [w \in Workers |-> 0]
    /\ held = [w \in Workers |-> 0]
    /\ answers = [w \in Workers |-> <<>>]
    /\ row = [w \in Workers |-> Nobody]

Init == \E c \in Policies : Setup(c)

\* A rebuild publishes; reload and reload_lists then reset the cache.
Publish ==
    /\ Current < MaxPublished
    /\ ~resetDue
    /\ \E c \in Policies : published' = Append(published, c)
    /\ resetDue' \in BOOLEAN
    /\ UNCHANGED <<minute, cache, local>>

ResetCache ==
    /\ resetDue
    /\ resetDue' = FALSE
    /\ cache' = NoCache
    /\ UNCHANGED <<published, minute, local>>

Tick ==
    /\ minute < MaxMinute
    /\ minute' = minute + 1
    /\ UNCHANGED <<published, resetDue, cache, local>>

Arrive(w) ==
    /\ pc[w] = "idle"
    /\ \E r \in Requests : request' = [request EXCEPT ![w] = r]
    /\ since' = [since EXCEPT ![w] = Current]
    /\ pc' = [pc EXCEPT ![w] = "filter"]
    /\ UNCHANGED <<shared, filtered, evaluated, now, held, answers, row>>

-----------------------------------------------------------------------------
\* should_ignore_record_type, once per question on the snapshot of the moment.
Filter(w) ==
    LET k == filtered[w] + 1 IN
    /\ pc[w] = "filter"
    /\ k <= Len(Questions(w))
    /\ filtered' = [filtered EXCEPT ![w] = k]
    /\ evaluated' =
          [evaluated EXCEPT ![w] =
              IF Questions(w)[k].type \in published[Current].ignored
              THEN @ ELSE Append(@, k)]
    /\ UNCHANGED <<shared, pc, request, since, now, held, answers, row>>

\* Nothing is left to evaluate: allowed, not observed and not logged.
Bypass(w) ==
    /\ pc[w] = "filter"
    /\ filtered[w] = Len(Questions(w))
    /\ evaluated[w] = <<>>
    /\ pc' = [pc EXCEPT ![w] = "done"]
    /\ UNCHANGED <<shared, request, since, filtered, evaluated, now, held,
                   answers, row>>

Begin(w) ==
    /\ pc[w] = "filter"
    /\ filtered[w] = Len(Questions(w))
    /\ evaluated[w] # <<>>
    /\ now' = [now EXCEPT ![w] = minute]
    /\ pc' = [pc EXCEPT ![w] = "decide"]
    /\ UNCHANGED <<shared, request, since, filtered, evaluated, held, answers,
                   row>>

\* decide() reads the reference to the current snapshot and keeps it.
Capture(w) ==
    /\ pc[w] = "decide"
    /\ held' = [held EXCEPT ![w] = Current]
    /\ pc' = [pc EXCEPT ![w] = "captured"]
    /\ UNCHANGED <<shared, request, since, filtered, evaluated, now, answers,
                   row>>

Asked(w) == Questions(w)[evaluated[w][Len(answers[w]) + 1]]

\* Mutant: the first answer ends the request.
AnswerFirstOnly(w, answer) ==
    /\ answers' = [answers EXCEPT ![w] =
                      Append(@, [serial |-> held[w], decision |-> answer])]
    /\ pc' = [pc EXCEPT ![w] = "answered"]

\* A block, or the last question, ends the request.
AnswerWith(w, answer) ==
    /\ answers' = [answers EXCEPT ![w] =
                      Append(@, [serial |-> held[w], decision |-> answer])]
    /\ pc' = [pc EXCEPT ![w] =
                 IF answer.block \/ Len(answers[w]) + 1 = Len(evaluated[w])
                 THEN "answered" ELSE "decide"]

DecideHeld(w, mask) ==
    AnswerWith(w, DecideWith(Snap(held[w]), request[w].ip, Asked(w).name,
                             now[w], mask))

Early(w) == BeforeLists(Snap(held[w]), request[w].ip, now[w]) # Nobody

\* Mutant: a cached mask is used whatever snapshot it was computed from.
HitOfAnySnapshot(w) == cache.serial # 0 /\ cache.minute = now[w]

\* `cached_snapshot is snapshot and cached_minute == minute`
Hit(w) == cache.serial = held[w] /\ cache.minute = now[w]

\* What a thread does after capturing: answer without the lists, answer with
\* the cached mask, or go on to compute the mask.
Consult(w) ==
    /\ pc[w] = "captured"
    /\ \/ Early(w) /\ DecideHeld(w, {})
       \/ ~Early(w) /\ Hit(w) /\ DecideHeld(w, cache.mask)
       \/ /\ ~Early(w) /\ ~Hit(w)
          /\ pc' = [pc EXCEPT ![w] = "computing"]
          /\ UNCHANGED answers
    /\ UNCHANGED <<shared, request, since, filtered, evaluated, now, held, row>>

\* The mask is stored for the others, whatever they have stored meanwhile.
Compute(w) ==
    LET mask == ActiveListMask(Snap(held[w]), now[w]) IN
    /\ pc[w] = "computing"
    /\ cache' = [serial |-> held[w], minute |-> now[w], mask |-> mask]
    /\ DecideHeld(w, mask)
    /\ UNCHANGED <<published, resetDue, minute, request, since, filtered,
                   evaluated, now, held, row>>

\* Mutant: the row always names the first question.
ReportedFirst(w) == 1

\* The answer that becomes the reply: the one that blocks, or the first.
Reported(w) ==
    IF answers[w][Len(answers[w])].decision.block THEN Len(answers[w]) ELSE 1

\* The reply is sent, and its row handed to the query logger.
Reply(w) ==
    /\ pc[w] = "answered"
    /\ row' = [row EXCEPT ![w] =
                  [question |-> evaluated[w][Reported(w)],
                   decision |-> answers[w][Reported(w)].decision]]
    /\ pc' = [pc EXCEPT ![w] = "done"]
    /\ UNCHANGED <<shared, request, since, filtered, evaluated, now, held,
                   answers>>

Leave(w) ==
    /\ pc[w] = "done"
    /\ pc' = [pc EXCEPT ![w] = "idle"]
    /\ request' = [request EXCEPT ![w] = Nobody]
    /\ since' = [since EXCEPT ![w] = 0]
    /\ filtered' = [filtered EXCEPT ![w] = 0]
    /\ evaluated' = [evaluated EXCEPT ![w] = <<>>]
    /\ now' = [now EXCEPT ![w] = 0]
    /\ held' = [held EXCEPT ![w] = 0]
    /\ answers' = [answers EXCEPT ![w] = <<>>]
    /\ row' = [row EXCEPT ![w] = Nobody]
    /\ UNCHANGED shared

-----------------------------------------------------------------------------
Next ==
    \/ Publish \/ ResetCache \/ Tick
    \/ \E w \in Workers :
          Arrive(w) \/ Filter(w) \/ Bypass(w) \/ Begin(w) \/ Capture(w)
          \/ Consult(w) \/ Compute(w) \/ Reply(w) \/ Leave(w)

Spec == Init /\ [][Next]_vars

-----------------------------------------------------------------------------
(* Properties.                                                             *)

\* The snapshots in use at some moment since the request arrived.
InForce(w) == since[w]..Current

Exact(w, k, serial) ==
    Decide(Snap(serial), request[w].ip, Questions(w)[k].name, now[w])

\* Every answer is the one that the captured snapshot gives at the time of the
\* request: the mask another thread has cached, for this snapshot or another,
\* for this minute or an earlier one, before or after a reset, never changes
\* it.
AnswersAreExact ==
    \A w \in Workers : \A n \in DOMAIN answers[w] :
        answers[w][n].decision = Exact(w, evaluated[w][n], answers[w][n].serial)

\* A request that was not blocked had each of its questions ignored or allowed
\* by a snapshot in use while it was answered: a publication in the middle of
\* a request of several questions leaves none of them unexamined.
AllowedMeansExamined ==
    \A w \in Workers :
        pc[w] = "done" /\ (row[w] # Nobody => ~row[w].decision.block) =>
            \A k \in DOMAIN Questions(w) : \E serial \in InForce(w) :
                \/ Questions(w)[k].type \in published[serial].ignored
                \/ ~Exact(w, k, serial).block

\* The row that is logged tells the question it is about: its decision is that
\* of a snapshot in use, for that question, and it blocks exactly when some
\* question was blocked.
RowIsAboutItsQuestion ==
    \A w \in Workers :
        row[w] # Nobody =>
            /\ \E serial \in InForce(w) :
                  row[w].decision = Exact(w, row[w].question, serial)
            /\ row[w].decision.block <=>
                  \E n \in DOMAIN answers[w] : answers[w][n].decision.block
=============================================================================
