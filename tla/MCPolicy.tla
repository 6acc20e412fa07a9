------------------------------ MODULE MCPolicy ------------------------------
(***************************************************************************)
(* The policy as it is evaluated, in three parts, of which a behaviour     *)
(* shows one: single questions to any configuration (MCPolicyDecision),    *)
(* requests beside publications (PolicyRequest), and schedules as time     *)
(* goes by (Schedules).                                                    *)
(***************************************************************************)
EXTENDS MCPolicyDecision, TLC

CONSTANTS
    Workers, Policies, Requests, MaxPublished, MaxMinute,
    WeekDays, DayTicks, HourTicks, Others, Zones, MaxUtc

VARIABLES
    part,
    published, resetDue, minute, cache, pc, request, since, filtered,
    evaluated, now, held, answers, row,
    schedule, zone, utc

decisionVars == <<config, asked, question, answer>>
requestVars == <<published, resetDue, minute, cache, pc, request, since,
                 filtered, evaluated, now, held, answers, row>>
scheduleVars == <<schedule, zone, utc>>

-----------------------------------------------------------------------------
(* Requests: two clients, one of them under a target, two lists with       *)
(* opposite hours, and configurations that differ in what is ignored and   *)
(* what is blocked.                                                        *)

Home == [family |-> 4, value |-> 1]
Away == [family |-> 4, value |-> 2]

Ads == <<"ads", "org">>
News == <<"news", "org">>

List(id, type, hours, domain) ==
    [id |-> id, type |-> type, enabled |-> TRUE, use_globally |-> TRUE,
     hours |-> hours, domains |-> {domain}]

Policy(lists, home, ignored) ==
    [lists |-> lists,
     scopes |-> {[id |-> 1, kind |-> "client", target |-> Home, state |-> home,
                  whitelisted |-> FALSE, hours |-> {0, 1}, lists |-> {}]},
     identities |-> [ip \in {Home, Away} |-> Nobody],
     global_blocking |-> TRUE, unmatched |-> "allow", reach |-> "all_clients",
     ignored |-> ignored]

\* Blocks ads by night and news by day, or the other way around.
Nightly == {List(1, "block", {0}, Ads), List(2, "block", {1}, News)}
Daily == {List(1, "block", {1}, Ads), List(3, "block", {0}, News)}

TwoPolicies == {Policy(Nightly, "active", {"HTTPS"}),
                Policy(Daily, "paused", {"A"})}
TwoRequests ==
    {[ip |-> Home, questions |-> <<[name |-> News, type |-> "A"],
                                   [name |-> Ads, type |-> "HTTPS"]>>],
     [ip |-> Away, questions |-> <<[name |-> News, type |-> "TXT"],
                                   [name |-> Ads, type |-> "TXT"]>>]}

Request == INSTANCE PolicyRequest

\* Questions are sequences; Nobody is not the row of an answer.
ASSUME RequestConstants ==
    /\ MaxMinute \in Nat
    /\ \A r \in Requests :
          r.questions \in Seq({r.questions[k] : k \in DOMAIN r.questions})
ASSUME NobodyIsNoRow ==
    \A c \in Policies, r \in Requests, time \in 0..MaxMinute :
        \A k \in DOMAIN r.questions :
            Nobody # [question |-> k,
                      decision |-> Request!Decide(Request!Compile(c), r.ip,
                                                  r.questions[k].name, time)]

-----------------------------------------------------------------------------
(* Schedules in a week of three days of three hours, two ticks each.       *)

\* Clocks go forward by night, by day and in the hour before midnight, and back
\* at midnight.
OneHourOn(at) == [at |-> at, before |-> 1, after |-> 3]
OneHourBack(at) == [at |-> at, before |-> 3, after |-> 1]

SomeOthers ==
    {{}, {[days |-> {0}, start |-> 5, end |-> 1]},
         {[days |-> {1, 2}, start |-> 3, end |-> 3]}}
SomeZones == {OneHourOn(9), OneHourOn(7), OneHourOn(15), OneHourBack(9)}

Schedule == INSTANCE Schedules

\* Clocks change on the hour and by whole hours, a day at most, and are not put
\* back into a day that was over.
ASSUME ScheduleConstants ==
    /\ WeekDays \in Nat /\ WeekDays >= 3
    /\ DayTicks \in Nat /\ HourTicks \in Nat \ {0}
    /\ DayTicks > 0 /\ DayTicks % HourTicks = 0
    /\ \A others \in Others : others \subseteq Schedule!Windows
    /\ \A z \in Zones :
          /\ z.at \in Int /\ z.before \in Int /\ z.after \in Int
          /\ (z.at + z.before) % HourTicks = 0
          /\ (z.after - z.before) % HourTicks = 0
          /\ z.after - z.before <= DayTicks /\ z.before - z.after <= DayTicks
          /\ (z.at + z.before - 1) \div DayTicks <= (z.at + z.after) \div DayTicks

Unscheduled ==
    [enabled |-> FALSE, valid |-> TRUE, windows |-> {},
     window |-> [days |-> {}, start |-> 0, end |-> 0]]

-----------------------------------------------------------------------------

PolicyInit ==
    \/ /\ part = "decision" /\ Init
       /\ Request!Setup(Paused) /\ Schedule!Setup(Unscheduled, OneHourOn(9))
    \/ /\ part = "requests" /\ Request!Init
       /\ config = Paused /\ asked = {} /\ question = Nobody /\ answer = Nobody
       /\ Schedule!Setup(Unscheduled, OneHourOn(9))
    \/ /\ part = "schedules" /\ Schedule!Init
       /\ config = Paused /\ asked = {} /\ question = Nobody /\ answer = Nobody
       /\ Request!Setup(Paused)

PolicyNext ==
    /\ part' = part
    /\ \/ part = "decision" /\ Next /\ UNCHANGED <<requestVars, scheduleVars>>
       \/ part = "requests" /\ Request!Next /\ UNCHANGED <<decisionVars, scheduleVars>>
       \/ part = "schedules" /\ Schedule!Next /\ UNCHANGED <<decisionVars, requestVars>>
       \/ /\ part = "schedules" /\ utc = MaxUtc     \* the end of the days looked at
          /\ UNCHANGED <<decisionVars, requestVars, scheduleVars>>

PolicySpec ==
    PolicyInit /\ [][PolicyNext]_<<part, decisionVars, requestVars, scheduleVars>>

Symmetry == Permutations(Workers)

\* Every answer is the one the captured snapshot gives at the time of the
\* request, whatever mask of scheduled lists another thread has cached, for this
\* snapshot or another, before or after a reset (app/policy.py).
AnswersAreExact == Request!AnswersAreExact

\* A request of several questions in the middle of a publication: none of its
\* questions goes unexamined, and the row that is logged has the decision of the
\* question it names (app/policy.py).
RequestsAreWhole ==
    /\ Request!AllowedMeansExamined
    /\ Request!RowIsAboutItsQuestion

\* A schedule is active when the guide says so, over midnight, in overlapping
\* windows and while clocks change, and the transition that is announced is the
\* next one, or the next one on the days tried when clocks are put forward on
\* them (app/policy.py, app/inspector.py).
SchedulesHold ==
    part = "schedules" =>
        /\ Schedule!ActiveAsDocumented
        /\ Schedule!TransitionIsNext

\* The next transition is announced whenever there is one, also when the only
\* window of this week falls into an hour that is skipped (app/inspector.py).
TransitionIsAnnounced == part = "schedules" => Schedule!TransitionIsAnnounced
=============================================================================
