----------------------------- MODULE Schedules -----------------------------
(***************************************************************************)
(* Recurring schedules: CompiledSchedule.is_active() of app/policy.py and  *)
(* next_transition() of app/inspector.py, against the meaning that         *)
(* docs/USER_GUIDE.md gives them, while clocks are put forward and back.   *)
(*                                                                         *)
(* Time is counted in ticks, fine enough for every boundary of a schedule. *)
(* A time zone changes its distance from UTC once, by whole hours and when *)
(* a local hour begins.  Text, validation and zones that are not found are *)
(* the field `valid`.                                                      *)
(***************************************************************************)
EXTENDS Integers, FiniteSets

CONSTANTS
    WeekDays,  \* 7
    DayTicks,  \* ticks of a day
    HourTicks  \* ticks of an hour

Days == 0..(WeekDays - 1)
Ticks == 0..(DayTicks - 1)
WeekTicks == WeekDays * DayTicks

\* A window is [days, start, end]; a schedule has one of its own and others.
\* A zone is [at, before, after]: ticks ahead of UTC until and from instant at.

Offset(zone, utc) == IF utc < zone.at THEN zone.before ELSE zone.after
Local(zone, utc) == utc + Offset(zone, utc)
Weekday(local) == (local \div DayTicks) % WeekDays
ClockTime(local) == local % DayTicks

-----------------------------------------------------------------------------
(* The code.                                                               *)

\* Mutant: what runs over midnight belongs to the day it ends on.
AfterMidnightSameDay(w, day, time) == day \in w.days /\ time < w.end

AfterMidnight(w, day, time) ==
    (day - 1) % WeekDays \in w.days /\ time < w.end

WindowIsActive(w, local) ==
    LET day == Weekday(local)  time == ClockTime(local)
    IN  \/ w.start = w.end /\ day \in w.days
        \/ w.start < w.end /\ day \in w.days /\ w.start <= time /\ time < w.end
        \/ w.start > w.end /\ \/ day \in w.days /\ time >= w.start
                              \/ AfterMidnight(w, day, time)

IsActive(s, zone, utc) ==
    \/ ~s.enabled
    \/ /\ s.valid /\ s.window.days # {}
       /\ \E w \in s.windows \cup {s.window} : WindowIsActive(w, Local(zone, utc))

\* Mutant: the clock is not put forward or back where no window begins or ends.
BoundariesOnly(s) ==
    UNION {{w.start, w.end} : w \in s.windows \cup {s.window}}

\* "Include hourly boundaries to handle clocks jumping over a nonexistent local
\* start/end time."
Boundaries(s) == BoundariesOnly(s) \cup {t \in Ticks : t % HourTicks = 0}

\* datetime.combine(...).astimezone(utc): fold tells which of two instants a
\* repeated local time is, and which distance counts for a skipped one.
Instant(zone, local, fold) ==
    LET low  == zone.at + (IF zone.before < zone.after THEN zone.before ELSE zone.after)
        high == zone.at + (IF zone.before < zone.after THEN zone.after ELSE zone.before)
    IN  local - (IF local < low \/ (local < high /\ fold = 0)
                 THEN zone.before ELSE zone.after)

\* Mutant: of a repeated local time only the first occurrence is tried.
FirstFold == {0}
Folds == {0, 1}

Candidates(s, zone, now) ==
    {c \in {Instant(zone, (Local(zone, now) \div DayTicks + ahead) * DayTicks + t, fold) :
               ahead \in 0..(WeekDays + 1), t \in Boundaries(s), fold \in Folds} :
        c > now}

Changes(s, zone, utc) == IsActive(s, zone, utc - 1) # IsActive(s, zone, utc)

Never == -1
Earliest(instants) ==
    IF instants = {} THEN Never
    ELSE CHOOSE t \in instants : \A other \in instants : t <= other

\* A candidate, and the moment before it.
NextTransition(s, zone, now) ==
    IF ~s.enabled \/ ~s.valid \/ s.window.days = {} THEN Never
    ELSE Earliest({c \in Candidates(s, zone, now) : Changes(s, zone, c)})

-----------------------------------------------------------------------------
(* What the guide says: "Selected weekdays represent the day the schedule  *)
(* starts"; "If start and end are equal, the schedule covers the full      *)
(* selected day"; windows "can overlap"; "Invalid saved schedules are      *)
(* inactive".                                                              *)

Covered(w) ==
    IF w.start = w.end
    THEN {day * DayTicks + t : day \in w.days, t \in Ticks}
    ELSE {(day * DayTicks + w.start + k) % WeekTicks : day \in w.days,
             k \in {t \in Ticks : t < (w.end - w.start) % DayTicks}}

Promised(s, zone, utc) ==
    \/ ~s.enabled
    \/ /\ s.valid /\ s.window.days # {}
       /\ \E w \in s.windows \cup {s.window} : Local(zone, utc) % WeekTicks \in Covered(w)

-----------------------------------------------------------------------------
(* A schedule as time goes by.                                             *)

VARIABLES schedule, zone, utc
scheduleVars == <<schedule, zone, utc>>

CONSTANTS
    Others,     \* sets of further windows
    Zones, MaxUtc

Windows == [days : SUBSET Days, start : Ticks, end : Ticks]

Setup(s, z) == schedule = s /\ zone = z /\ utc = 0
Init ==
    \E w \in Windows, others \in Others, z \in Zones, on \in {<<TRUE, TRUE>>,
          <<TRUE, FALSE>>, <<FALSE, TRUE>>} :
        /\ others = {} \/ on = <<TRUE, TRUE>>
        /\ Setup([enabled |-> on[1], valid |-> on[2], window |-> w,
                  windows |-> others], z)

Next == utc < MaxUtc /\ utc' = utc + 1 /\ UNCHANGED <<schedule, zone>>
Spec == Init /\ [][Next]_scheduleVars

\* A schedule is active when the guide says so.
ActiveAsDocumented ==
    IsActive(schedule, zone, utc) = Promised(schedule, zone, utc)

\* Instants whose local date is one of those that next_transition() tries.
Tried(z, now, t) ==
    Local(z, t) \div DayTicks <= Local(z, now) \div DayTicks + WeekDays + 1

Ahead == (utc + 1)..(utc + 2 * WeekTicks)
NextAmong(instants) ==
    Earliest({t \in instants : Promised(schedule, zone, t - 1)
                               # Promised(schedule, zone, t)})

\* The transition that the console announces is the next one there is: no
\* change is missed, also where a boundary falls into an hour that is skipped or
\* repeated, and none is announced that does not happen.  Where the clock is put
\* forward on one of the days tried, the next one on these days.
TransitionIsNext ==
    LET tried == {t \in Ahead : Tried(zone, utc, t)}
        skips == zone.before < zone.after /\ zone.at \in tried
    IN  NextTransition(schedule, zone, utc) =
            NextAmong(IF skips THEN tried ELSE Ahead)

\* docs/USER_GUIDE.md: the card of a target shows the next schedule transition.
TransitionIsAnnounced == NextTransition(schedule, zone, utc) = NextAmong(Ahead)
=============================================================================
