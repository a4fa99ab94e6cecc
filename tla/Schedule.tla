------------------------------ MODULE Schedule ------------------------------
(***************************************************************************)
(* Calendar schedules (schedule.py): the timer patterns that to_systemd    *)
(* and to_launchd give the schedulers, and previous_occurrence, from which *)
(* catch-up infers what they must have done.  A moment is its number of    *)
(* time slots since the calendar began; local wall-clock time only, so no  *)
(* daylight-saving changes.                                                *)
(***************************************************************************)
EXTENDS Integers, Sequences, FiniteSetsExt

CONSTANTS
    Months,    \* lengths of the calendar's months
    First,     \* the first month in which occurrences are asked for, two before it
    Weekday0,  \* datetime.weekday() of the calendar's first day, 0..6
    Slots      \* times of day

ASSUME ConstantsAssumption ==
    /\ Months \in Seq(28..31) /\ First \in 3..Len(Months)
    /\ \A m \in 1..(Len(Months) - 1) : 31 \in {Months[m], Months[m + 1]}
    /\ Weekday0 \in 0..6 /\ Slots \in Nat \ {0}

None == -1
Time == 0..(Slots - 1)

\* Schedule, as parse builds it; a field its kind lacks is None.
Schedules ==
    [kind : {"daily"}, weekday : {None}, day : {None}, time : Time]
    \cup [kind : {"weekly"}, weekday : 0..6, day : {None}, time : Time]
    \cup [kind : {"monthly"}, weekday : {None}, day : 1..31, time : Time]
    \cup [kind : {"interval"}, weekday : {None}, day : {None}, time : {None}]  \* or raw

-----------------------------------------------------------------------------
(* The calendar: datetime's arithmetic.                                    *)

\* Days before month m.
StartOf[m \in 1..(Len(Months) + 1)] ==
    IF m = 1 THEN 0 ELSE StartOf[m - 1] + Months[m - 1]

Day(moment)     == moment \div Slots
MonthOfDay      == [d \in 0..(StartOf[Len(Months) + 1] - 1) |->
                       CHOOSE m \in 1..Len(Months) : StartOf[m] <= d /\ d < StartOf[m + 1]]
MonthOf(moment) == MonthOfDay[Day(moment)]
DayOfMonth(moment) == Day(moment) - StartOf[MonthOf(moment)] + 1
Weekday(day)    == (day + Weekday0) % 7
DayName(day)    == <<"Mon", "Tue", "Wed", "Thu", "Fri", "Sat", "Sun">>[Weekday(day) + 1]

-----------------------------------------------------------------------------
(* The backends.                                                           *)

SYSTEMD_WEEKDAY == <<"Sun", "Mon", "Tue", "Wed", "Thu", "Fri", "Sat">>

\* OnCalendar: day name (or any), day of month (or any) and time.
ToSystemd(s) == [name |-> IF s.kind = "weekly" THEN SYSTEMD_WEEKDAY[s.weekday + 1] ELSE "any",
                 day  |-> s.day, time |-> s.time]

\* StartCalendarInterval: the keys present; Weekday 0 is Sunday.
ToLaunchd(s) ==
    CASE s.kind = "daily"   -> [Hour |-> s.time]
      [] s.kind = "weekly"  -> [Hour |-> s.time, Weekday |-> s.weekday]
      [] s.kind = "monthly" -> [Hour |-> s.time, Day |-> s.day]
      [] OTHER              -> [StartInterval |-> TRUE]

IsCalendar(s) == s.kind \in {"daily", "weekly", "monthly"}

SystemdMatches(p, moment) ==
    /\ p.time = moment % Slots
    /\ p.name \in {"any", DayName(Day(moment))}
    /\ p.day \in {None, DayOfMonth(moment)}

LaunchdMatches(p, moment) ==
    /\ "Hour" \in DOMAIN p /\ p.Hour = moment % Slots
    /\ "Weekday" \in DOMAIN p => p.Weekday = (Weekday(Day(moment)) + 1) % 7
    /\ "Day" \in DOMAIN p => p.Day = DayOfMonth(moment)

Fires(b, s, moment) ==
    IF b = "systemd" THEN SystemdMatches(ToSystemd(s), moment) /\ IsCalendar(s)
                     ELSE LaunchdMatches(ToLaunchd(s), moment)

-----------------------------------------------------------------------------
(* previous_occurrence.                                                    *)

WeekdayIndex(day) == (Weekday(day) + 1) % 7

Candidate(s, moment) == Day(moment) * Slots + s.time

PreviousDaily(s, moment) ==
    LET c == Candidate(s, moment) IN IF c > moment THEN c - Slots ELSE c

\* A week of probes, without the one a whole week back.
PreviousWeeklyShort(s, moment) ==
    LET c == Candidate(s, moment)
        back == {k \in 0..6 : /\ k <= Day(moment)
                              /\ WeekdayIndex(Day(moment) - k) = s.weekday
                              /\ c - k * Slots <= moment}
    IN  IF back = {} THEN None ELSE c - Min(back) * Slots

\* range(0, 8): the same weekday a week ago, if today's time is still to come.
PreviousWeekly(s, moment) ==
    LET c == Candidate(s, moment)
        back == {k \in 0..7 : /\ k <= Day(moment)
                              /\ WeekdayIndex(Day(moment) - k) = s.weekday
                              /\ c - k * Slots <= moment}
    IN  IF back = {} THEN None ELSE c - Min(back) * Slots

\* replace(day=...) in month m; ValueError if the month lacks the day.
Dated(s, m) == IF s.day <= Months[m] THEN (StartOf[m] + s.day - 1) * Slots + s.time ELSE None

\* range(0, 14): the newest month in which the day exists and has passed.
PreviousMonthly(s, moment) ==
    LET m == MonthOf(moment)
        back == {k \in 0..13 : /\ k < m
                               /\ Dated(s, m - k) # None
                               /\ Dated(s, m - k) <= moment}
    IN  IF back = {} THEN None ELSE Dated(s, m - Min(back))

PreviousOccurrence(s, moment) ==
    CASE s.kind = "daily"   -> PreviousDaily(s, moment)
      [] s.kind = "weekly"  -> PreviousWeekly(s, moment)
      [] s.kind = "monthly" -> PreviousMonthly(s, moment)
      [] OTHER              -> None

-----------------------------------------------------------------------------
Backends == {"systemd", "launchd"}

\* The moments at which occurrences are asked for.
Moments == (StartOf[First] * Slots)..(StartOf[Len(Months) + 1] * Slots - 1)

\* Backend b fires at p, and not again until now.
LatestFiring(b, s, p, now) ==
    Fires(b, s, p) /\ \A m \in (p + 1)..now : ~Fires(b, s, m)

\* What catch-up takes for the latest occurrence is the latest moment at which
\* both schedulers fire, in every month and at every time of day: never a
\* later one, never a moment they skip (previous_occurrence against to_systemd
\* and to_launchd).
Agrees(s, now) ==
    LET p == PreviousOccurrence(s, now) IN
    IF IsCalendar(s)
    THEN p \in 0..now /\ \A b \in Backends : LatestFiring(b, s, p, now)
    ELSE p = None
=============================================================================
