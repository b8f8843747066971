---------------------------- MODULE RotationTimePoint ---------------------------
(***************************************************************************)
(* The predicates of time-based file rotation, rotation_at_time_point and  *)
(* rotation_at_time_interval.  text_file_backend asks the predicate on the *)
(* records that it writes, at any time.                                    *)
(*                                                                         *)
(* Time is a number of moments; the lengths of day, week and months are    *)
(* constants, as the code computes with those of Boost.DateTime.           *)
(***************************************************************************)
EXTENDS Integers, Sequences, FiniteSetsExt

CONSTANTS
    MonthLengths,    \* the days of each month, in order
    WeekLength,      \* days of a week
    DayLength,       \* moments of a day
    Points           \* the predicates: records [kind, day, time]

VARIABLES
    point,           \* the predicate: m_DayKind, m_Day, and m_Hour:m_Minute:m_Second
                     \* (kind "interval" has m_Interval as time)
    rpNow,           \* the clock
    previous,        \* m_Previous, or NotADateTime
    due,             \* history: a scheduled time has come after m_Previous
    verdict          \* history: the last call returned, or threw

rpVars == <<point, rpNow, previous, due, verdict>>

NotADateTime == -1

\* A time point has a time of day, which its constructors check; the constructor
\* of the interval asserts that it is positive.  The months are more than the one
\* that a process starts in and the one that is only there to be rotated in.
ASSUME RPAssumptions ==
    /\ DayLength \in Nat \ {0} /\ WeekLength \in Nat \ {0}
    /\ MonthLengths \in Seq(Nat \ {0}) /\ Len(MonthLengths) > 2
    /\ \A p \in Points :
          /\ p.day \in Nat /\ p.time \in Nat
          /\ \/ p.kind = "not_specified" /\ p.time < DayLength
             \/ p.kind = "weekday" /\ p.time < DayLength /\ p.day < WeekLength
             \/ p.kind = "monthday" /\ p.time < DayLength /\ p.day > 0
             \/ p.kind = "interval" /\ p.time > 0

-------------------------------------------------------------------------------
(* The calendar.  Days count from 0, months and days of months from 1.     *)
firstDays[m \in 1..Len(MonthLengths) + 1] ==
    IF m = 1 THEN 0 ELSE firstDays[m - 1] + MonthLengths[m - 1]
FirstDay(month) == firstDays[month]
MonthOf(d) == CHOOSE m \in DOMAIN MonthLengths : FirstDay(m) <= d /\ d < FirstDay(m) + MonthLengths[m]

day_of_week(d) == d % WeekLength
day(d) == d - FirstDay(MonthOf(d)) + 1
date(t) == t \div DayLength
time_of_day(t) == t % DayLength
ptime(d, time) == d * DayLength + time

\* Adding months(1) keeps the day of the month if the next one has it, but from
\* the last day of a month it leads to the last day of the next.
AddMonth(d) ==
    LET next == MonthOf(d) + 1
    IN  FirstDay(next) - 1 + IF day(d) = MonthLengths[next - 1] THEN MonthLengths[next]
                             ELSE Min({day(d), MonthLengths[next]})

-------------------------------------------------------------------------------
\* When the predicate's time comes after m_Previous, or -1 if the date that the
\* code builds does not exist.
NoDate == -1

next_daily ==
    ptime(date(previous) + IF point.time <= time_of_day(previous) THEN 1 ELSE 0, point.time)

\* Mutant: the time of day is not looked at on the day itself.
NextWeekWithoutTime ==
    LET wday == day_of_week(date(previous))
    IN  ptime(date(previous) + point.day - wday + IF point.day < wday THEN WeekLength ELSE 0,
              point.time)

next_weekday ==
    LET wday == day_of_week(date(previous))
        passed == point.day = wday /\ point.time <= time_of_day(previous)
    IN  ptime(date(previous) + point.day - wday + IF point.day < wday \/ passed THEN WeekLength ELSE 0,
              point.time)

next_monthday ==
    LET d == date(previous)
        passed == point.day = day(d) /\ point.time <= time_of_day(previous)
        sameMonth == FirstDay(MonthOf(d)) + point.day - 1
    IN  IF point.day > MonthLengths[MonthOf(d)] THEN NoDate
        ELSE ptime(IF point.day < day(d) \/ passed THEN AddMonth(sameMonth) ELSE sameMonth,
                   point.time)

next_interval == previous + point.time

NextPoint ==
    CASE point.kind = "not_specified" -> next_daily
      [] point.kind = "weekday" -> next_weekday
      [] point.kind = "monthday" -> next_monthday
      [] point.kind = "interval" -> next_interval

\* Whether the schedule that the constructors document has a rotation at time t.
Scheduled(t) ==
    CASE point.kind = "not_specified" -> time_of_day(t) = point.time
      [] point.kind = "weekday" -> day_of_week(date(t)) = point.day /\ time_of_day(t) = point.time
      [] point.kind = "monthday" -> day(date(t)) = point.day /\ time_of_day(t) = point.time
      [] point.kind = "interval" -> previous # NotADateTime /\ t - previous = point.time

-------------------------------------------------------------------------------
\* A process may start at any time, but the last month is there only to be
\* rotated in.
RPStart(p, start) ==
    /\ point = p
    /\ rpNow = start
    /\ previous = NotADateTime
    /\ due = FALSE
    /\ verdict = "none"

RPInit == \E p \in Points, start \in 0..ptime(FirstDay(2), 0) : RPStart(p, start)

Pass ==
    /\ rpNow + 1 < ptime(FirstDay(Len(MonthLengths)), 0)
    /\ rpNow' = rpNow + 1
    /\ due' = (due \/ Scheduled(rpNow + 1))
    /\ verdict' = "none"
    /\ UNCHANGED <<point, previous>>

\* operator() of both classes.
Ask ==
    /\ verdict = "none"
    /\ IF previous = NotADateTime
       THEN previous' = rpNow /\ due' = FALSE /\ verdict' = "no"
       ELSE IF NextPoint = NoDate
       THEN verdict' = "threw" /\ UNCHANGED <<previous, due>>
       ELSE IF rpNow >= NextPoint
       THEN previous' = rpNow /\ due' = FALSE /\ verdict' = "rotate"
       ELSE verdict' = "no" /\ UNCHANGED <<previous, due>>
    /\ UNCHANGED <<point, rpNow>>

RPNext == Pass \/ Ask

RPSpec == RPInit /\ [][RPNext]_rpVars

-------------------------------------------------------------------------------
\* A day that every month has, and that is the last one of none.
EveryMonthGoesBeyond == \A m \in DOMAIN MonthLengths : point.day < MonthLengths[m]

\* Asked at any times, the predicate says rotate exactly if a time of its
\* schedule has come since it last did, however long ago; a day of the month is
\* one that no month ends with.
RotatesOnSchedule ==
    [][(point.kind = "monthday" => EveryMonthGoesBeyond)
        => (Ask /\ previous # NotADateTime => verdict' = IF due THEN "rotate" ELSE "no")]_rpVars

\* "rotation takes place on the specified day of every month, at the specified
\* time": so it does for any day.  It does not: after a rotation on the last day
\* of a month it waits for the last day of the next, and in a month that does
\* not have the day the predicate throws.
RotatesOnTheSpecifiedDay ==
    [][Ask /\ previous # NotADateTime => verdict' = IF due THEN "rotate" ELSE "no"]_rpVars
===============================================================================
