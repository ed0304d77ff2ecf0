---------------------------- MODULE CronNextRun ----------------------------
(***************************************************************************)
(* When a schedule runs next: compute_next_run_from_cron of                *)
(* core/engine/schedule_parser.py for the cron expressions its             *)
(* parse_schedule_intent produces, and the frequencies that                *)
(* _compute_next_run_at falls back to for a schedule without one.          *)
(*                                                                         *)
(* Time is in whole minutes from a Monday that is the first of a month.    *)
(* Expressions are records: the fields a pattern fixes.                    *)
(***************************************************************************)
EXTENDS Integers

CONSTANTS
  Created,      \* the schedules there are, with the minutes they may be created at
  Lateness,     \* how many minutes after its time a tick finds a run due
  MonthStarts,  \* the days on which a month begins (the calendar)
  LastDay       \* bound: the last day considered

HourLength == 60
DayLength  == 24 * HourLength

Day(t)     == t \div DayLength
Hour(t)    == (t \div HourLength) % 24
Minute(t)  == t % HourLength
UnixDow(d) == (d + 1) % 7

Days == 0 .. LastDay

\* m is the first day of the month of d, and of the month after it.
Begins(d, m)  == m <= d /\ \A k \in MonthStarts : k <= d => k <= m
Follows(d, m) == m > d /\ \A k \in MonthStarts : k > d => k >= m

(* The expressions. *)

EveryMinutes == [kind: {"minutes"}, n: 1 .. 59]
EveryHours   == [kind: {"hours"}, n: 1 .. 23]
OnWeekdays   == [kind: {"dow"}, dow: (SUBSET (0 .. 6)) \ {{}}, hour: 0 .. 23]
OnDayOfMonth == [kind: {"dom"}, day: 1 .. 28, hour: 0 .. 23]
\* Without an expression: a distance in days, or a weekday.
AfterDays    == [kind: {"after"}, days: {1, 7, 30}]
NextWeekday  == [kind: {"weekday"}, dow: 0 .. 6]

AllSchedules == EveryMinutes \cup EveryHours \cup OnWeekdays \cup OnDayOfMonth
                  \cup AfterDays \cup NextWeekday

ASSUME CronAssumption ==
  /\ Created \subseteq AllSchedules \X {t \in Nat : Day(t) \in Days}
  /\ LastDay \in Nat /\ MonthStarts \subseteq Nat /\ Lateness \subseteq Nat
  /\ \A d \in Days : /\ \E m \in MonthStarts : Begins(d, m)
                     /\ \E m \in MonthStarts : Follows(d, m)
  /\ \A k, m \in MonthStarts : k < m => m - k >= 28
  /\ \A d \in Days, k, m \in MonthStarts :
       Begins(d, k) /\ Follows(d, m) => m - k <= 31

-----------------------------------------------------------------------------
(* The algorithm. *)

\* Up to the next multiple of n, from the minute after now.
MinutesNext(n, now) ==
  LET nxt == now + 1
      rem == Minute(nxt) % n
  IN IF rem = 0 THEN nxt ELSE nxt + (n - rem)

\* The full hour of the minute after now, and up to the next multiple of n.
HoursNext(n, now) ==
  LET nxt == ((now + 1) \div HourLength) * HourLength
      rem == Hour(nxt) % n
  IN IF rem = 0 THEN nxt ELSE nxt + (n - rem) * HourLength

At(day, hour) == day * DayLength + hour * HourLength

\* Mutant of FirstAt: the time that has just come is taken again.
FirstAtAgain(hour, now) ==
  IF At(Day(now), hour) < now THEN Day(now) + 1 ELSE Day(now)

\* The first day whose hour is still to come.
FirstAt(hour, now) ==
  IF At(Day(now), hour) <= now THEN Day(now) + 1 ELSE Day(now)

\* The first of the next eight days that matches.
DowNext(dow, hour, now) ==
  LET first == FirstAt(hour, now)
      ahead == CHOOSE k \in 0 .. 7 : /\ UnixDow(first + k) \in dow
                                     /\ \A j \in 0 .. k - 1 : UnixDow(first + j) \notin dow
  IN At(first + ahead, hour)

\* In this month if it is still to come, else in the next.
DomNext(day, hour, now) ==
  LET this == CHOOSE m \in MonthStarts : Begins(Day(now), m)
      next == CHOOSE m \in MonthStarts : Follows(Day(now), m)
  IN IF At(this + day - 1, hour) > now THEN At(this + day - 1, hour)
                                       ELSE At(next + day - 1, hour)

\* The same time on the weekday, from tomorrow on.
WeekdayNext(dow, now) ==
  LET ahead == (dow - UnixDow(Day(now))) % 7
  IN now + (IF ahead = 0 THEN 7 ELSE ahead) * DayLength

NextRun(s, now) ==
  CASE s.kind = "minutes" -> MinutesNext(s.n, now)
    [] s.kind = "hours"   -> HoursNext(s.n, now)
    [] s.kind = "dow"     -> DowNext(s.dow, s.hour, now)
    [] s.kind = "dom"     -> DomNext(s.day, s.hour, now)
    [] s.kind = "after"   -> now + s.days * DayLength
    [] s.kind = "weekday" -> WeekdayNext(s.dow, now)

-----------------------------------------------------------------------------
(* A schedule in time: it is created, and at each run the next is computed. *)

VARIABLES
  schedule,     \* the expression or frequency of the row
  asOf,         \* when the next run was computed
  next          \* next_run_at

cronVars == <<schedule, asOf, next>>

CronInit ==
  /\ \E c \in Created : schedule = c[1] /\ asOf = c[2]
  /\ next = NextRun(schedule, asOf)

\* A tick finds the schedule due.
Run ==
  \E late \in Lateness :
    LET now == (IF next > asOf THEN next ELSE asOf) + late
    IN /\ Day(now) \in Days
       /\ asOf' = now
       /\ next'  = NextRun(schedule, now)
       /\ UNCHANGED schedule

CronNext == Run

CronSpec == CronInit /\ [][CronNext]_cronVars

-----------------------------------------------------------------------------
(* What an expression means. *)

Matches(s, t) ==
  CASE s.kind = "minutes" -> Minute(t) % s.n = 0
    [] s.kind = "hours"   -> Minute(t) = 0 /\ Hour(t) % s.n = 0
    [] s.kind = "dow"     -> t = At(Day(t), s.hour) /\ UnixDow(Day(t)) \in s.dow
    [] s.kind = "dom"     -> /\ t = At(Day(t), s.hour)
                             /\ \E m \in MonthStarts : Begins(Day(t), m) /\ Day(t) = m + s.day - 1
    [] s.kind = "after"   -> TRUE
    [] s.kind = "weekday" -> UnixDow(Day(t)) = s.dow

\* t is the first time after now that matches.
IsNext(s, now, t) ==
  /\ t > now
  /\ Matches(s, t)
  /\ \A u \in now + 1 .. t - 1 : ~Matches(s, u)

\* The next run is never more than a month away.
CronTypeOK ==
  /\ schedule \in AllSchedules
  /\ asOf \in Nat /\ Day(asOf) \in Days
  /\ next \in asOf - 59 .. asOf + 31 * DayLength

(***************************************************************************)
(* A schedule for weekdays or a day of the month runs next at the first    *)
(* minute that matches its expression: no day is missed, none is doubled,  *)
(* at the end of a week, of a month, and when a run starts late.           *)
(***************************************************************************)
FixedHoursAreNext ==
  schedule.kind \in {"dow", "dom"} => IsNext(schedule, asOf, next)

(***************************************************************************)
(* Steps that divide the hour, or the day, run at every multiple: the next *)
(* run is the first match, unless it is in the past.                       *)
(***************************************************************************)
DividingStepsAreNext ==
  \/ schedule.kind = "minutes" /\ 60 % schedule.n = 0
  \/ schedule.kind = "hours" /\ 24 % schedule.n = 0 /\ next > asOf
  => IsNext(schedule, asOf, next)

(***************************************************************************)
(* Whatever the schedule, the hourly ones excepted, the next run lies in   *)
(* the future: a row the tick has advanced is not due again.               *)
(***************************************************************************)
NextRunIsLater == schedule.kind # "hours" => next > asOf

(***************************************************************************)
(* A weekly schedule without an expression runs on its weekday, within a   *)
(* week.                                                                   *)
(***************************************************************************)
WeeklyOnItsDay ==
  schedule.kind = "weekday" =>
    Matches(schedule, next) /\ next - asOf \in 1 .. 7 * DayLength

(***************************************************************************)
(* Whatever has a fixed hour or weekday runs when it says, at the ends of  *)
(* weeks and months and after a late run as well.                          *)
(***************************************************************************)
FixedTimesAreNext == FixedHoursAreNext /\ WeeklyOnItsDay

(***************************************************************************)
(* The next run is later, and where the schedule fixes its time it is the  *)
(* next such time: no run is skipped and none is repeated, and steps that  *)
(* divide the hour or the day come at every multiple.                      *)
(***************************************************************************)
NextRunIsExact == NextRunIsLater /\ FixedTimesAreNext /\ DividingStepsAreNext
=============================================================================
