--------------------------- MODULE MCCronNextRun ---------------------------
(* Instances of CronNextRun for TLC. *)
EXTENDS CronNextRun

\* Months of 31, 29, 31 and 30 days.
Calendar == {0, 31, 60, 91, 121, 152}

\* Weekdays, the weekend, single days, every day, and days of the month.
FixedHours ==
  {[kind |-> "dow", dow |-> d, hour |-> h] :
      d \in {1 .. 5, {0, 6}, {0}, {1}, {3}, {6}, 0 .. 6}, h \in {0, 9, 23}}
    \cup {[kind |-> "dom", day |-> d, hour |-> h] : d \in {1, 15, 28}, h \in {0, 23}}
    \cup NextWeekday \cup AfterDays

\* Around midnights and around nine o'clock, in the middle and at the end of
\* a week and of a month.
FixedStarts ==
  {At(d, 0) + m : d \in {0, 2, 5, 6, 28, 30, 58},
                  m \in {0, 1, 539, 540, 541, 1379, 1380, 1439}}

\* Every minute of the last hours of the last day.
LateStarts == {At(LastDay, 22) + m : m \in 0 .. 119}

AllCreated ==
  (FixedHours \X FixedStarts) \cup ((EveryMinutes \cup EveryHours) \X LateStarts)

HoursCreated == EveryHours \X LateStarts
=============================================================================
