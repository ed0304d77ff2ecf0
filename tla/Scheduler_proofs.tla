-------------------------- MODULE Scheduler_proofs --------------------------
(***************************************************************************)
(* Proofs about Scheduler, for every set of schedules and threads, every   *)
(* bound, and every placing of faults and of the crash, and about          *)
(* CronNextRun, which computes the times its schedules run at, for every   *)
(* calendar, every schedule and every time of creation.                    *)
(***************************************************************************)
EXTENDS Scheduler, CronNextRun, FiniteSetTheorems, TLAPS

(***************************************************************************)
(* When a schedule runs next.                                              *)
(***************************************************************************)

\* A minute is in a day, an hour and a minute of it.
LEMMA Clockwork ==
  ASSUME NEW t \in Nat
  PROVE  /\ Day(t) \in Nat /\ Hour(t) \in 0 .. 23 /\ Minute(t) \in 0 .. 59
         /\ Day(t) * DayLength <= t /\ t < (Day(t) + 1) * DayLength
  BY DEF Day, Hour, Minute, DayLength, HourLength

\* The time of an hour on a day is on that day.
LEMMA DayOfAt ==
  ASSUME NEW d \in Nat, NEW h \in 0 .. 23
  PROVE  Day(At(d, h)) = d /\ At(d, h) \in Nat
  BY DEF Day, At, DayLength, HourLength

\* A remainder is below its divisor.
LEMMA Remainder ==
  ASSUME NEW a \in Nat, NEW n \in Nat, n >= 1
  PROVE  a % n \in 0 .. n - 1
  OBVIOUS

\* The minutes pattern looks at most an hour ahead.
LEMMA MinutesAhead ==
  ASSUME NEW n \in 1 .. 59, NEW now \in Nat
  PROVE  MinutesNext(n, now) \in now + 1 .. now + 60
  <1> DEFINE rem == Minute(now + 1) % n
  <1>1. rem \in 0 .. n - 1
    <2>1. now + 1 \in Nat /\ n \in Nat /\ n >= 1
      OBVIOUS
    <2>2. Minute(now + 1) \in Nat
      BY <2>1, Clockwork
    <2> QED  BY <2>1, <2>2, Remainder
  <1> HIDE DEF rem
  <1> QED  BY <1>1 DEF MinutesNext, rem

\* The hours pattern looks at most a day ahead, and up to an hour back.
LEMMA HoursAround ==
  ASSUME NEW n \in 1 .. 23, NEW now \in Nat
  PROVE  HoursNext(n, now) \in now - 59 .. now + DayLength
  <1> DEFINE nxt == ((now + 1) \div HourLength) * HourLength
             rem == Hour(nxt) % n
  <1>1. nxt \in Nat /\ nxt \in now - 59 .. now + 1
    BY DEF HourLength
  <1>2. rem \in 0 .. n - 1
    <2>1. Hour(nxt) \in Nat /\ n \in Nat /\ n >= 1
      BY <1>1, Clockwork
    <2> QED  BY <2>1, Remainder
  <1>3. HoursNext(n, now) = IF rem = 0 THEN nxt ELSE nxt + (n - rem) * HourLength
    BY DEF HoursNext
  <1> HIDE DEF rem, nxt
  <1> QED  BY <1>1, <1>2, <1>3 DEF DayLength, HourLength

\* FirstAt is the first day on which the hour is still to come.
LEMMA FirstDay ==
  ASSUME NEW h \in 0 .. 23, NEW now \in Nat
  PROVE  /\ FirstAt(h, now) \in Nat
         /\ At(FirstAt(h, now), h) \in now + 1 .. now + DayLength
         /\ \A d \in Nat : At(d, h) > now => d >= FirstAt(h, now)
  <1>1. Day(now) \in Nat /\ Day(now) * DayLength <= now /\ now < (Day(now) + 1) * DayLength
    BY Clockwork
  <1> QED  BY <1>1 DEF FirstAt, At, DayLength, HourLength

\* Within seven days there is a first one with a weekday of the set.
LEMMA FirstMatchingDay ==
  ASSUME NEW dow \in SUBSET (0 .. 6), dow # {}, NEW first \in Nat
  PROVE  \E k \in 0 .. 6 : /\ UnixDow(first + k) \in dow
                           /\ \A j \in 0 .. k - 1 : UnixDow(first + j) \notin dow
  <1> DEFINE P(k) == UnixDow(first + k) \in dow
  <1>1. PICK e \in dow : e \in 0 .. 6
    OBVIOUS
  <1>2. \E k \in 0 .. 6 : UnixDow(first + k) = e
    BY <1>1 DEF UnixDow
  <1>3. P(0) \/ P(1) \/ P(2) \/ P(3) \/ P(4) \/ P(5) \/ P(6)
    <2>1. PICK k \in 0 .. 6 : UnixDow(first + k) = e
      BY <1>2
    <2>2. k \in {0, 1, 2, 3, 4, 5, 6} /\ P(k)
      BY <1>1, <2>1
    <2> HIDE DEF P
    <2> QED  BY <2>2
  <1> HIDE DEF P
  <1>4. \E k \in 0 .. 6 : P(k) /\ \A j \in 0 .. k - 1 : ~P(j)
    <2> DEFINE Least(k) == k \in 0 .. 6 /\ P(k) /\ \A j \in 0 .. k - 1 : ~P(j)
    <2>0. P(0) => Least(0)  OBVIOUS
    <2>1. ~P(0) /\ P(1) => Least(1)  OBVIOUS
    <2>2. ~P(0) /\ ~P(1) /\ P(2) => Least(2)
      <3>1. 0 .. 1 = {0, 1}  OBVIOUS
      <3> QED  BY <3>1
    <2>3. ~P(0) /\ ~P(1) /\ ~P(2) /\ P(3) => Least(3)
      <3>1. 0 .. 2 = {0, 1, 2}  OBVIOUS
      <3> QED  BY <3>1
    <2>4. ~P(0) /\ ~P(1) /\ ~P(2) /\ ~P(3) /\ P(4) => Least(4)
      <3>1. 0 .. 3 = {0, 1, 2, 3}  OBVIOUS
      <3> QED  BY <3>1
    <2>5. ~P(0) /\ ~P(1) /\ ~P(2) /\ ~P(3) /\ ~P(4) /\ P(5) => Least(5)
      <3>1. 0 .. 4 = {0, 1, 2, 3, 4}  OBVIOUS
      <3> QED  BY <3>1
    <2>6. ~P(0) /\ ~P(1) /\ ~P(2) /\ ~P(3) /\ ~P(4) /\ ~P(5) /\ P(6) => Least(6)
      <3>1. 0 .. 5 = {0, 1, 2, 3, 4, 5}  OBVIOUS
      <3> QED  BY <3>1
    <2> QED  BY <1>3, <2>0, <2>1, <2>2, <2>3, <2>4, <2>5, <2>6
  <1> QED  BY <1>4 DEF P

\* The weekday patterns take the first match.
LEMMA DowIsNext ==
  ASSUME NEW s \in OnWeekdays, NEW now \in Nat
  PROVE  /\ IsNext(s, now, DowNext(s.dow, s.hour, now))
         /\ DowNext(s.dow, s.hour, now) \in now + 1 .. now + 7 * DayLength
  <1> DEFINE first == FirstAt(s.hour, now)
             Ahead(k) == /\ UnixDow(first + k) \in s.dow
                         /\ \A j \in 0 .. k - 1 : UnixDow(first + j) \notin s.dow
             ahead == CHOOSE k \in 0 .. 7 : Ahead(k)
             t     == At(first + ahead, s.hour)
  <1>1. s.kind = "dow" /\ s.hour \in 0 .. 23 /\ s.dow \in SUBSET (0 .. 6) /\ s.dow # {}
    BY DEF OnWeekdays
  <1>2. /\ first \in Nat /\ At(first, s.hour) \in now + 1 .. now + DayLength
        /\ \A d \in Nat : At(d, s.hour) > now => d >= first
    BY <1>1, FirstDay
  <1>3. PICK k \in 0 .. 6 : Ahead(k)
    BY <1>1, <1>2, FirstMatchingDay
  <1>4. ahead \in 0 .. 7 /\ Ahead(ahead)
    BY <1>3
  <1>5. ahead <= k
    <2> SUFFICES ASSUME k < ahead PROVE FALSE
      BY <1>3, <1>4
    <2>1. k \in 0 .. ahead - 1
      BY <1>3, <1>4
    <2> QED  BY <1>3, <1>4, <2>1
  <1>6. DowNext(s.dow, s.hour, now) = t
    BY DEF DowNext
  <1> HIDE DEF ahead, first
  <1>7. /\ t = At(first, s.hour) + ahead * DayLength
        /\ t \in now + 1 .. now + 7 * DayLength
    BY <1>1, <1>2, <1>3, <1>4, <1>5 DEF At, DayLength, HourLength
  <1>8. Matches(s, t)
    <2>0. first + ahead \in Nat
      BY <1>2, <1>4
    <2>1. Day(t) = first + ahead
      BY <1>1, <2>0, DayOfAt
    <2> QED  BY <1>1, <1>4, <2>1 DEF Matches
  <1>9. ASSUME NEW u \in now + 1 .. t - 1, Matches(s, u) PROVE FALSE
    <2>1. u \in Nat /\ u > now /\ u < t
      BY <1>7
    <2>2. Day(u) \in Nat /\ u = At(Day(u), s.hour) /\ UnixDow(Day(u)) \in s.dow
      BY <1>1, <1>9, <2>1, Clockwork DEF Matches
    <2>3. Day(u) >= first
      BY <1>2, <2>1, <2>2
    <2>4. Day(u) < first + ahead
      BY <1>1, <1>2, <1>4, <2>1, <2>2 DEF At, DayLength, HourLength
    <2>5. PICK j \in 0 .. ahead - 1 : Day(u) = first + j
      <3>1. Day(u) - first \in 0 .. ahead - 1 /\ Day(u) = first + (Day(u) - first)
        BY <1>2, <1>4, <2>2, <2>3, <2>4
      <3> QED  BY <3>1
    <2> QED  BY <1>4, <2>2, <2>5
  <1> QED  BY <1>6, <1>7, <1>8, <1>9 DEF IsNext

\* The calendar around a day: its month, and the one after it.
LEMMA Months ==
  ASSUME NEW d \in Days, NEW k \in MonthStarts, NEW m \in MonthStarts,
         Begins(d, k), Follows(d, m)
  PROVE  /\ k \in Nat /\ m \in Nat /\ k <= d /\ d < m
         /\ m - k \in 28 .. 31
         /\ \A j \in MonthStarts : j <= k \/ j >= m
  <1>1. k \in Nat /\ m \in Nat /\ d \in Nat
    BY CronAssumption DEF Days
  <1>2. k <= d /\ d < m
    BY <1>1 DEF Begins, Follows
  <1>3. m - k >= 28 /\ m - k <= 31
    BY <1>1, <1>2, CronAssumption
  <1>4. ASSUME NEW j \in MonthStarts PROVE j <= k \/ j >= m
    <2>1. j \in Nat
      BY CronAssumption
    <2> QED  BY <1>1, <2>1 DEF Begins, Follows
  <1> QED  BY <1>1, <1>2, <1>3, <1>4

\* A day of the first 28 belongs to the month it was counted from.
LEMMA DayInMonth ==
  ASSUME NEW m \in MonthStarts, NEW n \in 1 .. 28
  PROVE  Begins(m + n - 1, m) /\ m + n - 1 \in Nat
  <1>1. m \in Nat
    BY CronAssumption
  <1>2. ASSUME NEW k \in MonthStarts, k <= m + n - 1 PROVE k <= m
    <2> SUFFICES ASSUME m < k PROVE FALSE
      BY <1>1, CronAssumption
    <2>1. k - m >= 28 /\ k \in Nat
      BY CronAssumption
    <2> QED  BY <1>1, <1>2, <2>1
  <1> QED  BY <1>1, <1>2 DEF Begins

\* The day-of-month pattern takes the first match.
LEMMA DomIsNext ==
  ASSUME NEW s \in OnDayOfMonth, NEW now \in Nat, Day(now) \in Days
  PROVE  /\ IsNext(s, now, DomNext(s.day, s.hour, now))
         /\ DomNext(s.day, s.hour, now) \in now + 1 .. now + 31 * DayLength
  <1> DEFINE this == CHOOSE m \in MonthStarts : Begins(Day(now), m)
             foll == CHOOSE m \in MonthStarts : Follows(Day(now), m)
  <1>1. s.kind = "dom" /\ s.hour \in 0 .. 23 /\ s.day \in 1 .. 28
    BY DEF OnDayOfMonth
  <1>2. this \in MonthStarts /\ foll \in MonthStarts
        /\ Begins(Day(now), this) /\ Follows(Day(now), foll)
    BY CronAssumption
  <1>3. DomNext(s.day, s.hour, now)
          = IF At(this + s.day - 1, s.hour) > now THEN At(this + s.day - 1, s.hour)
                                                  ELSE At(foll + s.day - 1, s.hour)
    BY DEF DomNext
  <1> HIDE DEF this, foll
  <1>4. /\ this \in Nat /\ foll \in Nat /\ this <= Day(now) /\ Day(now) < foll
        /\ foll - this \in 28 .. 31
        /\ \A j \in MonthStarts : j <= this \/ j >= foll
    BY <1>2, Months
  <1>5. Day(now) \in Nat /\ Day(now) * DayLength <= now /\ now < (Day(now) + 1) * DayLength
    BY Clockwork
  <1>6. ASSUME NEW m \in MonthStarts
        PROVE  Matches(s, At(m + s.day - 1, s.hour))
    <2>1. Begins(m + s.day - 1, m) /\ m + s.day - 1 \in Nat
      BY <1>1, DayInMonth
    <2>2. Day(At(m + s.day - 1, s.hour)) = m + s.day - 1
      BY <1>1, <2>1, DayOfAt
    <2> QED  BY <1>1, <2>1, <2>2 DEF Matches
  \* What matches after now does so in this month or in a later one.
  <1>7. ASSUME NEW u \in Nat, u > now, Matches(s, u)
        PROVE  \/ u = At(this + s.day - 1, s.hour)
               \/ u >= At(foll + s.day - 1, s.hour)
    <2>1. PICK m \in MonthStarts :
            Begins(Day(u), m) /\ Day(u) = m + s.day - 1 /\ u = At(Day(u), s.hour)
      BY <1>1, <1>7 DEF Matches
    <2>2. m \in Nat
      BY CronAssumption
    <2>3. Day(u) >= Day(now)
      BY <1>7 DEF Day, DayLength, HourLength
    <2>4. this <= m
      BY <1>2, <1>4, <1>5, <2>1, <2>2, <2>3, Clockwork DEF Begins
    <2>5. m = this \/ m >= foll
      BY <1>4, <2>2, <2>4
    <2> QED  BY <1>1, <1>4, <2>1, <2>2, <2>5 DEF At, DayLength, HourLength
  <1>8. CASE At(this + s.day - 1, s.hour) > now
    <2> DEFINE t == At(this + s.day - 1, s.hour)
    <2>1. t \in Nat /\ t <= now + 31 * DayLength /\ t < At(foll + s.day - 1, s.hour)
      BY <1>1, <1>4, <1>5 DEF At, DayLength, HourLength
    <2>2. At(foll + s.day - 1, s.hour) \in Nat
      BY <1>1, <1>4 DEF At, DayLength, HourLength
    <2>3. \A u \in now + 1 .. t - 1 : ~Matches(s, u)
      <3> HIDE DEF t
      <3> SUFFICES ASSUME NEW u \in now + 1 .. t - 1, Matches(s, u) PROVE FALSE
        OBVIOUS
      <3>1. u \in Nat /\ u > now /\ u < t
        BY <2>1
      <3>2. u = t \/ u >= At(foll + s.day - 1, s.hour)
        BY <1>7, <3>1 DEF t
      <3> QED  BY <2>1, <2>2, <3>1, <3>2
    <2> QED  BY <1>2, <1>3, <1>6, <1>8, <2>1, <2>3 DEF IsNext, DayLength, HourLength
  <1>9. CASE ~(At(this + s.day - 1, s.hour) > now)
    <2> DEFINE t == At(foll + s.day - 1, s.hour)
               v == At(this + s.day - 1, s.hour)
    <2>0. v \in Nat /\ t \in Nat /\ t = v + (foll - this) * DayLength /\ t > now
      <3>1. /\ s.hour \in Nat /\ this + s.day - 1 \in Nat /\ foll + s.day - 1 \in Nat
            /\ foll + s.day - 1 = (this + s.day - 1) + (foll - this)
            /\ foll + s.day - 1 >= Day(now) + 1
        BY <1>1, <1>4, <1>5
      <3>2. ASSUME NEW d \in Nat, NEW e \in Nat, e >= Day(now) + 1, NEW k \in Int, e = d + k
            PROVE  /\ At(d, s.hour) \in Nat /\ At(e, s.hour) \in Nat
                   /\ At(e, s.hour) = At(d, s.hour) + k * DayLength
                   /\ At(e, s.hour) > now
        BY <1>5, <3>1, <3>2 DEF At, DayLength, HourLength
      <3> QED  BY <1>4, <3>1, <3>2
    <2>1. v \in Nat /\ t \in Nat /\ v <= now /\ t > now /\ t <= now + 31 * DayLength
      <3>1. v <= now
        BY <1>9, <2>0
      <3> HIDE DEF t, v
      <3> QED  BY <1>4, <2>0, <3>1 DEF DayLength, HourLength
    <2>2. \A u \in now + 1 .. t - 1 : ~Matches(s, u)
      <3> SUFFICES ASSUME NEW u \in now + 1 .. t - 1, Matches(s, u) PROVE FALSE
        OBVIOUS
      <3> HIDE DEF t, v
      <3>1. u \in Nat /\ u > now /\ u < t
        BY <2>1
      <3>2. u = v \/ u >= t
        BY <1>7, <3>1 DEF t, v
      <3> QED  BY <2>1, <3>1, <3>2
    <2> QED  BY <1>2, <1>3, <1>6, <1>9, <2>1, <2>2 DEF IsNext, DayLength, HourLength
  <1> QED  BY <1>8, <1>9

\* A weekly schedule lands on its weekday.
LEMMA WeekdayIsNext ==
  ASSUME NEW s \in NextWeekday, NEW now \in Nat
  PROVE  /\ WeekdayNext(s.dow, now) \in now + DayLength .. now + 7 * DayLength
         /\ Matches(s, WeekdayNext(s.dow, now))
  <1> DEFINE rem == (s.dow - UnixDow(Day(now))) % 7
             ahead == IF rem = 0 THEN 7 ELSE rem
  <1>1. s.kind = "weekday" /\ s.dow \in 0 .. 6
    BY DEF NextWeekday
  <1>2. Day(now) \in Nat
    BY Clockwork
  <1>3. ahead \in 1 .. 7 /\ UnixDow(Day(now) + ahead) = s.dow
    BY <1>1, <1>2 DEF UnixDow
  <1>4. WeekdayNext(s.dow, now) = now + ahead * DayLength
    BY DEF WeekdayNext
  <1> HIDE DEF ahead
  <1>5. Day(now + ahead * DayLength) = Day(now) + ahead
    BY <1>3 DEF Day, DayLength, HourLength
  <1> QED  BY <1>1, <1>3, <1>4, <1>5 DEF Matches, DayLength, HourLength

-----------------------------------------------------------------------------

\* The next run was computed from the time of this one.
Computed ==
  /\ schedule \in AllSchedules
  /\ asOf \in Nat /\ Day(asOf) \in Days
  /\ next = NextRun(schedule, asOf)

\* How far away a computed run is, by the kind of the schedule.
LEMMA Distances ==
  ASSUME NEW s \in AllSchedules, NEW now \in Nat, Day(now) \in Days
  PROVE  /\ NextRun(s, now) \in now - 59 .. now + 31 * DayLength
         /\ s.kind # "hours" => NextRun(s, now) > now
  <1> DEFINE t == NextRun(s, now)
  <1>1. CASE s \in EveryMinutes
    <2>1. s.kind = "minutes" /\ s.n \in 1 .. 59
      BY <1>1 DEF EveryMinutes
    <2>2. t = MinutesNext(s.n, now)
      BY <2>1 DEF NextRun
    <2>3. t \in now + 1 .. now + 60
      BY <2>1, <2>2, MinutesAhead
    <2> HIDE DEF t
    <2>4. t \in now - 59 .. now + 31 * DayLength /\ t > now
      BY <2>3 DEF DayLength, HourLength
    <2> QED  BY <2>4 DEF t
  <1>2. CASE s \in EveryHours
    <2>1. s.kind = "hours" /\ s.n \in 1 .. 23
      BY <1>2 DEF EveryHours
    <2>2. t = HoursNext(s.n, now)
      BY <2>1 DEF NextRun
    <2>3. t \in now - 59 .. now + DayLength
      BY <2>1, <2>2, HoursAround
    <2> HIDE DEF t
    <2>4. t \in now - 59 .. now + 31 * DayLength
      BY <2>3 DEF DayLength, HourLength
    <2> QED  BY <2>1, <2>4 DEF t
  <1>3. CASE s \in OnWeekdays
    <2>1. s.kind = "dow"
      BY <1>3 DEF OnWeekdays
    <2>2. t = DowNext(s.dow, s.hour, now)
      BY <2>1 DEF NextRun
    <2>3. t \in now + 1 .. now + 7 * DayLength
      BY <1>3, <2>2, DowIsNext
    <2> HIDE DEF t
    <2>4. t \in now - 59 .. now + 31 * DayLength /\ t > now
      BY <2>3 DEF DayLength, HourLength
    <2> QED  BY <2>4 DEF t
  <1>4. CASE s \in OnDayOfMonth
    <2>1. s.kind = "dom"
      BY <1>4 DEF OnDayOfMonth
    <2>2. t = DomNext(s.day, s.hour, now)
      BY <2>1 DEF NextRun
    <2>3. t \in now + 1 .. now + 31 * DayLength
      BY <1>4, <2>2, DomIsNext
    <2> HIDE DEF t
    <2>4. t \in now - 59 .. now + 31 * DayLength /\ t > now
      BY <2>3 DEF DayLength, HourLength
    <2> QED  BY <2>4 DEF t
  <1>5. CASE s \in AfterDays
    <2>1. s.kind = "after" /\ s.days \in {1, 7, 30}
      BY <1>5 DEF AfterDays
    <2>2. t = now + s.days * DayLength
      BY <2>1 DEF NextRun
    <2> QED  BY <2>1, <2>2 DEF DayLength, HourLength
  <1>6. CASE s \in NextWeekday
    <2>1. s.kind = "weekday"
      BY <1>6 DEF NextWeekday
    <2>2. t = WeekdayNext(s.dow, now)
      BY <2>1 DEF NextRun
    <2>3. t \in now + DayLength .. now + 7 * DayLength
      BY <1>6, <2>2, WeekdayIsNext
    <2> HIDE DEF t
    <2>4. t \in now - 59 .. now + 31 * DayLength /\ t > now
      BY <2>3 DEF DayLength, HourLength
    <2> QED  BY <2>4 DEF t
  <1> QED  BY <1>1, <1>2, <1>3, <1>4, <1>5, <1>6 DEF AllSchedules

\* Up to the next multiple of n.
LEMMA RoundedUp ==
  ASSUME NEW n \in Nat \ {0}, NEW x \in Nat, NEW y,
         y = IF x % n = 0 THEN x ELSE x + (n - (x % n))
  PROVE  /\ y \in Nat /\ x <= y /\ y % n = 0
         /\ \A v \in x .. y - 1 : v % n # 0
  <1> DEFINE q == x \div n
             r == x % n
  <1>1. q \in Nat /\ r \in 0 .. n - 1 /\ x = n * q + r
    OBVIOUS
  <1>2. CASE r = 0
    BY <1>1, <1>2
  <1>3. CASE r # 0
    <2>1. y = x + (n - r)
      BY <1>3
    <2> HIDE DEF q, r
    <2>2. y = n * (q + 1) /\ y \in Nat /\ x <= y
      BY <1>1, <2>1
    <2>3. y % n = 0
      BY <1>1, <2>2
    <2>4. ASSUME NEW v \in x .. y - 1, v % n = 0 PROVE FALSE
      <3>1. PICK k \in Nat : v = n * k
        <4>1. v \in Nat /\ (v \div n) \in Nat /\ v = n * (v \div n) + (v % n)
          BY <2>2
        <4> QED  BY <4>1, <2>4
      <3>2. n * q < n * k /\ n * k < n * (q + 1)
        BY <1>1, <1>3, <2>1, <2>2, <3>1
      <3>3. q < k /\ k < q + 1
        BY <1>1, <3>2
      <3> QED  BY <1>1, <3>3
    <2> QED  BY <2>2, <2>3, <2>4
  <1> QED  BY <1>1, <1>2, <1>3

\* A remainder after a multiple.
LEMMA ThroughMultiples ==
  ASSUME NEW n \in Nat \ {0}, NEW m \in Nat \ {0}, m % n = 0, NEW x \in Nat
  PROVE  (x % m) % n = x % n
  <1> DEFINE q == x \div m
             r == x % m
             s == r \div n
             t == r % n
             k == m \div n
  <1>1. q \in Nat /\ r \in 0 .. m - 1 /\ x = m * q + r
    OBVIOUS
  <1>2. s \in Nat /\ t \in 0 .. n - 1 /\ r = n * s + t
    BY <1>1
  <1>3. k \in Nat /\ m = n * k
    OBVIOUS
  <1> HIDE DEF q, r, s, t, k
  <1>4. x = n * (k * q + s) + t /\ k * q + s \in Nat
    BY <1>1, <1>2, <1>3
  <1>5. x % n = t
    <2> DEFINE j == k * q + s
               a == x \div n
               b == x % n
    <2>1. a \in Nat /\ b \in 0 .. n - 1 /\ x = n * a + b
      OBVIOUS
    <2>2. j \in Nat /\ x = n * j + t
      BY <1>4
    <2> HIDE DEF j, a, b
    <2>3. ~(a < j)
      <3>1. a < j => n * (a + 1) <= n * j
        BY <2>1, <2>2
      <3> QED  BY <1>2, <2>1, <2>2, <3>1
    <2>4. ~(j < a)
      <3>1. j < a => n * (j + 1) <= n * a
        BY <2>1, <2>2
      <3> QED  BY <1>2, <2>1, <2>2, <3>1
    <2>5. a = j
      BY <2>1, <2>2, <2>3, <2>4
    <2> QED  BY <1>2, <2>1, <2>2, <2>5 DEF b
  <1> QED  BY <1>5 DEF t, r

\* A time is in an hour.
LEMMA HourOfTime ==
  ASSUME NEW u \in Nat
  PROVE  u = HourLength * (u \div HourLength) + Minute(u) /\ u \div HourLength \in Nat
         /\ Minute(u) \in 0 .. 59
  BY DEF Minute, HourLength

\* A step that divides the hour comes at every multiple.
LEMMA MinutesAreNext ==
  ASSUME NEW now \in Nat, NEW s \in EveryMinutes, 60 % s.n = 0
  PROVE  IsNext(s, now, MinutesNext(s.n, now))
  <1> DEFINE n == s.n
             x == now + 1
             y == MinutesNext(n, now)
  <1>1. s.kind = "minutes" /\ n \in 1 .. 59 /\ x \in Nat
    BY DEF EveryMinutes
  <1>2. y = IF Minute(x) % n = 0 THEN x ELSE x + (n - (Minute(x) % n))
    BY DEF MinutesNext
  <1>3. 60 % n = 0
    OBVIOUS
  <1> HIDE DEF n, x, y
  <1>4. \A u \in Nat : Minute(u) % n = u % n
    <2>1. n \in Nat \ {0} /\ 60 \in Nat \ {0}
      BY <1>1
    <2>2. \A u \in Nat : (u % 60) % n = u % n
      BY <1>3, <2>1, ThroughMultiples, Zenon
    <2> QED  BY <2>2 DEF Minute, HourLength
  <1>5. y = IF x % n = 0 THEN x ELSE x + (n - (x % n))
    BY <1>1, <1>2, <1>4
  <1>6. y \in Nat /\ x <= y /\ y % n = 0 /\ \A u \in x .. y - 1 : u % n # 0
    <2>1. n \in Nat \ {0}
      BY <1>1
    <2> QED  BY <1>1, <1>5, <2>1, RoundedUp, Zenon
  <1>7. \A u \in Nat : Matches(s, u) <=> u % n = 0
    BY <1>1, <1>4 DEF Matches, n
  <1> QED  BY <1>1, <1>6, <1>7 DEF IsNext, x, y, n

\* So does one that divides the day, if it is not past.
LEMMA HoursAreNext ==
  ASSUME NEW now \in Nat, NEW s \in EveryHours, 24 % s.n = 0, HoursNext(s.n, now) > now
  PROVE  IsNext(s, now, HoursNext(s.n, now))
  <1> DEFINE n == s.n
             x == (now + 1) \div HourLength
             t == HoursNext(n, now)
             y == IF x % n = 0 THEN x ELSE x + (n - (x % n))
  <1>1. s.kind = "hours" /\ n \in 1 .. 23 /\ x \in Nat /\ HourLength * x <= now + 1
        /\ now + 1 < HourLength * (x + 1)
    BY DEF EveryHours, HourLength
  <1>2. \A h \in Nat : Hour(HourLength * h) = h % 24 /\ Minute(HourLength * h) = 0
    BY DEF Hour, Minute, HourLength
  <1>3. 24 % n = 0 /\ t > now
    OBVIOUS
  <1> HIDE DEF n
  <1>4. \A h \in Nat : (h % 24) % n = h % n
    <2>1. n \in Nat \ {0} /\ 24 \in Nat \ {0}
      BY <1>1
    <2> QED  BY <1>3, <2>1, ThroughMultiples, Zenon
  <1>5. t = HourLength * y
    <2>1. Hour(x * HourLength) % n = x % n
      <3> HIDE DEF x
      <3>1. x * HourLength = HourLength * x
        BY <1>1 DEF HourLength
      <3>2. Hour(HourLength * x) = x % 24 /\ (x % 24) % n = x % n
        BY <1>1, <1>2, <1>4
      <3> QED  BY <3>1, <3>2
    <2>2. t = IF x % n = 0 THEN x * HourLength ELSE x * HourLength + (n - (x % n)) * HourLength
      BY <2>1 DEF HoursNext
    <2>3. x % n \in Nat
      BY <1>1
    <2> HIDE DEF x, t
    <2> QED  BY <1>1, <2>2, <2>3 DEF HourLength
  <1> HIDE DEF t
  <1>6. y \in Nat /\ x <= y /\ y % n = 0 /\ \A h \in x .. y - 1 : h % n # 0
    <2> HIDE DEF x
    <2>1. n \in Nat \ {0} /\ x \in Nat
      BY <1>1
    <2>2. y = IF x % n = 0 THEN x ELSE x + (n - (x % n))
      OBVIOUS
    <2> HIDE DEF y
    <2> QED  BY <2>1, <2>2, RoundedUp, Zenon
  <1> HIDE DEF x, y
  <1>7. \A u \in Nat : Matches(s, u) <=> Minute(u) = 0 /\ (u \div HourLength) % n = 0
    <2> TAKE u \in Nat
    <2>1. Hour(u) % n = (u \div HourLength) % n
      BY <1>4 DEF Hour, HourLength
    <2> QED  BY <1>1, <2>1 DEF Matches, n
  <1>8. t \in Nat /\ Matches(s, t)
    <2>1. t \in Nat /\ t \div HourLength = y /\ Minute(t) = 0
      BY <1>5, <1>6 DEF HourLength, Minute
    <2> QED  BY <1>6, <1>7, <2>1
  <1>9. ASSUME NEW u \in now + 1 .. t - 1, Matches(s, u) PROVE FALSE
    <2>1. u \in Nat /\ u > now /\ u < t
      BY <1>8
    <2> DEFINE h == u \div HourLength
    <2>2. h \in Nat /\ u = HourLength * h /\ h % n = 0
      BY <1>7, <1>9, <2>1, HourOfTime DEF HourLength
    <2> HIDE DEF h
    <2>3. x <= h /\ h < y
      BY <1>1, <1>5, <1>6, <2>1, <2>2 DEF HourLength
    <2> QED  BY <1>1, <1>6, <2>2, <2>3
  <1> QED  BY <1>3, <1>8, <1>9 DEF IsNext, t, n

\* The invariant of a run: the next one is always computed from the time of
\* this one.
LEMMA ComputedStep == Computed /\ [CronNext]_cronVars => Computed'
  <1>1. CASE CronNext
    <2> SUFFICES ASSUME Computed, Run PROVE Computed'
      BY <1>1 DEF CronNext
    <2>1. PICK late \in Lateness :
            /\ Day((IF next > asOf THEN next ELSE asOf) + late) \in Days
            /\ asOf' = (IF next > asOf THEN next ELSE asOf) + late
            /\ next' = NextRun(schedule, asOf')
            /\ schedule' = schedule
      BY DEF Run
    <2>2. late \in Nat
      BY CronAssumption
    <2>3. next \in Int
      BY Distances DEF Computed, DayLength, HourLength
    <2>4. asOf' \in Nat /\ Day(asOf') \in Days
      BY <2>1, <2>2, <2>3 DEF Computed
    <2> QED  BY <2>1, <2>4 DEF Computed, Day, Days
  <1>2. CASE UNCHANGED cronVars
    BY <1>2 DEF cronVars, Computed, Day, Days
  <1> QED  BY <1>1, <1>2

\* It holds when the schedule is created.
LEMMA ComputedInit == CronInit => Computed
  <1> SUFFICES ASSUME CronInit PROVE Computed
    OBVIOUS
  <1>1. PICK c \in Created : schedule = c[1] /\ asOf = c[2]
    BY DEF CronInit
  <1>2. c \in AllSchedules \X {t \in Nat : Day(t) \in Days}
    BY CronAssumption
  <1>3. schedule \in AllSchedules /\ asOf \in Nat /\ Day(asOf) \in Days
    BY <1>1, <1>2
  <1> QED  BY <1>3 DEF CronInit, Computed

(***************************************************************************)
(* The next run is never more than a month away, nor more than an hour     *)
(* back.                                                                   *)
(***************************************************************************)
THEOREM CronTypeCorrect == CronSpec => []CronTypeOK
  <1>1. Computed => CronTypeOK
    BY Distances DEF Computed, CronTypeOK
  <1> QED  BY <1>1, ComputedInit, ComputedStep, PTL DEF CronSpec

(***************************************************************************)
(* What Scheduler assumes of a next run: it lies in the future, for every  *)
(* pattern but the hourly ones.                                            *)
(***************************************************************************)
THEOREM RunsAreLater == CronSpec => []NextRunIsLater
  <1>1. Computed => NextRunIsLater
    BY Distances DEF Computed, NextRunIsLater
  <1> QED  BY <1>1, ComputedInit, ComputedStep, PTL DEF CronSpec

(***************************************************************************)
(* The patterns with a fixed hour run at the first match, in any calendar  *)
(* whose months have 28 to 31 days.                                        *)
(***************************************************************************)
THEOREM FixedHoursAreExact == CronSpec => []FixedHoursAreNext
  <1>1. Computed => FixedHoursAreNext
    <2> SUFFICES ASSUME Computed, schedule.kind \in {"dow", "dom"}
                 PROVE  IsNext(schedule, asOf, next)
      BY DEF FixedHoursAreNext
    <2>1. schedule \in OnWeekdays \/ schedule \in OnDayOfMonth
      BY DEF Computed, AllSchedules, EveryMinutes, EveryHours, AfterDays, NextWeekday
    <2>2. CASE schedule \in OnWeekdays
      <3>1. next = DowNext(schedule.dow, schedule.hour, asOf)
        BY <2>2 DEF Computed, NextRun, OnWeekdays
      <3> QED  BY <2>2, <3>1, DowIsNext DEF Computed
    <2>3. CASE schedule \in OnDayOfMonth
      <3>1. next = DomNext(schedule.day, schedule.hour, asOf)
        BY <2>3 DEF Computed, NextRun, OnDayOfMonth
      <3> QED  BY <2>3, <3>1, DomIsNext DEF Computed
    <2> QED  BY <2>1, <2>2, <2>3
  <1> QED  BY <1>1, ComputedInit, ComputedStep, PTL DEF CronSpec

(***************************************************************************)
(* Steps that divide the hour, or the day, run at every multiple: for any  *)
(* such step and any time, the next run is the first match, unless an      *)
(* hourly one is already past.                                             *)
(***************************************************************************)
THEOREM DividingStepsAreExact == CronSpec => []DividingStepsAreNext
  <1>1. Computed => DividingStepsAreNext
    <2> SUFFICES ASSUME Computed
                 PROVE  DividingStepsAreNext
      OBVIOUS
    <2>1. ASSUME schedule.kind = "minutes", 60 % schedule.n = 0
          PROVE  IsNext(schedule, asOf, next)
      <3>1. schedule \in EveryMinutes
        BY <2>1 DEF Computed, AllSchedules, EveryHours, OnWeekdays, OnDayOfMonth, AfterDays,
                    NextWeekday
      <3>2. next = MinutesNext(schedule.n, asOf) /\ asOf \in Nat
        BY <2>1 DEF Computed, NextRun
      <3> QED  BY <2>1, <3>1, <3>2, MinutesAreNext
    <2>2. ASSUME schedule.kind = "hours", 24 % schedule.n = 0, next > asOf
          PROVE  IsNext(schedule, asOf, next)
      <3>1. schedule \in EveryHours
        BY <2>2 DEF Computed, AllSchedules, EveryMinutes, OnWeekdays, OnDayOfMonth, AfterDays,
                    NextWeekday
      <3>2. next = HoursNext(schedule.n, asOf) /\ asOf \in Nat
        BY <2>2 DEF Computed, NextRun
      <3> QED  BY <2>2, <3>1, <3>2, HoursAreNext
    <2> QED  BY <2>1, <2>2 DEF DividingStepsAreNext
  <1> QED  BY <1>1, ComputedInit, ComputedStep, PTL DEF CronSpec

(***************************************************************************)
(* A weekly schedule without an expression keeps to its weekday.           *)
(***************************************************************************)
THEOREM WeekliesAreExact == CronSpec => []WeeklyOnItsDay
  <1>1. Computed => WeeklyOnItsDay
    <2> SUFFICES ASSUME Computed, schedule.kind = "weekday"
                 PROVE  Matches(schedule, next) /\ next - asOf \in 1 .. 7 * DayLength
      BY DEF WeeklyOnItsDay
    <2>1. schedule \in NextWeekday
      BY DEF Computed, AllSchedules, EveryMinutes, EveryHours, AfterDays, OnWeekdays,
             OnDayOfMonth
    <2>2. next = WeekdayNext(schedule.dow, asOf)
      BY DEF Computed, NextRun
    <2>3. next \in asOf + DayLength .. asOf + 7 * DayLength /\ Matches(schedule, next)
      BY <2>1, <2>2, WeekdayIsNext DEF Computed
    <2>4. next - asOf \in 1 .. 7 * DayLength
      <3>1. asOf \in Nat
        BY DEF Computed
      <3>2. ASSUME NEW c \in Nat, NEW t \in c + DayLength .. c + 7 * DayLength
            PROVE  t - c \in 1 .. 7 * DayLength
        BY DEF DayLength, HourLength
      <3> QED  BY <2>3, <3>1, <3>2
    <2> QED  BY <2>3, <2>4
  <1> QED  BY <1>1, ComputedInit, ComputedStep, PTL DEF CronSpec

\* Both together, in every calendar.
THEOREM FixedTimesAreExact == CronSpec => []FixedTimesAreNext
  BY FixedHoursAreExact, WeekliesAreExact, PTL DEF FixedTimesAreNext

(***************************************************************************)
(* No run is skipped and none repeated: the next one is later, and the     *)
(* first at a fixed time or at a multiple of a dividing step.              *)
(***************************************************************************)
THEOREM NextRunsAreExact == CronSpec => []NextRunIsExact
  BY RunsAreLater, FixedTimesAreExact, DividingStepsAreExact, PTL DEF NextRunIsExact

-----------------------------------------------------------------------------
(***************************************************************************)
(* The scheduler.                                                          *)
(***************************************************************************)

USE SchedulerAssumption

(***************************************************************************)
(* Type correctness.  It needs to know what a thread that is between the   *)
(* steps of a run works for.                                               *)
(***************************************************************************)
WorksForSomething ==
  \A k \in Threads :
    /\ thr[k].pc = "idle" => thr[k] = Idle
    /\ thr[k].pc \notin {"idle", "next"} => thr[k].cur \in Ids

Typed == TypeOK /\ WorksForSomething

\* A new row, and a thread that is sent to another label, keep their types.
LEMMA RowAndLabel ==
  ASSUME Typed
  PROVE  /\ Idle \in ThreadStates
         /\ \A kind \in Kinds \cup {"plain"}, p \in Periods :
              NewRow(kind, p) \in Schedules
         /\ \A k \in Threads, label \in Labels \ {"idle", "next"} :
              thr[k].pc \notin {"idle", "next"} /\ Goto(k, label)
                => /\ thr' \in [Threads -> ThreadStates]
                   /\ WorksForSomething'
         /\ \A k \in Threads :
              thr' = [thr EXCEPT ![k] = Idle]
                => /\ thr' \in [Threads -> ThreadStates]
                   /\ WorksForSomething'
         /\ \A k \in Threads :
              thr[k].pc \notin {"idle", "next"} /\ Onwards(k)
                => /\ thr' \in [Threads -> ThreadStates]
                   /\ WorksForSomething'
  <1>0. thr \in [Threads -> ThreadStates] /\ WorksForSomething /\ clock \in Nat
    BY DEF Typed, TypeOK
  <1> USE DEF ThreadStates, Labels
  <1>1. Idle \in ThreadStates
    BY DEF Idle
  <1>2. \A kind \in Kinds \cup {"plain"}, p \in Periods :
          NewRow(kind, p) \in Schedules
    BY <1>0 DEF NewRow, Schedules
  <1>3. ASSUME NEW k \in Threads, NEW label \in Labels \ {"idle", "next"},
               thr[k].pc \notin {"idle", "next"}, Goto(k, label)
        PROVE  thr' \in [Threads -> ThreadStates] /\ WorksForSomething'
    BY <1>0, <1>3 DEF Goto, WorksForSomething
  <1>4. ASSUME NEW k \in Threads, thr' = [thr EXCEPT ![k] = Idle]
        PROVE  thr' \in [Threads -> ThreadStates] /\ WorksForSomething'
    BY <1>0, <1>4 DEF Idle, WorksForSomething
  <1>5. ASSUME NEW k \in Threads, thr[k].pc \notin {"idle", "next"}, Onwards(k)
        PROVE  thr' \in [Threads -> ThreadStates] /\ WorksForSomething'
    BY <1>0, <1>5 DEF Idle, Onwards, WorksForSomething
  <1> QED  BY <1>1, <1>2, <1>3, <1>4, <1>5

\* A fault stays within its bound.
LEMMA FaultTyped ==
  ASSUME TypeOK, Fault
  PROVE  /\ clock' \in 0 .. MaxClock /\ faults' \in 0 .. MaxFaults
         /\ manual' \in 0 .. MaxManual /\ crashed' \in BOOLEAN
  BY DEF TypeOK, Fault

\* Rewriting the rows of a sequence gives a sequence.
LEMMA SameLength ==
  ASSUME NEW S, NEW s \in Seq(S), NEW t \in [DOMAIN s -> S]
  PROVE  t \in Seq(S)
  OBVIOUS

-----------------------------------------------------------------------------
\* The routes.
LEMMA RoutesTyped ==
  ASSUME Typed, NEW i \in Ids
  PROVE  /\ \A kind \in Kinds, p \in Periods : Create(i, kind, p) => Typed'
         /\ Pause(i) \/ Resume(i) \/ Delete(i) => Typed'
         /\ \A u \in Users : RunNow(u, i) => Typed'
  <1>0. /\ sched \in [Ids -> Schedules] /\ runs \in Seq(RunRows)
        /\ thr \in [Threads -> ThreadStates] /\ manual \in 0 .. MaxManual
        /\ WorksForSomething
    BY DEF Typed, TypeOK
  <1>1. ASSUME NEW kind \in Kinds, NEW p \in Periods, Create(i, kind, p)
        PROVE  Typed'
    <2>1. sched' \in [Ids -> Schedules]
      BY <1>0, <1>1, RowAndLabel DEF Create
    <2> QED  BY <1>1, <2>1 DEF Typed, TypeOK, Create, env, WorksForSomething
  <1>2. ASSUME Pause(i) \/ Resume(i) PROVE Typed'
    <2>1. \A b \in BOOLEAN : [sched[i] EXCEPT !.enabled = b] \in Schedules
      BY <1>0 DEF Schedules
    <2>2. sched' \in [Ids -> Schedules]
      BY <1>0, <1>2, <2>1 DEF Pause, Resume
    <2> QED  BY <1>2, <2>2 DEF Typed, TypeOK, Pause, Resume, env, WorksForSomething
  <1>3. ASSUME Delete(i) PROVE Typed'
    <2>1. sched' \in [Ids -> Schedules]
      BY <1>0, <1>3 DEF Delete, Schedules
    <2>2. runs' \in [DOMAIN runs -> RunRows]
      <3>1. \A r \in DOMAIN runs : runs[r] \in RunRows
        BY <1>0
      <3>2. \A row \in RunRows : [row EXCEPT !.status = "deleted"] \in RunRows
        BY DEF RunRows
      <3> QED  BY <1>3, <3>1, <3>2 DEF Delete
    <2>3. runs' \in Seq(RunRows)
      BY <1>0, <2>2, SameLength
    <2> QED  BY <1>3, <2>1, <2>3 DEF Typed, TypeOK, Delete, env, WorksForSomething
  <1>4. ASSUME NEW u \in Users, RunNow(u, i) PROVE Typed'
    <2>1. thr' \in [Threads -> ThreadStates] /\ WorksForSomething'
      BY <1>0, <1>4 DEF RunNow, ThreadStates, Labels, Threads, WorksForSomething, Idle
    <2>2. manual' \in 0 .. MaxManual
      BY <1>0, <1>4 DEF RunNow
    <2> QED  BY <1>4, <2>1, <2>2 DEF Typed, TypeOK, RunNow, rows
  <1> QED  BY <1>1, <1>2, <1>3, <1>4

\* A tick that does not work on a schedule.
LEMMA TickTyped ==
  ASSUME Typed, NEW k \in Threads
  PROVE  /\ k \in Tickers /\ TickStart(k) => Typed'
         /\ AllDone(k) \/ AdvanceFails(k) => Typed'
         /\ \A d \in thr[k].due, p \in Periods : Advance(k, d, p) => Typed'
  <1>0. /\ sched \in [Ids -> Schedules] /\ clock \in Nat
        /\ thr \in [Threads -> ThreadStates]
        /\ WorksForSomething
    BY DEF Typed, TypeOK, Threads
  <1>1. ASSUME k \in Tickers, TickStart(k) PROVE Typed'
    <2>1. {<<i, sched[i].next>> : i \in {j \in Ids : Due(j)}} \in SUBSET (Ids \X Nat)
      BY <1>0 DEF Schedules
    <2>2. thr' \in [Threads -> ThreadStates] /\ WorksForSomething'
      BY <1>0, <1>1, <2>1 DEF TickStart, ThreadStates, Labels, WorksForSomething, Idle
    <2> QED  BY <1>1, <2>2 DEF Typed, TypeOK, TickStart, rows, env
  <1>2. ASSUME AllDone(k) PROVE Typed'
    <2>1. thr' \in [Threads -> ThreadStates] /\ WorksForSomething'
      BY <1>0, <1>2, RowAndLabel DEF AllDone, TickEnd
    <2> QED  BY <1>2, <2>1 DEF Typed, TypeOK, AllDone, TickEnd, rows, env
  <1>3. ASSUME AdvanceFails(k) PROVE Typed'
    <2>1. thr' \in [Threads -> ThreadStates] /\ WorksForSomething'
      BY <1>0, <1>3, RowAndLabel DEF AdvanceFails, TickAborts, TickEnd
    <2> QED
      BY <1>3, <2>1, FaultTyped
      DEF Typed, TypeOK, AdvanceFails, TickAborts, TickEnd, rows
  <1>4. ASSUME NEW d \in thr[k].due, NEW p \in Periods, Advance(k, d, p)
        PROVE  Typed'
    <2>1. d[1] \in Ids /\ d[2] \in Nat /\ thr[k].due \in SUBSET (Ids \X Nat)
      BY <1>0 DEF ThreadStates
    <2>2. thr' \in [Threads -> ThreadStates] /\ WorksForSomething'
      BY <1>0, <1>4, <2>1 DEF Advance, ThreadStates, Labels, WorksForSomething, Idle
    <2>3. [sched[d[1]] EXCEPT !.next = clock + p] \in Schedules
      BY <1>0, <2>1 DEF Schedules
    <2>4. sched' \in [Ids -> Schedules]
      BY <1>0, <1>4, <2>1, <2>3 DEF Advance
    <2> QED  BY <1>4, <2>2, <2>4 DEF Typed, TypeOK, Advance, env
  <1> QED  BY <1>1, <1>2, <1>3, <1>4

-----------------------------------------------------------------------------
\* The steps of one run.
LEMMA RunTyped ==
  ASSUME Typed, NEW k \in Threads
  PROVE  /\ RecordRun(k) \/ RecordRunFails(k) => Typed'
         /\ Work(k) \/ WorkRaises(k) => Typed'
         /\ \A j \in Ids, p \in Periods : WorkRearms(k, j, p) => Typed'
         /\ Settle(k) \/ SettleFails(k) => Typed'
         /\ Except(k) \/ ExceptFails(k) => Typed'
         /\ CloseRow(k) \/ CloseRowFails(k) => Typed'
  <1>0. /\ sched \in [Ids -> Schedules] /\ runs \in Seq(RunRows)
        /\ thr \in [Threads -> ThreadStates] /\ WorksForSomething
        /\ thr[k].pc \notin {"idle", "next"} => thr[k].cur \in Ids
        /\ ran \in [Ids -> Seq(Nat)]
    BY DEF Typed, TypeOK, WorksForSomething
  <1>1. ASSUME Started(k), thr[k].cur \in Ids PROVE ran' \in [Ids -> Seq(Nat)]
    <2>1. thr[k].slot \in Nat
      BY <1>0 DEF ThreadStates
    <2>2. Append(ran[thr[k].cur], thr[k].slot) \in Seq(Nat)
      BY <1>0, <1>1, <2>1
    <2> QED  BY <1>0, <1>1, <2>2 DEF Started
  <1>2. ASSUME CountRun(k), thr[k].cur \in Ids PROVE sched' \in [Ids -> Schedules]
    <2>1. \A s \in Schedules : [s EXCEPT !.runCount = @ + 1] \in Schedules
      BY DEF Schedules
    <2> QED  BY <1>0, <1>2, <2>1 DEF CountRun
  <1>3. ASSUME NEW did \in BOOLEAN, thr[k].pc = "work",
               thr' = [thr EXCEPT ![k].pc = "settle", ![k].did = did]
        PROVE  thr' \in [Threads -> ThreadStates] /\ WorksForSomething'
    <2>1. \A t \in ThreadStates :
            [t EXCEPT !.pc = "settle", !.did = did] \in ThreadStates
      BY DEF ThreadStates, Labels
    <2>2. thr' \in [Threads -> ThreadStates]
      BY <1>0, <1>3, <2>1
    <2>3. \A v \in Threads : /\ thr'[v].cur = thr[v].cur
                             /\ v # k => thr'[v] = thr[v]
                             /\ v = k => thr'[v].pc = "settle"
      BY <1>0, <1>3 DEF ThreadStates
    <2> QED  BY <1>0, <1>3, <2>2, <2>3 DEF WorksForSomething
  <1>4. DoesWork(k) \in BOOLEAN
    <2>1. CASE k \in Tickers
      BY <2>1 DEF DoesWork
    <2>2. CASE k \notin Tickers
      BY <2>2 DEF DoesWork
    <2> QED  BY <2>1, <2>2
  <1>5. ASSUME NEW status \in {"completed", "failed"}, MarkRow(k, status)
        PROVE  runs' \in Seq(RunRows)
    <2>1. \A r \in DOMAIN runs : runs[r] \in RunRows
      BY <1>0
    <2>2. thr[k].did \in BOOLEAN
      BY <1>0 DEF ThreadStates
    <2>3. \A row \in RunRows :
            [row EXCEPT !.status = status, !.worked = thr[k].did] \in RunRows
      BY <2>2 DEF RunRows
    <2>4. runs' \in [DOMAIN runs -> RunRows]
      BY <1>5, <2>1, <2>3 DEF MarkRow
    <2> QED  BY <1>0, <2>4, SameLength
  <1>6. ASSUME RecordRun(k) PROVE Typed'
    <2>1. CASE ~Live(thr[k].cur)
      <3>1. Goto(k, "work") /\ thr[k].pc = "record"
        BY <1>6, <2>1 DEF RecordRun
      <3>2. thr' \in [Threads -> ThreadStates] /\ WorksForSomething'
        BY <3>1, RowAndLabel DEF Labels
      <3> QED  BY <1>6, <2>1, <3>2 DEF Typed, TypeOK, RecordRun, env
    <2>2. CASE Live(thr[k].cur)
      <3>1. thr' = [thr EXCEPT ![k].pc = "work", ![k].run = Len(runs) + 1]
        BY <1>6, <2>2 DEF RecordRun
      <3>2. Len(runs) + 1 \in Nat
        BY <1>0
      <3>3. \A t \in ThreadStates, n \in Nat :
              [t EXCEPT !.pc = "work", !.run = n] \in ThreadStates
        BY DEF ThreadStates, Labels
      <3>4. thr' \in [Threads -> ThreadStates]
        BY <1>0, <3>1, <3>2, <3>3
      <3>5. \A v \in Threads : /\ thr'[v].cur = thr[v].cur
                               /\ v # k => thr'[v] = thr[v]
                               /\ v = k => thr'[v].pc = "work"
        BY <1>0, <3>1 DEF ThreadStates
      <3>6. WorksForSomething'
        BY <1>0, <1>6, <3>5 DEF RecordRun, WorksForSomething
      <3> DEFINE row == [sched |-> thr[k].cur, status |-> "running",
                         tick |-> k \in Tickers, worked |-> FALSE]
      <3>7. row \in RunRows
        BY <1>0, <1>6 DEF RecordRun, RunRows
      <3>8. runs' = Append(runs, row)
        BY <1>6, <2>2 DEF RecordRun
      <3> HIDE DEF row
      <3>9. runs' \in Seq(RunRows)
        BY <1>0, <3>7, <3>8
      <3> QED  BY <1>6, <2>2, <3>4, <3>6, <3>9 DEF Typed, TypeOK, RecordRun, env
    <2> QED  BY <2>1, <2>2
  <1>7. ASSUME RecordRunFails(k) \/ SettleFails(k) PROVE Typed'
    <2>1. PICK label \in {"work", "except"} :
            Goto(k, label) /\ thr[k].pc \notin {"idle", "next"}
      BY <1>7 DEF RecordRunFails, SettleFails
    <2>2. thr' \in [Threads -> ThreadStates] /\ WorksForSomething'
      BY <2>1, RowAndLabel DEF Labels
    <2> QED
      BY <1>7, <2>2, FaultTyped
      DEF Typed, TypeOK, RecordRunFails, SettleFails, rows
  <1>8. ASSUME Work(k) \/ WorkRaises(k) PROVE Typed'
    <2>1. thr[k].pc = "work" /\ Started(k) /\ UNCHANGED <<rows, lock, env>>
      BY <1>8 DEF Work, WorkRaises
    <2>2. ran' \in [Ids -> Seq(Nat)]
      BY <1>0, <1>1, <2>1
    <2>3. thr' \in [Threads -> ThreadStates] /\ WorksForSomething'
      <3>1. CASE Work(k)
        BY <1>3, <1>4, <2>1, <3>1 DEF Work
      <3>2. CASE WorkRaises(k)
        BY <2>1, <3>2, RowAndLabel DEF WorkRaises, Labels
      <3> QED  BY <1>8, <3>1, <3>2
    <2> QED  BY <2>1, <2>2, <2>3 DEF Typed, TypeOK, rows, env
  <1>9. ASSUME NEW j \in Ids, NEW p \in Periods, WorkRearms(k, j, p) PROVE Typed'
    <2>1. thr[k].pc = "work" /\ Started(k) /\ UNCHANGED <<runs, lock, env>>
      BY <1>9 DEF WorkRearms
    <2>2. ran' \in [Ids -> Seq(Nat)]
      BY <1>0, <1>1, <2>1
    <2>3. thr' \in [Threads -> ThreadStates] /\ WorksForSomething'
      <3>1. CASE Goto(k, "except")
        BY <2>1, <3>1, RowAndLabel DEF Labels
      <3> QED  BY <1>3, <1>4, <1>9, <2>1, <3>1 DEF WorkRearms
    <2>4. sched[thr[k].cur].kind \in Kinds \cup {"plain"}
      BY <1>0, <2>1 DEF Schedules
    <2>5. sched' \in [Ids -> Schedules]
      BY <1>0, <1>9, <2>4, RowAndLabel DEF WorkRearms
    <2> QED  BY <2>1, <2>2, <2>3, <2>5 DEF Typed, TypeOK, env
  <1>10. ASSUME Settle(k) \/ Except(k) PROVE Typed'
    <2>1. PICK label \in {"complete", "fail"} :
            Goto(k, label) /\ thr[k].pc \notin {"idle", "next"}
      BY <1>10 DEF Settle, Except
    <2>2. thr' \in [Threads -> ThreadStates] /\ WorksForSomething'
      BY <2>1, RowAndLabel DEF Labels
    <2>3. sched' \in [Ids -> Schedules]
      BY <1>0, <1>2, <1>10, <2>1 DEF Settle, Except
    <2> QED  BY <1>10, <2>2, <2>3 DEF Typed, TypeOK, Settle, Except, env
  <1>11. ASSUME ExceptFails(k) PROVE Typed'
    <2>1. thr' \in [Threads -> ThreadStates] /\ WorksForSomething'
      <3>1. CASE Goto(k, "fail")
        BY <1>11, <3>1, RowAndLabel DEF ExceptFails, Labels
      <3>2. CASE TickAborts(k)
        BY <3>2, RowAndLabel DEF TickAborts, TickEnd
      <3> QED  BY <1>11, <3>1, <3>2 DEF ExceptFails
    <2>2. lock' \in {lock, Free}
      BY <1>11 DEF ExceptFails, TickAborts, TickEnd
    <2> QED  BY <1>11, <2>1, <2>2, FaultTyped DEF Typed, TypeOK, ExceptFails, rows
  <1>12. ASSUME CloseRow(k) \/ CloseRowFails(k) PROVE Typed'
    <2>1. thr' \in [Threads -> ThreadStates] /\ WorksForSomething'
      BY <1>12, RowAndLabel DEF CloseRow, CloseRowFails
    <2>2. CASE CloseRow(k)
      <3>1. runs' \in Seq(RunRows)
        BY <1>5, <2>2 DEF CloseRow
      <3> QED  BY <2>1, <2>2, <3>1 DEF Typed, TypeOK, CloseRow, env
    <2>3. CASE CloseRowFails(k)
      BY <2>1, <2>3, FaultTyped DEF Typed, TypeOK, CloseRowFails, rows
    <2> QED  BY <1>12, <2>2, <2>3
  <1> QED
    BY <1>6, <1>7, <1>8, <1>9, <1>10, <1>11, <1>12

\* Every step keeps the types.
LEMMA TypedStep == Typed /\ [Next]_vars => Typed'
  <1> SUFFICES ASSUME Typed, [Next]_vars PROVE Typed'
    OBVIOUS
  <1>1. ASSUME NEW k \in Tickers, TickStart(k) PROVE Typed'
    BY <1>1, TickTyped DEF Threads
  <1>2. ASSUME NEW k \in Threads, Step(k) PROVE Typed'
    BY <1>2, TickTyped, RunTyped DEF Step
  <1>3. ASSUME NEW k \in Threads, StepFails(k) PROVE Typed'
    BY <1>3, TickTyped, RunTyped DEF StepFails
  <1>4. ASSUME Routes PROVE Typed'
    BY <1>4, RoutesTyped DEF Routes
  <1>5. ASSUME Crash PROVE Typed'
    BY <1>5, RowAndLabel
    DEF Typed, TypeOK, Crash, WorksForSomething, Idle, rows
  <1>6. ASSUME Tick PROVE Typed'
    BY <1>6 DEF Typed, TypeOK, Tick, WorksForSomething, rows
  <1>7. CASE UNCHANGED vars
    BY <1>7 DEF Typed, TypeOK, vars, env, WorksForSomething
  <1> QED  BY <1>1, <1>2, <1>3, <1>4, <1>5, <1>6, <1>7 DEF Next

\* The initial state has them.
LEMMA TypedInit == Init => Typed
  <1>1. Unborn \in Schedules
    BY DEF Unborn, Schedules
  <1>2. Idle \in ThreadStates /\ Idle.pc = "idle"
    BY DEF Idle, ThreadStates, Labels
  <1>3. <<>> \in Seq(RunRows) /\ <<>> \in Seq(Nat)
    OBVIOUS
  <1>4. Init => WorksForSomething
    BY <1>2 DEF Init, WorksForSomething
  <1>5. Init => TypeOK
    <2> SUFFICES ASSUME Init PROVE TypeOK
      OBVIOUS
    <2>1. sched \in [Ids -> Schedules]
      BY <1>1 DEF Init
    <2>2. thr \in [Threads -> ThreadStates]
      BY <1>2 DEF Init
    <2>3. runs \in Seq(RunRows) /\ ran \in [Ids -> Seq(Nat)]
      BY <1>3 DEF Init
    <2>4. /\ clock \in 0 .. MaxClock /\ faults \in 0 .. MaxFaults
          /\ manual \in 0 .. MaxManual
      BY DEF Init
    <2>5. lock \in Tickers \cup {Free} /\ crashed \in BOOLEAN
      BY DEF Init
    <2> QED  BY <2>1, <2>2, <2>3, <2>4, <2>5 DEF TypeOK
  <1> QED  BY <1>4, <1>5 DEF Typed

(***************************************************************************)
(* The variables of Scheduler keep their types, for every number of        *)
(* schedules and threads and every bound.                                  *)
(***************************************************************************)
THEOREM TypeCorrect == Spec => []TypeOK
  <1>1. Typed => TypeOK
    BY DEF Typed
  <1> QED
    BY <1>1, TypedInit, TypedStep, PTL DEF Spec

-----------------------------------------------------------------------------
(***************************************************************************)
(* No slot runs twice.  The invariant follows a slot from the read of the  *)
(* due schedules to the execution: all slots executed before are smaller,  *)
(* no other pair of the tick is about the same schedule, and once the      *)
(* schedule is advanced its next slot is larger.                           *)
(***************************************************************************)
Below(slots, slot) == \A n \in DOMAIN slots : slots[n] < slot

\* Whoever is in a tick holds the lock; a run-now thread never is in one.
OneTick ==
  /\ \A k \in Tickers : thr[k].pc # "idle" => lock = k
  /\ \A u \in Users : thr[u].due = {} /\ thr[u].pc # "next"

DueSlots ==
  \A k \in Tickers : \A d \in thr[k].due :
    /\ sched[d[1]].state # "unborn"
    /\ d[2] <= clock
    /\ Below(ran[d[1]], d[2])
    /\ \A e \in thr[k].due : e[1] = d[1] => e = d

TakenSlots ==
  \A k \in Tickers : thr[k].pc \in {"record", "work"} =>
    LET i == thr[k].cur
    IN /\ sched[i].state # "unborn"
       /\ Below(ran[i], thr[k].slot)
       /\ Live(i) => thr[k].slot < sched[i].next
       /\ \A d \in thr[k].due : d[1] # i

NextSlots ==
  \A i \in Ids : /\ Live(i) => Below(ran[i], sched[i].next)
                 /\ sched[i].state = "unborn" => ran[i] = <<>>

SlotInv == Typed /\ OneTick /\ DueSlots /\ TakenSlots /\ NextSlots /\ NoSlotRunsTwice

\* What a step may do to schedules and ticks without disturbing the slots:
\* a schedule keeps its next slot or comes to life, a tick only loses pairs.
SchedKeeps ==
  \A i \in Ids :
    \/ /\ sched'[i].next = sched[i].next
       /\ sched'[i].state = "live" => sched[i].state = "live"
       /\ sched'[i].state = "unborn" <=> sched[i].state = "unborn"
    \/ sched[i].state = "unborn" /\ sched'[i].state # "unborn"

ThrKeeps ==
  \A k \in Tickers :
    /\ thr'[k].due \subseteq thr[k].due
    /\ thr'[k].pc \in {"record", "work"} =>
         /\ thr[k].pc \in {"record", "work"}
         /\ thr'[k].cur = thr[k].cur /\ thr'[k].slot = thr[k].slot

\* The facts about one pair, one taken slot and one schedule.
LEMMA SlotFacts ==
  ASSUME SlotInv
  PROVE  /\ \A k \in Tickers : \A d \in thr[k].due : d[1] \in Ids /\ d[2] \in Nat
         /\ \A k \in Tickers : thr[k].pc \in {"record", "work"}
                                 => thr[k].cur \in Ids /\ thr[k].slot \in Nat
         /\ \A i \in Ids : /\ ran[i] \in Seq(Nat) /\ sched[i].next \in Nat
                           /\ sched[i].state \in {"unborn", "live", "deleted"}
         /\ clock \in Nat
         /\ \A k, l \in Tickers :
              thr[k].pc # "idle" /\ l # k => thr[l] = Idle
  <1>1. /\ sched \in [Ids -> Schedules] /\ thr \in [Threads -> ThreadStates]
        /\ ran \in [Ids -> Seq(Nat)] /\ clock \in Nat /\ WorksForSomething
        /\ OneTick /\ Tickers \subseteq Threads
    BY DEF SlotInv, Typed, TypeOK, Threads
  <1>2. \A k \in Tickers : \A d \in thr[k].due : d[1] \in Ids /\ d[2] \in Nat
    BY <1>1 DEF ThreadStates
  <1>3. \A k \in Tickers : thr[k].pc \in {"record", "work"}
                             => thr[k].cur \in Ids /\ thr[k].slot \in Nat
    BY <1>1 DEF ThreadStates, WorksForSomething
  <1>4. \A i \in Ids : /\ ran[i] \in Seq(Nat) /\ sched[i].next \in Nat
                       /\ sched[i].state \in {"unborn", "live", "deleted"}
    BY <1>1 DEF Schedules
  <1>5. \A k, l \in Tickers : thr[k].pc # "idle" /\ l # k => thr[l] = Idle
    BY <1>1 DEF OneTick, WorksForSomething
  <1> QED  BY <1>1, <1>2, <1>3, <1>4, <1>5

\* Such a step, when it executes nothing, preserves the invariant.
LEMMA KeepsSlots ==
  ASSUME SlotInv, Typed', OneTick', ran' = ran, clock <= clock', clock' \in Nat,
         SchedKeeps, ThrKeeps
  PROVE  SlotInv'
  <1> USE SlotFacts DEF SlotInv
  <1>1. DueSlots'
    <2> SUFFICES ASSUME NEW k \in Tickers, NEW d \in thr'[k].due
                 PROVE  /\ sched'[d[1]].state # "unborn"
                        /\ d[2] <= clock'
                        /\ Below(ran'[d[1]], d[2])
                        /\ \A e \in thr'[k].due : e[1] = d[1] => e = d
      BY DEF DueSlots
    <2>1. d \in thr[k].due /\ d[1] \in Ids /\ d[2] \in Nat
      BY DEF ThrKeeps
    <2>2. /\ sched[d[1]].state # "unborn" /\ d[2] <= clock /\ Below(ran[d[1]], d[2])
          /\ \A e \in thr[k].due : e[1] = d[1] => e = d
      BY <2>1 DEF DueSlots
    <2>3. sched'[d[1]].state # "unborn"
      BY <2>1, <2>2 DEF SchedKeeps
    <2>4. d[2] <= clock'
      BY <2>1, <2>2
    <2> QED  BY <2>1, <2>2, <2>3, <2>4 DEF ThrKeeps
  <1>2. TakenSlots'
    <2> SUFFICES ASSUME NEW k \in Tickers, thr'[k].pc \in {"record", "work"}
                 PROVE  /\ sched'[thr'[k].cur].state # "unborn"
                        /\ Below(ran'[thr'[k].cur], thr'[k].slot)
                        /\ sched'[thr'[k].cur].state = "live" =>
                             thr'[k].slot < sched'[thr'[k].cur].next
                        /\ \A d \in thr'[k].due : d[1] # thr'[k].cur
      BY DEF TakenSlots, Live
    <2>1. /\ thr[k].pc \in {"record", "work"} /\ thr'[k].due \subseteq thr[k].due
          /\ thr'[k].cur = thr[k].cur /\ thr'[k].slot = thr[k].slot
          /\ thr[k].cur \in Ids /\ thr[k].slot \in Nat
      BY DEF ThrKeeps
    <2>2. /\ sched[thr[k].cur].state # "unborn" /\ Below(ran[thr[k].cur], thr[k].slot)
          /\ Live(thr[k].cur) => thr[k].slot < sched[thr[k].cur].next
          /\ \A d \in thr[k].due : d[1] # thr[k].cur
      BY <2>1 DEF TakenSlots
    <2>3. /\ sched'[thr[k].cur].state # "unborn"
          /\ sched'[thr[k].cur].next = sched[thr[k].cur].next
          /\ sched'[thr[k].cur].state = "live" => Live(thr[k].cur)
      BY <2>1, <2>2 DEF SchedKeeps, Live
    <2> QED  BY <2>1, <2>2, <2>3 DEF Live
  <1>3. NextSlots'
    <2> SUFFICES ASSUME NEW i \in Ids
                 PROVE  /\ sched'[i].state = "live" => Below(ran'[i], sched'[i].next)
                        /\ sched'[i].state = "unborn" => ran'[i] = <<>>
      BY DEF NextSlots, Live
    <2>1. CASE sched[i].state = "unborn"
      BY <2>1 DEF NextSlots, Below, SchedKeeps
    <2>2. CASE sched[i].state # "unborn"
      BY <2>2 DEF NextSlots, SchedKeeps, Live
    <2> QED  BY <2>1, <2>2
  <1>4. NoSlotRunsTwice'
    BY DEF NoSlotRunsTwice
  <1> QED  BY <1>1, <1>2, <1>3, <1>4

\* Appending a slot that is larger than all the others.
LEMMA AppendSlot ==
  ASSUME NEW slots \in Seq(Nat), NEW slot \in Nat, Below(slots, slot)
  PROVE  /\ \A n \in Nat : slot < n => Below(Append(slots, slot), n)
         /\ (\A m, n \in DOMAIN slots : m < n => slots[m] < slots[n])
              => \A m, n \in DOMAIN Append(slots, slot) :
                   m < n => Append(slots, slot)[m] < Append(slots, slot)[n]
  <1> DEFINE more == Append(slots, slot)
  <1>1. /\ DOMAIN more = 1 .. Len(slots) + 1 /\ DOMAIN slots = 1 .. Len(slots)
        /\ \A n \in 1 .. Len(slots) : more[n] = slots[n] /\ slots[n] \in Nat
        /\ more[Len(slots) + 1] = slot /\ Len(slots) \in Nat
    OBVIOUS
  <1> HIDE DEF more
  <1>2. \A n \in DOMAIN more : n \in 1 .. Len(slots) \/ n = Len(slots) + 1
    BY <1>1
  <1>3. \A n \in DOMAIN slots : slots[n] < slot
    BY DEF Below
  <1>4. ASSUME NEW n \in Nat, slot < n PROVE Below(more, n)
    BY <1>1, <1>2, <1>3, <1>4 DEF Below
  <1>5. ASSUME \A m, n \in DOMAIN slots : m < n => slots[m] < slots[n],
               NEW m \in DOMAIN more, NEW n \in DOMAIN more, m < n
        PROVE  more[m] < more[n]
    <2>1. m \in 1 .. Len(slots)
      BY <1>1, <1>2, <1>5
    <2>2. CASE n \in 1 .. Len(slots)
      BY <1>1, <1>5, <2>1, <2>2
    <2>3. CASE n = Len(slots) + 1
      BY <1>1, <1>3, <2>1, <2>3
    <2> QED  BY <1>2, <2>2, <2>3
  <1> QED  BY <1>4, <1>5 DEF more

\* The execution of a taken slot.
LEMMA StartsSlot ==
  ASSUME SlotInv, Typed', OneTick', clock' = clock, SchedKeeps, ThrKeeps,
         NEW k \in Threads, thr[k].pc = "work", Started(k),
         thr'[k].pc \notin {"record", "work"}
  PROVE  SlotInv'
  <1>1. CASE k \notin Tickers
    BY <1>1, SlotFacts, KeepsSlots DEF Started
  <1>2. CASE k \in Tickers
    <2> DEFINE i == thr[k].cur
               slot == thr[k].slot
    <2>1. /\ i \in Ids /\ slot \in Nat /\ ran[i] \in Seq(Nat)
          /\ sched[i].state # "unborn" /\ Below(ran[i], slot)
          /\ Live(i) => slot < sched[i].next
          /\ \A d \in thr[k].due : d[1] # i
      BY <1>2, SlotFacts DEF SlotInv, TakenSlots
    <2>2. ran \in [Ids -> Seq(Nat)]
      BY DEF SlotInv, Typed, TypeOK
    <2>3. /\ ran'[i] = Append(ran[i], slot)
          /\ \A j \in Ids \ {i} : ran'[j] = ran[j]
      BY <1>2, <2>1, <2>2 DEF Started
    <2>4. \A l \in Tickers \ {k} : /\ thr[l] = Idle /\ thr'[l].due = {}
                                   /\ thr'[l].pc \notin {"record", "work"}
      <3>1. \A l \in Tickers \ {k} : thr[l] = Idle
        BY <1>2, SlotFacts
      <3>2. Idle.due = {} /\ Idle.pc = "idle"
        BY DEF Idle
      <3> QED  BY <3>1, <3>2 DEF ThrKeeps
    <2> HIDE DEF i, slot
    <2>5. DueSlots'
      <3> SUFFICES ASSUME NEW l \in Tickers, NEW d \in thr'[l].due
                   PROVE  /\ sched'[d[1]].state # "unborn"
                          /\ d[2] <= clock'
                          /\ Below(ran'[d[1]], d[2])
                          /\ \A e \in thr'[l].due : e[1] = d[1] => e = d
        BY DEF DueSlots
      <3>1. l = k /\ d \in thr[k].due /\ d[1] \in Ids \ {i}
        BY <1>2, <2>1, <2>4, SlotFacts DEF ThrKeeps
      <3>2. /\ sched[d[1]].state # "unborn" /\ d[2] <= clock
            /\ Below(ran[d[1]], d[2])
            /\ \A e \in thr[k].due : e[1] = d[1] => e = d
        BY <1>2, <3>1 DEF SlotInv, DueSlots
      <3>3. sched'[d[1]].state # "unborn"
        BY <3>1, <3>2 DEF SchedKeeps
      <3> QED  BY <1>2, <2>3, <3>1, <3>2, <3>3 DEF ThrKeeps
    <2>6. TakenSlots'
      BY <2>4 DEF TakenSlots
    <2>7. NextSlots'
      <3> SUFFICES ASSUME NEW j \in Ids
                   PROVE  /\ sched'[j].state = "live"
                                => Below(ran'[j], sched'[j].next)
                          /\ sched'[j].state = "unborn" => ran'[j] = <<>>
        BY DEF NextSlots, Live
      <3>1. CASE j = i
        <4>1. /\ sched'[i].state # "unborn" /\ sched'[i].next = sched[i].next
              /\ sched'[i].state = "live" => Live(i)
          BY <2>1 DEF SchedKeeps, Live
        <4>2. sched[i].next \in Nat
          BY <2>1, SlotFacts
        <4>3. \A n \in Nat : slot < n => Below(Append(ran[i], slot), n)
          BY <2>1, AppendSlot
        <4>4. sched'[i].state = "live" => Below(Append(ran[i], slot), sched[i].next)
          BY <2>1, <4>1, <4>2, <4>3
        <4> QED  BY <2>3, <3>1, <4>1, <4>4
      <3>2. CASE j # i /\ sched[j].state = "unborn"
        BY <2>3, <3>2 DEF SlotInv, NextSlots, Below
      <3>3. CASE j # i /\ sched[j].state # "unborn"
        BY <2>3, <3>3 DEF SlotInv, NextSlots, SchedKeeps, Live
      <3> QED  BY <3>1, <3>2, <3>3
    <2>8. NoSlotRunsTwice'
      <3> SUFFICES ASSUME NEW j \in Ids
                   PROVE  \A m, n \in DOMAIN ran'[j] :
                            m < n => ran'[j][m] < ran'[j][n]
        BY DEF NoSlotRunsTwice
      <3>1. \A m, n \in DOMAIN ran[j] : m < n => ran[j][m] < ran[j][n]
        BY DEF SlotInv, NoSlotRunsTwice
      <3>2. CASE j = i
        BY <2>1, <2>3, <3>1, <3>2, AppendSlot
      <3>3. CASE j # i
        BY <2>3, <3>1, <3>3
      <3> QED  BY <3>2, <3>3
    <2> QED  BY <2>5, <2>6, <2>7, <2>8 DEF SlotInv
  <1> QED  BY <1>1, <1>2

\* The tick reads what is due.
LEMMA TickStartSlots ==
  ASSUME SlotInv, Typed', NEW k \in Tickers, TickStart(k)
  PROVE  SlotInv'
  <1>0. /\ thr[k] = Idle /\ lock = Free /\ lock' = k
        /\ UNCHANGED <<rows, env, ran>>
        /\ thr' = [thr EXCEPT ![k].pc = "next",
                     ![k].due = {<<i, sched[i].next>> : i \in {j \in Ids : Due(j)}}]
        /\ thr \in [Threads -> ThreadStates] /\ WorksForSomething
        /\ Tickers \subseteq Threads /\ Free \notin Tickers /\ k \notin Users
    BY DEF TickStart, SlotInv, Typed, TypeOK, Threads
  <1>1. /\ thr'[k].pc = "next"
        /\ thr'[k].due = {<<i, sched[i].next>> : i \in {j \in Ids : Due(j)}}
        /\ \A l \in Threads \ {k} : thr'[l] = thr[l]
    BY <1>0 DEF ThreadStates
  <1>2. \A l \in Tickers \ {k} : thr'[l] = Idle
    BY <1>0, <1>1 DEF SlotInv, OneTick, WorksForSomething
  <1>3. OneTick'
    <2>1. \A u \in Users : thr'[u] = thr[u]
      BY <1>0, <1>1 DEF Threads
    <2> QED  BY <1>0, <1>2, <2>1 DEF SlotInv, OneTick, Idle
  <1>4. DueSlots'
    <2> SUFFICES ASSUME NEW l \in Tickers, NEW d \in thr'[l].due
                 PROVE  /\ sched'[d[1]].state # "unborn"
                        /\ d[2] <= clock'
                        /\ Below(ran'[d[1]], d[2])
                        /\ \A e \in thr'[l].due : e[1] = d[1] => e = d
      BY DEF DueSlots
    <2>1. l = k
      BY <1>2 DEF Idle
    <2>2. PICK i \in Ids : Due(i) /\ d = <<i, sched[i].next>>
      BY <1>1, <2>1
    <2>3. \A e \in thr'[k].due : e[1] = i => e = d
      BY <1>1, <2>2
    <2>4. sched[i].state = "live" /\ sched[i].next <= clock /\ Below(ran[i], sched[i].next)
      BY <2>2 DEF SlotInv, NextSlots, Due, Live
    <2> QED  BY <1>0, <2>1, <2>2, <2>3, <2>4 DEF rows, env
  <1>5. TakenSlots'
    BY <1>1, <1>2 DEF TakenSlots, Idle
  <1>6. NextSlots' /\ NoSlotRunsTwice'
    BY <1>0 DEF SlotInv, NextSlots, NoSlotRunsTwice, rows, Live
  <1> QED  BY <1>3, <1>4, <1>5, <1>6 DEF SlotInv

\* The tick takes a pair and advances the schedule.
LEMMA AdvanceSlots ==
  ASSUME SlotInv, Typed', NEW k \in Threads, NEW d \in thr[k].due,
         NEW p \in Periods, Advance(k, d, p)
  PROVE  SlotInv'
  <1>0. /\ thr[k].pc = "next" /\ UNCHANGED <<runs, lock, env, ran>>
        /\ thr' = [thr EXCEPT ![k] = [Idle EXCEPT !.pc = "record", !.cur = d[1],
                                        !.slot = d[2], !.due = thr[k].due \ {d}]]
        /\ sched' = IF Live(d[1]) THEN [sched EXCEPT ![d[1]].next = clock + p]
                                  ELSE sched
        /\ thr \in [Threads -> ThreadStates] /\ sched \in [Ids -> Schedules]
        /\ WorksForSomething /\ Tickers \subseteq Threads /\ p \in Nat \ {0}
    BY DEF Advance, SlotInv, Typed, TypeOK, Threads
  <1>1. k \in Tickers
    BY DEF SlotInv, OneTick, Threads
  <1>2. /\ thr'[k].pc = "record" /\ thr'[k].cur = d[1] /\ thr'[k].slot = d[2]
        /\ thr'[k].due = thr[k].due \ {d}
        /\ \A l \in Threads \ {k} : thr'[l] = thr[l]
    BY <1>0 DEF Idle
  <1>3. /\ d[1] \in Ids /\ d[2] \in Nat /\ clock \in Nat
        /\ sched[d[1]].state # "unborn" /\ d[2] <= clock /\ Below(ran[d[1]], d[2])
        /\ \A e \in thr[k].due : e[1] = d[1] => e = d
    BY <1>1, SlotFacts DEF SlotInv, DueSlots
  <1>4. /\ \A i \in Ids : sched'[i].state = sched[i].state
        /\ \A i \in Ids \ {d[1]} : sched'[i].next = sched[i].next
        /\ Live(d[1]) => sched'[d[1]].next = clock + p
    BY <1>0, <1>3 DEF Schedules
  <1>5. \A l \in Tickers \ {k} : thr'[l] = Idle
    BY <1>0, <1>1, <1>2, SlotFacts
  <1>6. OneTick'
    <2>1. \A u \in Users : thr'[u] = thr[u]
      BY <1>0, <1>2 DEF SlotInv, OneTick, Threads
    <2> QED  BY <1>0, <1>1, <1>5, <2>1 DEF SlotInv, OneTick, Idle
  <1>7. DueSlots'
    <2> SUFFICES ASSUME NEW l \in Tickers, NEW e \in thr'[l].due
                 PROVE  /\ sched'[e[1]].state # "unborn"
                        /\ e[2] <= clock'
                        /\ Below(ran'[e[1]], e[2])
                        /\ \A f \in thr'[l].due : f[1] = e[1] => f = e
      BY DEF DueSlots
    <2>1. l = k
      BY <1>5 DEF Idle
    <2>2. e \in thr[k].due /\ e[1] \in Ids
      BY <1>1, <1>2, <2>1, SlotFacts
    <2> QED  BY <1>0, <1>1, <1>2, <1>4, <2>1, <2>2 DEF SlotInv, DueSlots, env
  <1>8. TakenSlots'
    <2> SUFFICES ASSUME NEW l \in Tickers, thr'[l].pc \in {"record", "work"}
                 PROVE  /\ sched'[thr'[l].cur].state # "unborn"
                        /\ Below(ran'[thr'[l].cur], thr'[l].slot)
                        /\ sched'[thr'[l].cur].state = "live" =>
                             thr'[l].slot < sched'[thr'[l].cur].next
                        /\ \A e \in thr'[l].due : e[1] # thr'[l].cur
      BY DEF TakenSlots, Live
    <2>1. l = k
      BY <1>5 DEF Idle
    <2>2. d[2] < clock + p
      BY <1>0, <1>3
    <2> QED  BY <1>0, <1>2, <1>3, <1>4, <2>1, <2>2 DEF Live
  <1>9. NextSlots'
    <2> SUFFICES ASSUME NEW i \in Ids
                 PROVE  /\ sched'[i].state = "live" => Below(ran'[i], sched'[i].next)
                        /\ sched'[i].state = "unborn" => ran'[i] = <<>>
      BY DEF NextSlots, Live
    <2>1. CASE i = d[1]
      <3>1. \A n \in DOMAIN ran[i] : ran[i][n] \in Nat
        BY SlotFacts
      <3>2. Below(ran[i], clock + p)
        BY <1>0, <1>3, <2>1, <3>1 DEF Below
      <3> QED  BY <1>0, <1>3, <1>4, <2>1, <3>2 DEF Live
    <2>2. CASE i # d[1]
      BY <1>0, <1>4, <2>2 DEF SlotInv, NextSlots, Live
    <2> QED  BY <2>1, <2>2
  <1>10. NoSlotRunsTwice'
    BY <1>0 DEF SlotInv, NoSlotRunsTwice
  <1> QED  BY <1>6, <1>7, <1>8, <1>9, <1>10 DEF SlotInv

\* A thread that moves to another label of its run, ends its tick or goes on
\* to its next workflow keeps what the invariant says of ticks.
LEMMA ThreadMoves ==
  ASSUME SlotInv, NEW k \in Threads
  PROVE  /\ \A label \in {"work", "settle", "except", "complete", "fail"} :
              /\ Goto(k, label) /\ UNCHANGED lock
              /\ thr[k].pc \notin {"idle", "next"}
              /\ label = "work" => thr[k].pc = "record"
              => OneTick' /\ ThrKeeps
         /\ TickEnd(k) /\ k \notin Users /\ thr[k].pc # "idle" => OneTick' /\ ThrKeeps
         /\ Onwards(k) /\ UNCHANGED lock /\ thr[k].pc \notin {"idle", "next"}
              => OneTick' /\ ThrKeeps
  <1>0. /\ thr \in [Threads -> ThreadStates] /\ OneTick
        /\ Tickers \subseteq Threads /\ Users \subseteq Threads
        /\ Threads = Tickers \cup Users
    BY DEF SlotInv, Typed, TypeOK, Threads
  <1>1. ASSUME NEW label \in {"work", "settle", "except", "complete", "fail"},
               Goto(k, label), UNCHANGED lock,
               thr[k].pc \notin {"idle", "next"},
               label = "work" => thr[k].pc = "record"
        PROVE  OneTick' /\ ThrKeeps
    <2>1. /\ thr'[k].pc = label /\ thr'[k].due = thr[k].due
          /\ thr'[k].cur = thr[k].cur /\ thr'[k].slot = thr[k].slot
          /\ \A v \in Threads \ {k} : thr'[v] = thr[v]
      BY <1>0, <1>1 DEF Goto, ThreadStates
    <2>2. OneTick'
      BY <1>0, <1>1, <2>1 DEF OneTick
    <2>3. ThrKeeps
      BY <1>0, <1>1, <2>1 DEF ThrKeeps
    <2> QED  BY <2>2, <2>3
  <1>2. ASSUME TickEnd(k), k \notin Users, thr[k].pc # "idle"
        PROVE  OneTick' /\ ThrKeeps
    <2>1. /\ thr'[k] = Idle /\ Idle.due = {} /\ Idle.pc = "idle"
          /\ \A v \in Threads \ {k} : thr'[v] = thr[v]
      BY <1>0, <1>2 DEF TickEnd, Idle
    <2>2. lock' = Free /\ k \in Tickers
      BY <1>0, <1>2 DEF TickEnd
    <2>3. \A v \in Tickers \ {k} : thr[v] = Idle
      BY <1>2, <2>2, SlotFacts
    <2> QED  BY <1>0, <1>2, <2>1, <2>2, <2>3 DEF OneTick, ThrKeeps
  <1>3. ASSUME Onwards(k), UNCHANGED lock, thr[k].pc \notin {"idle", "next"}
        PROVE  OneTick' /\ ThrKeeps
    <2>1. /\ thr'[k].due \subseteq thr[k].due
          /\ k \in Tickers => thr'[k].pc = "next"
          /\ k \notin Tickers => thr'[k].pc = "idle" /\ thr'[k].due = {}
          /\ \A v \in Threads \ {k} : thr'[v] = thr[v]
      BY <1>0, <1>3 DEF Onwards, Idle
    <2>2. OneTick'
      BY <1>0, <1>3, <2>1 DEF OneTick
    <2>3. ThrKeeps
      BY <1>0, <1>3, <2>1 DEF ThrKeeps
    <2> QED  BY <2>2, <2>3
  <1> QED  BY <1>1, <1>2, <1>3

\* The writes of the routes, of the outcome and of a new schedule are such.
LEMMA ScheduleMoves ==
  ASSUME SlotInv
  PROVE  /\ UNCHANGED sched => SchedKeeps
         /\ \A k \in Threads : thr[k].cur \in Ids /\ CountRun(k) => SchedKeeps
         /\ \A j \in Ids : \A row :
              /\ sched[j].state = "unborn"
              /\ row.state = "live"
              /\ sched' = [sched EXCEPT ![j] = row]
              => SchedKeeps
  <1>0. sched \in [Ids -> Schedules]
    BY DEF SlotInv, Typed, TypeOK
  <1>1. ASSUME NEW k \in Threads, thr[k].cur \in Ids, CountRun(k)
        PROVE  SchedKeeps
    <2>1. \A i \in Ids : /\ sched'[i].next = sched[i].next
                         /\ sched'[i].state = sched[i].state
      BY <1>0, <1>1 DEF CountRun, Schedules
    <2> QED  BY <2>1 DEF SchedKeeps
  <1>2. ASSUME NEW j \in Ids, NEW row, sched[j].state = "unborn",
               row.state = "live", sched' = [sched EXCEPT ![j] = row]
        PROVE  SchedKeeps
    BY <1>0, <1>2 DEF SchedKeeps
  <1>3. UNCHANGED sched => SchedKeeps
    BY DEF SchedKeeps
  <1> QED  BY <1>1, <1>2, <1>3

\* A step that leaves the threads alone.
LEMMA ThreadsRest ==
  ASSUME SlotInv, UNCHANGED <<thr, lock>> PROVE OneTick' /\ ThrKeeps
  BY DEF SlotInv, OneTick, ThrKeeps

\* The routes preserve the invariant.
LEMMA RouteSlots ==
  ASSUME SlotInv, Typed', Routes
  PROVE  SlotInv'
  <1>0. /\ sched \in [Ids -> Schedules] /\ thr \in [Threads -> ThreadStates]
        /\ clock \in Nat /\ Threads = Tickers \cup Users /\ Tickers \cap Users = {}
    BY DEF SlotInv, Typed, TypeOK, Threads
  <1>1. ASSUME NEW i \in Ids, NEW kind \in Kinds, NEW p \in Periods,
               Create(i, kind, p)
        PROVE  SlotInv'
    <2>1. SchedKeeps
      BY <1>1, ScheduleMoves DEF Create, NewRow
    <2> QED  BY <1>0, <1>1, <2>1, ThreadsRest, KeepsSlots DEF Create, env
  <1>2. ASSUME NEW i \in Ids, Pause(i) \/ Resume(i) \/ Delete(i)
        PROVE  SlotInv'
    <2>1. \A j \in Ids :
            /\ sched'[j].next = sched[j].next
            /\ \/ sched'[j].state = sched[j].state
               \/ sched[j].state = "live" /\ sched'[j].state = "deleted"
      BY <1>0, <1>2 DEF Pause, Resume, Delete, Live, Schedules
    <2>2. SchedKeeps
      BY <2>1 DEF SchedKeeps
    <2> QED
      BY <1>0, <1>2, <2>2, ThreadsRest, KeepsSlots DEF Pause, Resume, Delete, env
  <1>3. ASSUME NEW i \in Ids, NEW u \in Users, RunNow(u, i)
        PROVE  SlotInv'
    <2>1. /\ thr'[u].due = thr[u].due /\ thr'[u].pc = "record"
          /\ \A v \in Threads \ {u} : thr'[v] = thr[v]
      BY <1>0, <1>3 DEF RunNow, ThreadStates
    <2>2. OneTick' /\ ThrKeeps
      BY <1>0, <1>3, <2>1 DEF RunNow, SlotInv, OneTick, ThrKeeps
    <2>3. SchedKeeps
      BY <1>3, ScheduleMoves DEF RunNow, rows
    <2> QED  BY <1>0, <1>3, <2>2, <2>3, KeepsSlots DEF RunNow
  <1> QED  BY <1>1, <1>2, <1>3 DEF Routes

\* So do the steps of a thread.
LEMMA StepSlots ==
  ASSUME SlotInv, Typed', NEW k \in Threads, Step(k) \/ StepFails(k)
  PROVE  SlotInv'
  <1>0. /\ clock \in Nat /\ WorksForSomething /\ OneTick
        /\ thr[k].pc \notin {"idle", "next"} => thr[k].cur \in Ids
        /\ k \in Tickers \/ k \in Users
    BY DEF SlotInv, Typed, TypeOK, WorksForSomething, Threads
  <1>1. ASSUME AllDone(k) \/ AdvanceFails(k) PROVE SlotInv'
    <2>1. thr[k].pc = "next" /\ k \notin Users /\ TickEnd(k)
      BY <1>0, <1>1 DEF AllDone, AdvanceFails, TickAborts, OneTick
    <2>2. /\ ran' = ran /\ clock' = clock /\ UNCHANGED sched
      BY <1>1 DEF AllDone, AdvanceFails, Fault, rows, env
    <2> QED  BY <1>0, <2>1, <2>2, ThreadMoves, ScheduleMoves, KeepsSlots
  <1>2. ASSUME RecordRun(k) PROVE SlotInv'
    <2>1. /\ thr[k].pc = "record" /\ UNCHANGED <<sched, lock, env, ran>>
      BY <1>2 DEF RecordRun
    <2>2. OneTick' /\ ThrKeeps
      <3>1. CASE Goto(k, "work")
        BY <2>1, <3>1, ThreadMoves
      <3>2. CASE thr' = [thr EXCEPT ![k].pc = "work", ![k].run = Len(runs) + 1]
        <4>1. thr \in [Threads -> ThreadStates] /\ Threads = Tickers \cup Users
          BY DEF SlotInv, Typed, TypeOK, Threads
        <4>2. /\ thr'[k].pc = "work" /\ thr'[k].due = thr[k].due
              /\ thr'[k].cur = thr[k].cur /\ thr'[k].slot = thr[k].slot
              /\ \A v \in Threads \ {k} : thr'[v] = thr[v]
          BY <3>2, <4>1 DEF ThreadStates
        <4>3. OneTick'
          BY <1>0, <2>1, <4>1, <4>2 DEF OneTick
        <4>4. ThrKeeps
          BY <2>1, <4>1, <4>2 DEF ThrKeeps
        <4> QED  BY <4>3, <4>4
      <3> QED  BY <1>2, <3>1, <3>2 DEF RecordRun
    <2> QED  BY <1>0, <2>1, <2>2, ScheduleMoves, KeepsSlots DEF env
  <1>3. ASSUME RecordRunFails(k) \/ SettleFails(k) PROVE SlotInv'
    <2>1. /\ ran' = ran /\ clock' = clock /\ UNCHANGED <<sched, lock>>
      BY <1>3 DEF RecordRunFails, SettleFails, Fault, rows
    <2>2. OneTick' /\ ThrKeeps
      BY <1>3, <2>1, ThreadMoves DEF RecordRunFails, SettleFails
    <2> QED  BY <1>0, <2>1, <2>2, ScheduleMoves, KeepsSlots
  <1>4. ASSUME Work(k) \/ WorkRaises(k) \/
               \E j \in Ids, p \in Periods : WorkRearms(k, j, p)
        PROVE  SlotInv'
    <2>1. /\ thr[k].pc = "work" /\ Started(k)
          /\ UNCHANGED <<runs, lock, env>>
      BY <1>4 DEF Work, WorkRaises, WorkRearms, rows
    <2>2. SchedKeeps
      <3>1. CASE UNCHANGED sched
        BY <3>1, ScheduleMoves
      <3>2. ASSUME NEW j \in Ids, NEW p \in Periods, WorkRearms(k, j, p)
            PROVE  SchedKeeps
        BY <3>2, ScheduleMoves DEF WorkRearms, NewRow
      <3> QED  BY <1>4, <3>1, <3>2 DEF Work, WorkRaises, rows
    <2>3. OneTick' /\ ThrKeeps /\ thr'[k].pc \notin {"record", "work"}
      <3>0. thr \in [Threads -> ThreadStates] /\ Threads = Tickers \cup Users
        BY DEF SlotInv, Typed, TypeOK, Threads
      <3>1. /\ thr'[k].pc \in {"settle", "except"} /\ thr'[k].due = thr[k].due
            /\ \A v \in Threads \ {k} : thr'[v] = thr[v]
        BY <1>4, <3>0 DEF Work, WorkRaises, WorkRearms, Goto, ThreadStates
      <3>2. OneTick'
        BY <1>0, <2>1, <3>0, <3>1 DEF OneTick
      <3>3. ThrKeeps
        BY <2>1, <3>0, <3>1 DEF ThrKeeps
      <3> QED  BY <3>1, <3>2, <3>3
    <2> QED  BY <2>1, <2>2, <2>3, StartsSlot DEF env
  <1>5. ASSUME Settle(k) \/ Except(k) PROVE SlotInv'
    <2>1. /\ ran' = ran /\ clock' = clock /\ UNCHANGED lock
          /\ thr[k].pc \notin {"idle", "next"} /\ CountRun(k)
      BY <1>5 DEF Settle, Except, env
    <2>2. OneTick' /\ ThrKeeps
      BY <1>5, <2>1, ThreadMoves DEF Settle, Except
    <2> QED  BY <1>0, <2>1, <2>2, ScheduleMoves, KeepsSlots
  <1>6. ASSUME ExceptFails(k) PROVE SlotInv'
    <2>1. /\ ran' = ran /\ clock' = clock /\ UNCHANGED sched /\ thr[k].pc = "except"
      BY <1>6 DEF ExceptFails, Fault, rows
    <2>2. OneTick' /\ ThrKeeps
      BY <1>6, <2>1, ThreadMoves DEF ExceptFails, TickAborts
    <2> QED  BY <1>0, <2>1, <2>2, ScheduleMoves, KeepsSlots
  <1>7. ASSUME CloseRow(k) \/ CloseRowFails(k) PROVE SlotInv'
    <2>1. /\ ran' = ran /\ clock' = clock /\ UNCHANGED <<sched, lock>>
          /\ thr[k].pc \notin {"idle", "next"} /\ Onwards(k)
      BY <1>7 DEF CloseRow, CloseRowFails, Fault, rows, env
    <2>2. OneTick' /\ ThrKeeps
      BY <2>1, ThreadMoves
    <2> QED  BY <1>0, <2>1, <2>2, ScheduleMoves, KeepsSlots
  <1>8. ASSUME NEW d \in thr[k].due, NEW p \in Periods, Advance(k, d, p)
        PROVE  SlotInv'
    BY <1>8, AdvanceSlots
  <1> QED
    BY <1>1, <1>2, <1>3, <1>4, <1>5, <1>6, <1>7, <1>8 DEF Step, StepFails

\* And so does every step.
LEMMA SlotStep == SlotInv /\ [Next]_vars => SlotInv'
  <1> SUFFICES ASSUME SlotInv, [Next]_vars PROVE SlotInv'
    OBVIOUS
  <1>1. Typed'
    BY TypedStep DEF SlotInv
  <1>2. ASSUME NEW k \in Tickers, TickStart(k) PROVE SlotInv'
    BY <1>1, <1>2, TickStartSlots
  <1>3. ASSUME NEW k \in Threads, Step(k) \/ StepFails(k) PROVE SlotInv'
    BY <1>1, <1>3, StepSlots
  <1>4. ASSUME Routes PROVE SlotInv'
    BY <1>1, <1>4, RouteSlots
  <1>5. ASSUME Crash PROVE SlotInv'
    <2>1. /\ \A k \in Threads : thr'[k] = Idle
          /\ ran' = ran /\ clock' = clock /\ UNCHANGED sched
      BY <1>5 DEF Crash, rows
    <2>2. OneTick' /\ ThrKeeps
      BY <2>1 DEF OneTick, ThrKeeps, Idle, Threads
    <2> QED  BY <1>1, <2>1, <2>2, SlotFacts, ScheduleMoves, KeepsSlots
  <1>6. ASSUME Tick PROVE SlotInv'
    <2>1. ran' = ran /\ clock' = clock + 1 /\ UNCHANGED <<sched, thr, lock>>
      BY <1>6 DEF Tick, rows
    <2> QED  BY <1>1, <2>1, SlotFacts, ThreadsRest, ScheduleMoves, KeepsSlots
  <1>7. CASE UNCHANGED vars
    <2>1. ran' = ran /\ clock' = clock /\ UNCHANGED <<sched, thr, lock>>
      BY <1>7 DEF vars, env
    <2> QED  BY <1>1, <2>1, SlotFacts, ThreadsRest, ScheduleMoves, KeepsSlots
  <1> QED  BY <1>2, <1>3, <1>4, <1>5, <1>6, <1>7 DEF Next

(***************************************************************************)
(* No slot of a schedule is executed twice by ticks, and slots are         *)
(* executed in order, however many interval threads, run-now requests,     *)
(* faults and pauses there are, and wherever the server stops.             *)
(***************************************************************************)
THEOREM SlotsRunOnce == Spec => []NoSlotRunsTwice
  <1>1. Init => SlotInv
    <2>1. Init => Typed
      BY TypedInit
    <2>2. Init => OneTick /\ DueSlots /\ TakenSlots
      BY DEF Init, OneTick, DueSlots, TakenSlots, Idle, Threads
    <2>3. Init => NextSlots /\ NoSlotRunsTwice
      BY DEF Init, NextSlots, NoSlotRunsTwice, Unborn, Live
    <2> QED  BY <2>1, <2>2, <2>3 DEF SlotInv
  <1>2. SlotInv => NoSlotRunsTwice
    BY DEF SlotInv
  <1> QED
    BY <1>1, <1>2, SlotStep, PTL DEF Spec

-----------------------------------------------------------------------------
(***************************************************************************)
(* A recorded run of a tick worked.  What a row says is what the thread    *)
(* that closes it says, so the invariant follows that knowledge: a tick    *)
(* beyond the execution did the work, and the row a manual run closes is   *)
(* no tick's.  A "future" schedule is the exception, and assumed away.     *)
(***************************************************************************)
NoneForTheFuture == \A i \in Ids : sched[i].kind # "future"

KnowsItsRun(k) ==
  /\ thr[k].run \in {0} \cup DOMAIN runs
  /\ k \notin Tickers /\ thr[k].run # 0 => ~runs[thr[k].run].tick
  /\ k \in Tickers /\ thr[k].pc \in {"settle", "complete"} => thr[k].did

WorkInv ==
  Typed /\ NoneForTheFuture /\ (\A k \in Threads : KnowsItsRun(k)) /\ CompletedRunsWorked

\* What a thread may become while the rows rest.
StillKnows(k) ==
  \/ thr'[k] = thr[k]
  \/ /\ thr'[k].run \in {0, thr[k].run}
     /\ k \in Tickers /\ thr'[k].pc \in {"settle", "complete"} => thr'[k].did

\* Rows keep what they say, or are deleted, and none gets lost.
RowsRest ==
  /\ DOMAIN runs' = DOMAIN runs
  /\ \A r \in DOMAIN runs :
       /\ runs'[r].tick = runs[r].tick /\ runs'[r].worked = runs[r].worked
       /\ runs'[r].status \in {runs[r].status, "deleted"}

LEMMA RestKeepsWork ==
  ASSUME WorkInv, Typed', NoneForTheFuture', RowsRest, \A k \in Threads : StillKnows(k)
  PROVE  WorkInv'
  <1>1. \A k \in Threads : KnowsItsRun(k)'
    BY DEF WorkInv, KnowsItsRun, StillKnows, RowsRest
  <1>2. CompletedRunsWorked'
    BY DEF WorkInv, CompletedRunsWorked, RowsRest
  <1> QED  BY <1>1, <1>2 DEF WorkInv

\* One thread moves on, and so does not know less.
LEMMA OneMoves ==
  ASSUME Typed, NEW k \in Threads, NEW t, thr' = [thr EXCEPT ![k] = t],
         t.run \in {0, thr[k].run},
         k \in Tickers /\ t.pc \in {"settle", "complete"} => t.did
  PROVE  \A h \in Threads : StillKnows(h)
  BY DEF Typed, TypeOK, StillKnows

\* A thread that is sent to another label keeps its run and what it did.
LEMMA OneGoes ==
  ASSUME Typed, NEW k \in Threads, NEW label, Goto(k, label),
         label \in {"settle", "complete"} => thr[k].pc = "settle",
         \A h \in Threads : KnowsItsRun(h)
  PROVE  \A h \in Threads : StillKnows(h)
  <1>1. thr \in [Threads -> ThreadStates]
    BY DEF Typed, TypeOK
  <1>2. \A h \in Threads \ {k} : thr'[h] = thr[h]
    BY <1>1 DEF Goto
  <1>3. thr'[k].run = thr[k].run /\ thr'[k].did = thr[k].did /\ thr'[k].pc = label
    BY <1>1 DEF Goto, ThreadStates
  <1>4. StillKnows(k)
    BY <1>3 DEF StillKnows, KnowsItsRun
  <1> QED  BY <1>2, <1>4 DEF StillKnows

\* A tick that does the work says so.
LEMMA WorkDone ==
  ASSUME WorkInv, NEW k \in Threads, thr[k].pc = "work",
         thr' = [thr EXCEPT ![k].pc = "settle", ![k].did = DoesWork(k)]
  PROVE  \A h \in Threads : StillKnows(h)
  <1>1. thr \in [Threads -> ThreadStates] /\ thr[k].cur \in Ids
    BY DEF WorkInv, Typed, TypeOK, WorksForSomething
  <1>2. k \in Tickers => DoesWork(k)
    BY <1>1 DEF WorkInv, NoneForTheFuture, DoesWork
  <1>3. \A h \in Threads \ {k} : thr'[h] = thr[h]
    BY <1>1
  <1>4. thr'[k].run = thr[k].run /\ thr'[k].did = DoesWork(k)
    BY <1>1 DEF ThreadStates
  <1>5. StillKnows(k)
    BY <1>2, <1>4 DEF StillKnows
  <1> QED  BY <1>3, <1>5 DEF StillKnows

\* The next workflow and the end of the route know of no run yet.
LEMMA OnwardsKnows ==
  ASSUME Typed, NEW k \in Threads, Onwards(k)
  PROVE  \A h \in Threads : StillKnows(h)
  <1>1. thr \in [Threads -> ThreadStates]
    BY DEF Typed, TypeOK
  <1>2. thr'[k].run = 0 /\ thr'[k].pc \in {"idle", "next"}
    BY <1>1 DEF Onwards, Idle
  <1>3. \A h \in Threads \ {k} : thr'[h] = thr[h]
    BY <1>1 DEF Onwards
  <1> QED  BY <1>2, <1>3 DEF StillKnows

\* A schedule that is made is of a kind that works.
LEMMA NewRowWorks ==
  ASSUME Typed, NoneForTheFuture, NEW i \in Ids, NEW kind, kind # "future", NEW p,
         sched' = [sched EXCEPT ![i] = NewRow(kind, p)]
  PROVE  NoneForTheFuture'
  BY DEF Typed, TypeOK, NoneForTheFuture, NewRow

\* Counting a run leaves the kinds alone.
LEMMA CountRunWorks ==
  ASSUME Typed, NoneForTheFuture, NEW k \in Threads, CountRun(k)
  PROVE  NoneForTheFuture'
  <1>1. sched \in [Ids -> Schedules]
    BY DEF Typed, TypeOK
  <1>2. \A i \in Ids : sched'[i].kind = sched[i].kind
    BY <1>1 DEF CountRun, Schedules
  <1> QED  BY <1>2 DEF NoneForTheFuture

LEMMA RoutesWork ==
  ASSUME WorkInv, Typed', "future" \notin Kinds, Routes
  PROVE  WorkInv'
  <1>0. /\ Typed /\ sched \in [Ids -> Schedules] /\ thr \in [Threads -> ThreadStates]
        /\ NoneForTheFuture /\ runs \in Seq(RunRows)
    BY DEF WorkInv, Typed, TypeOK
  <1>1. ASSUME NEW i \in Ids, NEW kind \in Kinds, NEW p \in Periods, Create(i, kind, p)
        PROVE  WorkInv'
    <2>1. NoneForTheFuture'
      BY <1>0, <1>1, NewRowWorks DEF Create
    <2>2. RowsRest /\ \A h \in Threads : StillKnows(h)
      BY <1>1 DEF Create, RowsRest, StillKnows
    <2> QED  BY <2>1, <2>2, RestKeepsWork
  <1>2. ASSUME NEW i \in Ids, Pause(i) \/ Resume(i)
        PROVE  WorkInv'
    <2>1. NoneForTheFuture'
      BY <1>0, <1>2 DEF Pause, Resume, NoneForTheFuture, Schedules
    <2>2. RowsRest /\ \A h \in Threads : StillKnows(h)
      BY <1>2 DEF Pause, Resume, RowsRest, StillKnows
    <2> QED  BY <2>1, <2>2, RestKeepsWork
  <1>3. ASSUME NEW i \in Ids, Delete(i)
        PROVE  WorkInv'
    <2>1. NoneForTheFuture'
      BY <1>0, <1>3 DEF Delete, NoneForTheFuture, Schedules
    <2>2. \A r \in DOMAIN runs : runs[r] \in RunRows
      BY <1>0
    <2>3. RowsRest
      BY <1>3, <2>2 DEF Delete, RowsRest, RunRows
    <2>4. \A h \in Threads : StillKnows(h)
      BY <1>3 DEF Delete, StillKnows
    <2> QED  BY <2>1, <2>3, <2>4, RestKeepsWork
  <1>4. ASSUME NEW i \in Ids, NEW u \in Users, RunNow(u, i)
        PROVE  WorkInv'
    <2>1. NoneForTheFuture' /\ RowsRest
      BY <1>0, <1>4 DEF RunNow, rows, NoneForTheFuture, RowsRest
    <2>2. thr'[u].run = thr[u].run /\ thr'[u].pc = "record"
      BY <1>0, <1>4 DEF RunNow, ThreadStates, Threads
    <2>3. \A h \in Threads \ {u} : thr'[h] = thr[h]
      BY <1>0, <1>4 DEF RunNow
    <2>4. \A h \in Threads : StillKnows(h)
      BY <2>2, <2>3 DEF StillKnows
    <2> QED  BY <2>1, <2>4, RestKeepsWork
  <1> QED  BY <1>1, <1>2, <1>3, <1>4 DEF Routes

\* The row of a run: the thread that made it knows it, and closes it with what
\* it did.
LEMMA RecordWorks ==
  ASSUME WorkInv, Typed', NEW k \in Threads, RecordRun(k)
  PROVE  WorkInv'
  <1>0. /\ Typed /\ thr \in [Threads -> ThreadStates] /\ runs \in Seq(RunRows)
        /\ NoneForTheFuture /\ \A h \in Threads : KnowsItsRun(h)
    BY DEF WorkInv, Typed, TypeOK
  <1>1. NoneForTheFuture'
    BY <1>0 DEF RecordRun, NoneForTheFuture
  <1>2. CASE ~Live(thr[k].cur)
    <2>1. Goto(k, "work") /\ RowsRest
      BY <1>2 DEF RecordRun, RowsRest
    <2> QED  BY <1>0, <1>1, <2>1, OneGoes, RestKeepsWork
  <1>3. CASE Live(thr[k].cur)
    <2> DEFINE row == [sched |-> thr[k].cur, status |-> "running",
                       tick |-> k \in Tickers, worked |-> FALSE]
    <2>1. runs' = Append(runs, row)
      BY <1>3 DEF RecordRun
    <2>2. thr' = [thr EXCEPT ![k].pc = "work", ![k].run = Len(runs) + 1]
      BY <1>3 DEF RecordRun
    <2>3. /\ DOMAIN runs' = 1 .. Len(runs) + 1 /\ DOMAIN runs = 1 .. Len(runs)
          /\ Len(runs) \in Nat /\ runs'[Len(runs) + 1] = row
          /\ \A r \in DOMAIN runs : runs'[r] = runs[r]
      BY <1>0, <2>1
    <2>4. KnowsItsRun(k)'
      <3>1. thr'[k].run = Len(runs) + 1 /\ thr'[k].pc = "work"
        BY <1>0, <2>2 DEF ThreadStates
      <3>2. Len(runs) + 1 \in DOMAIN runs'
        BY <2>3
      <3>3. k \notin Tickers => ~row.tick
        OBVIOUS
      <3>4. k \notin Tickers => ~runs'[thr'[k].run].tick
        BY <2>3, <3>1, <3>3
      <3> HIDE DEF row
      <3> QED  BY <3>1, <3>2, <3>4 DEF KnowsItsRun
    <2>5. ASSUME NEW h \in Threads \ {k} PROVE KnowsItsRun(h)'
      <3>1. thr'[h] = thr[h]
        BY <1>0, <2>2
      <3>2. DOMAIN runs \subseteq DOMAIN runs'
        BY <2>3
      <3>3. thr[h].run \in {0} \cup DOMAIN runs
        BY <1>0 DEF KnowsItsRun
      <3> QED  BY <1>0, <2>3, <3>1, <3>2, <3>3 DEF KnowsItsRun
    <2>6. CompletedRunsWorked'
      <3> SUFFICES ASSUME NEW r \in DOMAIN runs', runs'[r].tick,
                          runs'[r].status = "completed"
                   PROVE  runs'[r].worked
        BY DEF CompletedRunsWorked
      <3>1. r \in DOMAIN runs
        BY <2>3
      <3> QED  BY <2>3, <3>1 DEF WorkInv, CompletedRunsWorked
    <2> QED  BY <1>1, <2>4, <2>5, <2>6 DEF WorkInv
  <1> QED  BY <1>2, <1>3

LEMMA CloseWorks ==
  ASSUME WorkInv, Typed', NEW k \in Threads, CloseRow(k)
  PROVE  WorkInv'
  <1>0. /\ Typed /\ thr \in [Threads -> ThreadStates] /\ runs \in Seq(RunRows)
        /\ NoneForTheFuture /\ \A h \in Threads : KnowsItsRun(h)
    BY DEF WorkInv, Typed, TypeOK
  <1>1. NoneForTheFuture'
    BY <1>0 DEF CloseRow, NoneForTheFuture
  <1>2. \A h \in Threads : StillKnows(h)
    BY <1>0, OnwardsKnows DEF CloseRow
  <1> DEFINE status == IF thr[k].pc = "complete" THEN "completed" ELSE "failed"
  <1>3. MarkRow(k, status) /\ thr[k].pc \in {"complete", "fail"}
    BY DEF CloseRow
  <1>4. \A r \in DOMAIN runs : runs[r] \in RunRows
    BY <1>0
  <1>5. /\ DOMAIN runs' = DOMAIN runs
        /\ \A r \in DOMAIN runs :
             /\ runs'[r].tick = runs[r].tick
             /\ \/ runs'[r] = runs[r]
                \/ /\ r = thr[k].run /\ runs'[r].status = status
                   /\ runs'[r].worked = thr[k].did
    BY <1>3, <1>4 DEF MarkRow, RunRows
  <1>6. \A h \in Threads : KnowsItsRun(h)'
    BY <1>0, <1>2, <1>5 DEF KnowsItsRun, StillKnows
  <1>7. CompletedRunsWorked'
    <2> SUFFICES ASSUME NEW r \in DOMAIN runs, runs'[r].tick,
                        runs'[r].status = "completed"
                 PROVE  runs'[r].worked
      BY <1>5 DEF CompletedRunsWorked
    <2>1. CASE runs'[r] = runs[r]
      BY <2>1 DEF WorkInv, CompletedRunsWorked
    <2>2. CASE r = thr[k].run /\ runs'[r].status = status /\ runs'[r].worked = thr[k].did
      <3>1. runs[r].tick /\ thr[k].pc = "complete"
        BY <1>5, <2>2
      <3>2. r # 0
        BY <1>0
      <3>3. k \in Tickers
        BY <1>0, <2>2, <3>1, <3>2 DEF KnowsItsRun
      <3> QED  BY <1>0, <2>2, <3>1, <3>3 DEF KnowsItsRun
    <2> QED  BY <1>5, <2>1, <2>2
  <1> QED  BY <1>1, <1>6, <1>7 DEF WorkInv

\* The other steps of a thread leave the rows alone.
LEMMA StepWorks ==
  ASSUME WorkInv, Typed', NEW k \in Threads,
         (k \in Tickers /\ TickStart(k)) \/ Step(k) \/ StepFails(k)
  PROVE  WorkInv'
  <1>0. /\ Typed /\ sched \in [Ids -> Schedules] /\ thr \in [Threads -> ThreadStates]
        /\ NoneForTheFuture /\ \A h \in Threads : KnowsItsRun(h)
    BY DEF WorkInv, Typed, TypeOK
  <1>1. ASSUME runs' = runs PROVE RowsRest
    BY <1>1 DEF RowsRest
  <1>2. ASSUME sched' = sched PROVE NoneForTheFuture'
    BY <1>0, <1>2 DEF NoneForTheFuture
  <1>3. ASSUME k \in Tickers, TickStart(k) PROVE WorkInv'
    <2>1. RowsRest /\ NoneForTheFuture'
      BY <1>1, <1>2, <1>3 DEF TickStart, rows
    <2>2. thr'[k].run = thr[k].run /\ thr'[k].pc = "next"
      BY <1>0, <1>3 DEF TickStart, ThreadStates
    <2>3. \A h \in Threads \ {k} : thr'[h] = thr[h]
      BY <1>0, <1>3 DEF TickStart
    <2> QED  BY <2>1, <2>2, <2>3, RestKeepsWork DEF StillKnows
  <1>4. ASSUME TickEnd(k), runs' = runs, sched' = sched PROVE WorkInv'
    <2>1. \A h \in Threads : StillKnows(h)
      BY <1>0, <1>4, OneMoves DEF TickEnd, Idle
    <2> QED  BY <1>1, <1>2, <1>4, <2>1, RestKeepsWork
  <1>5. ASSUME NEW d \in thr[k].due, NEW p \in Periods, Advance(k, d, p)
        PROVE  WorkInv'
    <2>1. RowsRest
      BY <1>1, <1>5 DEF Advance
    <2>2. NoneForTheFuture'
      BY <1>0, <1>5 DEF Advance, NoneForTheFuture, Schedules
    <2>3. \A h \in Threads : StillKnows(h)
      BY <1>0, <1>5, OneMoves DEF Advance, Idle
    <2> QED  BY <2>1, <2>2, <2>3, RestKeepsWork
  <1>6. ASSUME Work(k) PROVE WorkInv'
    <2>1. RowsRest /\ NoneForTheFuture'
      BY <1>1, <1>2, <1>6 DEF Work, rows
    <2> QED  BY <1>6, <2>1, WorkDone, RestKeepsWork DEF Work
  <1>7. ASSUME NEW j \in Ids, NEW p \in Periods, WorkRearms(k, j, p)
        PROVE  WorkInv'
    <2>1. thr[k].cur \in Ids
      BY <1>0, <1>7 DEF WorkRearms, Typed, WorksForSomething
    <2>2. sched[thr[k].cur].kind # "future"
      BY <1>0, <2>1 DEF NoneForTheFuture
    <2>3. RowsRest /\ NoneForTheFuture'
      BY <1>0, <1>1, <1>7, <2>2, NewRowWorks DEF WorkRearms
    <2>4. \A h \in Threads : StillKnows(h)
      BY <1>0, <1>7, WorkDone, OneGoes DEF WorkRearms
    <2> QED  BY <2>3, <2>4, RestKeepsWork
  <1>8. ASSUME NEW label \in Labels, Goto(k, label), runs' = runs,
               label \in {"settle", "complete"} => thr[k].pc = "settle",
               sched' = sched \/ CountRun(k)
        PROVE  WorkInv'
    <2>1. \A h \in Threads : StillKnows(h)
      BY <1>0, <1>8, OneGoes
    <2>2. NoneForTheFuture'
      BY <1>0, <1>2, <1>8, CountRunWorks
    <2> QED  BY <1>1, <1>8, <2>1, <2>2, RestKeepsWork
  <1>9. ASSUME CloseRowFails(k) PROVE WorkInv'
    <2>1. RowsRest /\ NoneForTheFuture'
      BY <1>1, <1>2, <1>9 DEF CloseRowFails, rows
    <2> QED  BY <1>0, <1>9, <2>1, OnwardsKnows, RestKeepsWork DEF CloseRowFails
  <1>10. ASSUME AllDone(k) \/ AdvanceFails(k) PROVE WorkInv'
    BY <1>4, <1>10 DEF AllDone, AdvanceFails, TickAborts, rows
  <1>11. ASSUME RecordRunFails(k) \/ WorkRaises(k) \/ Settle(k) \/ SettleFails(k) \/ Except(k)
         PROVE  WorkInv'
    BY <1>8, <1>11 DEF RecordRunFails, WorkRaises, Settle, SettleFails, Except, rows, Labels
  <1>12. ASSUME ExceptFails(k) PROVE WorkInv'
    BY <1>4, <1>8, <1>12 DEF ExceptFails, TickAborts, rows, Labels
  <1> QED
    BY <1>3, <1>5, <1>6, <1>7, <1>9, <1>10, <1>11, <1>12, RecordWorks, CloseWorks
    DEF Step, StepFails

LEMMA WorkStep ==
  ASSUME WorkInv, "future" \notin Kinds, [Next]_vars
  PROVE  WorkInv'
  <1>1. Typed'
    BY TypedStep DEF WorkInv
  <1>2. CASE Routes
    BY <1>1, <1>2, RoutesWork
  <1>3. CASE \E k \in Threads : Step(k) \/ StepFails(k)
    BY <1>1, <1>3, StepWorks
  <1>4. CASE \E k \in Tickers : TickStart(k)
    BY <1>1, <1>4, StepWorks DEF Threads
  <1>5. CASE Crash
    <2>1. NoneForTheFuture' /\ RowsRest
      BY <1>5 DEF Crash, rows, WorkInv, NoneForTheFuture, RowsRest
    <2>2. \A k \in Threads : StillKnows(k)
      BY <1>5 DEF Crash, StillKnows, Idle
    <2> QED  BY <1>1, <2>1, <2>2, RestKeepsWork
  <1>6. CASE Tick \/ UNCHANGED vars
    <2>1. NoneForTheFuture' /\ RowsRest /\ thr' = thr
      BY <1>6 DEF Tick, vars, rows, WorkInv, NoneForTheFuture, RowsRest
    <2>2. \A k \in Threads : StillKnows(k)
      BY <2>1 DEF StillKnows
    <2> QED  BY <1>1, <2>1, <2>2, RestKeepsWork
  <1> QED  BY <1>2, <1>3, <1>4, <1>5, <1>6 DEF Next

(***************************************************************************)
(* Unless schedules whose text is a recurrence only are made, every run a  *)
(* tick records as completed did the work of its schedule: engine tools    *)
(* and tasks alike, with runs by hand and re-created schedules in between, *)
(* whatever raises and wherever the server stops.                          *)
(***************************************************************************)
THEOREM CompletedRunsDidTheWork ==
  "future" \notin Kinds => (Spec => []CompletedRunsWorked)
  <1> SUFFICES ASSUME "future" \notin Kinds PROVE Spec => []CompletedRunsWorked
    OBVIOUS
  <1>1. Init => WorkInv
    <2> SUFFICES ASSUME Init PROVE WorkInv
      OBVIOUS
    <2>1. Typed
      BY TypedInit
    <2>2. NoneForTheFuture /\ CompletedRunsWorked
      BY DEF Init, Unborn, NoneForTheFuture, CompletedRunsWorked
    <2>3. \A k \in Threads : KnowsItsRun(k)
      BY DEF Init, Idle, KnowsItsRun
    <2> QED  BY <2>1, <2>2, <2>3 DEF WorkInv
  <1>2. WorkInv /\ [Next]_vars => WorkInv'
    BY WorkStep
  <1>3. WorkInv => CompletedRunsWorked
    BY DEF WorkInv
  <1> QED  BY <1>1, <1>2, <1>3, PTL DEF Spec

-----------------------------------------------------------------------------
(***************************************************************************)
(* The bookkeeping of undisturbed runs.  A thread that runs a workflow has *)
(* a row of its schedule, or the schedule was deleted before there was     *)
(* one; a running row has its thread; and the runs that were counted are   *)
(* closed, or a thread is about to close them.                             *)
(***************************************************************************)
Recorded == {"work", "settle", "except", "complete", "fail"}
Closed(i)  == {r \in DOMAIN runs :
                 runs[r].sched = i /\ runs[r].status \in {"completed", "failed"}}
Closing(i) == {k \in Threads : thr[k].cur = i /\ thr[k].pc \in {"complete", "fail"}}

BookThread(k) ==
  /\ thr[k].pc \notin {"idle", "next"} => sched[thr[k].cur].state # "unborn"
  /\ \A d \in thr[k].due : sched[d[1]].state # "unborn"
  /\ thr[k].run # 0 =>
       /\ thr[k].pc \in Recorded /\ thr[k].run \in DOMAIN runs
       /\ runs[thr[k].run].sched = thr[k].cur
       /\ runs[thr[k].run].status \in {"running", "deleted"}
  /\ thr[k].run = 0 /\ thr[k].pc \in Recorded => sched[thr[k].cur].state = "deleted"

BookRow(r) ==
  /\ sched[runs[r].sched].state # "unborn"
  /\ runs[r].status = "deleted" => sched[runs[r].sched].state = "deleted"
  /\ runs[r].status = "running" => \E k \in Threads : thr[k].run = r

BookCount(i) ==
  /\ IsFiniteSet(Closing(i))
  /\ sched[i].runCount = Cardinality(Closed(i)) + Cardinality(Closing(i))

Book ==
  /\ \A k \in Threads : BookThread(k)
  /\ \A j, k \in Threads : thr[j].run = thr[k].run /\ thr[k].run # 0 => j = k
  /\ \A r \in DOMAIN runs : BookRow(r)
  /\ \A i \in Ids : Live(i) => BookCount(i)

BookInv == Typed /\ (Undisturbed => Book)

\* What the types say, in short.
LEMMA BookTypes ==
  ASSUME Typed
  PROVE  /\ thr \in [Threads -> ThreadStates] /\ sched \in [Ids -> Schedules]
         /\ runs \in Seq(RunRows) /\ Len(runs) \in Nat /\ DOMAIN runs = 1 .. Len(runs)
         /\ \A r \in DOMAIN runs : runs[r] \in RunRows /\ runs[r].sched \in Ids
         /\ \A k \in Threads : \A d \in thr[k].due : d[1] \in Ids
         /\ \A k \in Threads : thr[k].pc \notin {"idle", "next"} => thr[k].cur \in Ids
         /\ faults \in Nat /\ Tickers \subseteq Threads /\ Users \subseteq Threads
  <1>1. \A k \in Threads : \A d \in thr[k].due : d[1] \in Ids
    BY DEF Typed, TypeOK, ThreadStates
  <1>2. \A r \in DOMAIN runs : runs[r] \in RunRows /\ runs[r].sched \in Ids
    <2>1. runs \in Seq(RunRows)
      BY DEF Typed, TypeOK
    <2>2. \A r \in DOMAIN runs : runs[r] \in RunRows
      BY <2>1
    <2> QED  BY <2>2 DEF RunRows
  <1> QED  BY <1>1, <1>2 DEF Typed, TypeOK, WorksForSomething, Threads

\* Closed rows are finitely many.
LEMMA ClosedFinite ==
  ASSUME Typed, NEW i
  PROVE  IsFiniteSet(Closed(i)) /\ Cardinality(Closed(i)) \in Nat
  <1>1. IsFiniteSet(DOMAIN runs)
    BY BookTypes, FS_Interval
  <1> QED  BY <1>1, FS_Subset, FS_CardinalityType DEF Closed

\* A schedule keeps its state and count, or is new, or is deleted.
StateGrows(i) ==
  \/ sched'[i].state = sched[i].state /\ sched'[i].runCount = sched[i].runCount
  \/ sched[i].state = "unborn" /\ sched'[i].state = "live" /\ sched'[i].runCount = 0

(***************************************************************************)
(* Steps between the recording and the closing of rows.                    *)
(***************************************************************************)
LEMMA BookMoves ==
  ASSUME Typed, Typed', Book, runs' = runs, \A i \in Ids : StateGrows(i),
         \A k \in Threads :
           \/ thr'[k] = thr[k]
           \/ /\ BookThread(k)' /\ thr'[k].run = thr[k].run
              /\ thr[k].pc \notin {"complete", "fail"}
              /\ thr'[k].pc \notin {"complete", "fail"}
  PROVE  Book'
  <1>1. ASSUME NEW k \in Threads PROVE BookThread(k)'
    <2> SUFFICES ASSUME thr'[k] = thr[k] PROVE BookThread(k)'
      OBVIOUS
    <2> QED  BY BookTypes DEF Book, BookThread, StateGrows, Recorded
  <1>2. \A k \in Threads : thr'[k].run = thr[k].run
    OBVIOUS
  <1>3. ASSUME NEW r \in DOMAIN runs' PROVE BookRow(r)'
    <2>1. BookRow(r) /\ runs[r].sched \in Ids
      BY BookTypes DEF Book
    <2> QED  BY <1>2, <2>1 DEF BookRow, StateGrows
  <1>4. ASSUME NEW i \in Ids, Live(i)' PROVE BookCount(i)'
    <2>1. Closed(i)' = Closed(i)
      BY DEF Closed
    <2>2. CASE Live(i)
      <3>1. Closing(i)' = Closing(i)
        BY DEF Closing
      <3>2. sched'[i].runCount = sched[i].runCount /\ BookCount(i)
        BY <2>2 DEF Live, StateGrows, Book
      <3> QED  BY <2>1, <3>1, <3>2 DEF BookCount
    <2>3. CASE ~Live(i)
      <3>1. sched[i].state = "unborn" /\ sched'[i].runCount = 0
        BY <1>4, <2>3 DEF Live, StateGrows
      <3>2. Closed(i)' = {}
        BY <2>1, <3>1 DEF Closed, Book, BookRow
      <3>3. Closing(i)' = {}
        BY <3>1 DEF Closing, Book, BookThread
      <3> QED  BY <3>1, <3>2, <3>3, FS_EmptySet DEF BookCount
    <2> QED  BY <2>2, <2>3
  <1> QED  BY <1>1, <1>2, <1>3, <1>4 DEF Book

\* One thread moves.
LEMMA OneBooked ==
  ASSUME Typed, Typed', Book, runs' = runs, \A i \in Ids : StateGrows(i),
         NEW k \in Threads, NEW t, thr' = [thr EXCEPT ![k] = t],
         BookThread(k)', t.run = thr[k].run,
         thr[k].pc \notin {"complete", "fail"}, t.pc \notin {"complete", "fail"}
  PROVE  Book'
  BY BookTypes, BookMoves

\* The routes, but for the delete.
LEMMA RoutesBooked ==
  ASSUME Typed, Typed', Book, NEW i \in Ids,
         \/ \E kind \in Kinds, p \in Periods : Create(i, kind, p)
         \/ Pause(i) \/ Resume(i) \/ \E u \in Users : RunNow(u, i)
  PROVE  Book'
  <1>0. sched \in [Ids -> Schedules] /\ thr \in [Threads -> ThreadStates]
    BY BookTypes
  <1>1. ASSUME NEW kind \in Kinds, NEW p \in Periods, Create(i, kind, p) PROVE Book'
    <2>1. \A j \in Ids : StateGrows(j)
      BY <1>0, <1>1 DEF Create, StateGrows, NewRow
    <2> QED  BY <1>1, <2>1, BookMoves DEF Create
  <1>2. CASE Pause(i) \/ Resume(i)
    <2>1. \A j \in Ids : StateGrows(j)
      BY <1>0, <1>2 DEF Pause, Resume, StateGrows, Schedules
    <2> QED  BY <1>2, <2>1, BookMoves DEF Pause, Resume
  <1>3. ASSUME NEW u \in Users, RunNow(u, i) PROVE Book'
    <2>1. u \in Threads /\ thr[u] = Idle /\ sched' = sched /\ runs' = runs /\ Live(i)
      BY <1>3, BookTypes DEF RunNow, rows
    <2> DEFINE t == [Idle EXCEPT !.pc = "record", !.cur = i]
    <2>2. thr' = [thr EXCEPT ![u] = t]
      BY <1>0, <1>3, <2>1 DEF RunNow
    <2>3. /\ t.pc = "record" /\ t.cur = i /\ t.run = 0 /\ t.due = {}
          /\ thr[u].run = 0 /\ thr[u].pc = "idle"
      BY <2>1 DEF Idle
    <2> HIDE DEF t
    <2>4. BookThread(u)'
      BY <1>0, <2>1, <2>2, <2>3 DEF BookThread, Recorded, Live
    <2>5. \A j \in Ids : StateGrows(j)
      BY <2>1 DEF StateGrows
    <2> QED  BY <2>1, <2>2, <2>3, <2>4, <2>5, OneBooked
  <1> QED  BY <1>1, <1>2, <1>3

\* A schedule is deleted with its rows.
LEMMA DeleteBooked ==
  ASSUME Typed, Typed', Book, NEW i \in Ids, Delete(i)
  PROVE  Book'
  <1>0. /\ sched \in [Ids -> Schedules] /\ Live(i) /\ thr' = thr
        /\ \A r \in DOMAIN runs : runs[r] \in RunRows /\ runs[r].sched \in Ids
    BY BookTypes DEF Delete
  <1>1. /\ sched'[i].state = "deleted"
        /\ \A j \in Ids : j # i => sched'[j] = sched[j]
    BY <1>0 DEF Delete, Schedules
  <1>2. /\ DOMAIN runs' = DOMAIN runs
        /\ \A r \in DOMAIN runs :
             /\ runs'[r].sched = runs[r].sched
             /\ runs'[r].status = IF runs[r].sched = i THEN "deleted" ELSE runs[r].status
    BY <1>0 DEF Delete, RunRows
  <1>3. \A j \in Ids : sched'[j].state = IF j = i THEN "deleted" ELSE sched[j].state
    BY <1>1
  <1>4. ASSUME NEW k \in Threads PROVE BookThread(k)'
    <2>1. BookThread(k)
      BY DEF Book
    <2>2. \A d \in thr[k].due : d[1] \in Ids
      BY BookTypes
    <2>3. thr[k].pc \notin {"idle", "next"} => thr[k].cur \in Ids
      BY BookTypes
    <2> QED  BY <1>0, <1>2, <1>3, <2>1, <2>2, <2>3 DEF BookThread, Recorded
  <1>5. ASSUME NEW r \in DOMAIN runs' PROVE BookRow(r)'
    <2>1. BookRow(r) /\ r \in DOMAIN runs
      BY <1>2 DEF Book
    <2> QED  BY <1>0, <1>2, <1>3, <2>1 DEF BookRow
  <1>6. ASSUME NEW j \in Ids, Live(j)' PROVE BookCount(j)'
    <2>1. j # i /\ Live(j) /\ sched'[j] = sched[j]
      BY <1>1, <1>6 DEF Live
    <2>2. Closed(j)' = Closed(j) /\ Closing(j)' = Closing(j)
      BY <1>0, <1>2, <2>1 DEF Closed, Closing
    <2> QED  BY <2>1, <2>2 DEF Book, BookCount
  <1> QED  BY <1>0, <1>4, <1>5, <1>6 DEF Book

\* The thread of a run that begins, or goes on to where it is counted.
LEMMA ThreadsBooked ==
  ASSUME Typed, Typed', Book, NEW k \in Threads,
         \/ k \in Tickers /\ TickStart(k)
         \/ AllDone(k) \/ \E d \in thr[k].due, p \in Periods : Advance(k, d, p)
         \/ Work(k) \/ WorkRaises(k) \/ \E j \in Ids, p \in Periods : WorkRearms(k, j, p)
  PROVE  Book'
  <1>0. /\ sched \in [Ids -> Schedules] /\ thr \in [Threads -> ThreadStates]
        /\ BookThread(k)
    BY BookTypes DEF Book
  <1>1. ASSUME sched' = sched PROVE \A i \in Ids : StateGrows(i)
    BY <1>1 DEF StateGrows
  <1>2. CASE k \in Tickers /\ TickStart(k)
    <2> DEFINE due == {<<i, sched[i].next>> : i \in {j \in Ids : Due(j)}}
               t == [Idle EXCEPT !.pc = "next", !.due = due]
    <2>1. thr' = [thr EXCEPT ![k] = t] /\ thr[k] = Idle
      BY <1>0, <1>2 DEF TickStart
    <2>2. \A d \in due : sched[d[1]].state # "unborn"
      BY DEF Due, Live
    <2>3. sched' = sched /\ runs' = runs
      BY <1>2 DEF TickStart, rows
    <2>4. /\ t.pc = "next" /\ t.run = 0 /\ t.due = due
          /\ thr[k].run = 0 /\ thr[k].pc = "idle"
      BY <2>1 DEF Idle
    <2> HIDE DEF t
    <2>5. thr'[k] = t
      BY <1>0, <2>1
    <2>6. BookThread(k)'
      BY <2>2, <2>3, <2>4, <2>5 DEF BookThread, Recorded
    <2> QED  BY <1>1, <2>1, <2>3, <2>4, <2>6, OneBooked
  <1>3. CASE AllDone(k)
    <2>1. thr' = [thr EXCEPT ![k] = Idle] /\ thr[k].pc = "next" /\ UNCHANGED <<sched, runs>>
      BY <1>3 DEF AllDone, TickEnd, rows
    <2>2. thr[k].run = 0
      BY <1>0, <2>1 DEF BookThread, Recorded
    <2>3. BookThread(k)'
      BY <1>0, <2>1 DEF BookThread, Idle, Recorded
    <2> QED  BY <1>1, <2>1, <2>2, <2>3, OneBooked DEF Idle
  <1>4. ASSUME NEW d \in thr[k].due, NEW p \in Periods, Advance(k, d, p) PROVE Book'
    <2> DEFINE t == [Idle EXCEPT !.pc = "record", !.cur = d[1], !.slot = d[2],
                                 !.due = thr[k].due \ {d}]
    <2>1. thr' = [thr EXCEPT ![k] = t] /\ thr[k].pc = "next" /\ runs' = runs
      BY <1>4 DEF Advance
    <2>2. \A i \in Ids : sched'[i].state = sched[i].state /\ sched'[i].runCount = sched[i].runCount
      <3>1. CASE Live(d[1])
        <4>1. d[1] \in Ids /\ sched' = [sched EXCEPT ![d[1]].next = clock + p]
          BY <1>4, <3>1, BookTypes DEF Advance
        <4> QED  BY <1>0, <4>1 DEF Schedules
      <3>2. CASE ~Live(d[1])
        BY <1>4, <3>2 DEF Advance
      <3> QED  BY <3>1, <3>2
    <2>3. t.pc = "record" /\ t.run = 0 /\ t.cur = d[1] /\ t.due \subseteq thr[k].due
      BY DEF Idle
    <2> HIDE DEF t
    <2>4. thr'[k] = t
      BY <1>0, <2>1
    <2>5. \A e \in thr[k].due : e[1] \in Ids /\ sched'[e[1]].state # "unborn"
      BY <1>0, <2>2, BookTypes DEF BookThread
    <2>6. BookThread(k)'
      BY <2>3, <2>4, <2>5 DEF BookThread, Recorded
    <2>7. thr[k].run = 0
      BY <1>0, <2>1 DEF BookThread, Recorded
    <2> QED  BY <2>1, <2>2, <2>3, <2>6, <2>7, OneBooked DEF StateGrows
  <1>5. ASSUME thr[k].pc = "work", thr'[k].pc \in {"settle", "except"},
               thr'[k].run = thr[k].run, thr'[k].cur = thr[k].cur, thr'[k].due = thr[k].due,
               \A h \in Threads \ {k} : thr'[h] = thr[h],
               runs' = runs, \A i \in Ids : StateGrows(i)
        PROVE  Book'
    <2>1. BookThread(k)'
      BY <1>0, <1>5, BookTypes DEF BookThread, Recorded, StateGrows
    <2> QED  BY <1>5, <2>1, BookMoves
  <1>6. ASSUME NEW did, thr[k].pc = "work",
               \/ thr' = [thr EXCEPT ![k].pc = "settle", ![k].did = did]
               \/ Goto(k, "except"),
               runs' = runs, \A i \in Ids : StateGrows(i)
        PROVE  Book'
    <2>1. /\ thr'[k].pc \in {"settle", "except"}
          /\ thr'[k].run = thr[k].run /\ thr'[k].cur = thr[k].cur /\ thr'[k].due = thr[k].due
      BY <1>0, <1>6 DEF Goto, ThreadStates
    <2>2. \A h \in Threads \ {k} : thr'[h] = thr[h]
      BY <1>0, <1>6 DEF Goto
    <2> QED  BY <1>5, <1>6, <2>1, <2>2
  <1>7. CASE Work(k) \/ WorkRaises(k)
    BY <1>1, <1>6, <1>7 DEF Work, WorkRaises, rows
  <1>8. ASSUME NEW j \in Ids, NEW p \in Periods, WorkRearms(k, j, p) PROVE Book'
    <2>1. \A i \in Ids : StateGrows(i)
      BY <1>0, <1>8 DEF WorkRearms, StateGrows, NewRow
    <2> QED  BY <1>6, <1>8, <2>1 DEF WorkRearms
  <1> QED  BY <1>2, <1>3, <1>4, <1>7, <1>8

\* A run is recorded, or its schedule was deleted meanwhile.
LEMMA RecordBooked ==
  ASSUME Typed, Typed', Book, NEW k \in Threads, RecordRun(k)
  PROVE  Book'
  <1>0. /\ thr \in [Threads -> ThreadStates] /\ runs \in Seq(RunRows)
        /\ Len(runs) \in Nat /\ DOMAIN runs = 1 .. Len(runs)
        /\ BookThread(k) /\ thr[k].pc = "record" /\ sched' = sched
    BY BookTypes DEF Book, RecordRun
  <1>1. thr[k].run = 0 /\ thr[k].cur \in Ids /\ sched[thr[k].cur].state # "unborn"
    BY <1>0, BookTypes DEF BookThread, Recorded
  <1>2. CASE ~Live(thr[k].cur)
    <2>1. Goto(k, "work") /\ runs' = runs
      BY <1>2 DEF RecordRun
    <2>2. sched[thr[k].cur].state = "deleted"
      BY <1>1, <1>2, BookTypes DEF Live, Schedules
    <2>3. /\ thr'[k].pc = "work" /\ thr'[k].run = 0
          /\ thr'[k].cur = thr[k].cur /\ thr'[k].due = thr[k].due
          /\ \A h \in Threads \ {k} : thr'[h] = thr[h]
      BY <1>0, <1>1, <2>1 DEF Goto, ThreadStates
    <2>4. BookThread(k)'
      BY <1>0, <2>1, <2>2, <2>3 DEF BookThread, Recorded
    <2>5. \A i \in Ids : StateGrows(i)
      BY <1>0 DEF StateGrows
    <2> QED  BY <1>0, <1>1, <2>1, <2>3, <2>4, <2>5, BookMoves
  <1>3. CASE Live(thr[k].cur)
    <2> DEFINE row == [sched |-> thr[k].cur, status |-> "running",
                       tick |-> k \in Tickers, worked |-> FALSE]
    <2>1. PICK n : n = Len(runs) + 1
      OBVIOUS
    <2>2. /\ runs' = Append(runs, row)
          /\ thr' = [thr EXCEPT ![k].pc = "work", ![k].run = n]
      BY <1>3, <2>1 DEF RecordRun
    <2>3. row.sched = thr[k].cur /\ row.status = "running"
      OBVIOUS
    <2> HIDE DEF row
    <2>4. /\ DOMAIN runs' = DOMAIN runs \cup {n} /\ n \notin DOMAIN runs /\ n # 0
          /\ runs'[n] = row /\ \A r \in DOMAIN runs : runs'[r] = runs[r]
      BY <1>0, <2>1, <2>2
    <2>5. /\ thr'[k].pc = "work" /\ thr'[k].run = n
          /\ thr'[k].cur = thr[k].cur /\ thr'[k].due = thr[k].due
          /\ \A h \in Threads \ {k} : thr'[h] = thr[h]
      BY <1>0, <2>2 DEF ThreadStates
    <2>6. ASSUME NEW h \in Threads PROVE BookThread(h)'
      <3>1. CASE h = k
        BY <1>0, <1>1, <2>3, <2>4, <2>5, <3>1 DEF BookThread, Recorded
      <3>2. CASE h # k
        <4>1. BookThread(h) /\ thr'[h] = thr[h]
          BY <2>5, <3>2 DEF Book
        <4> QED  BY <1>0, <2>4, <4>1 DEF BookThread
      <3> QED  BY <3>1, <3>2
    <2>7. ASSUME NEW h \in Threads, NEW j \in Threads, thr'[h].run = thr'[j].run, thr'[j].run # 0
          PROVE  h = j
      <3>1. \A v \in Threads : v # k => thr[v].run \in {0} \cup DOMAIN runs
        BY DEF Book, BookThread
      <3>2. \A v \in Threads : v # k => thr'[v].run # n /\ thr'[v] = thr[v]
        BY <2>4, <2>5, <3>1
      <3> QED  BY <2>5, <2>7, <3>2 DEF Book
    <2>8. ASSUME NEW r \in DOMAIN runs' PROVE BookRow(r)'
      <3>1. CASE r = n
        BY <1>0, <1>1, <2>3, <2>4, <2>5, <3>1 DEF BookRow
      <3>2. CASE r # n
        <4>1. r \in DOMAIN runs /\ runs'[r] = runs[r] /\ BookRow(r) /\ r # 0
          BY <1>0, <2>4, <3>2 DEF Book
        <4>2. \A h \in Threads : thr[h].run = r => thr'[h].run = r
          BY <1>1, <2>5, <4>1
        <4> QED  BY <1>0, <4>1, <4>2 DEF BookRow
      <3> QED  BY <3>1, <3>2
    <2>9. ASSUME NEW i \in Ids, Live(i)' PROVE BookCount(i)'
      <3>1. Closed(i)' = Closed(i)
        BY <2>3, <2>4 DEF Closed
      <3>2. Closing(i)' = Closing(i)
        BY <1>0, <2>5 DEF Closing
      <3>3. BookCount(i)
        BY <1>0, <2>9 DEF Live, Book
      <3> QED  BY <1>0, <3>1, <3>2, <3>3 DEF BookCount
    <2> QED  BY <2>6, <2>7, <2>8, <2>9 DEF Book
  <1> QED  BY <1>2, <1>3

\* An outcome is counted, by the thread that will close the row.
LEMMA CountBooked ==
  ASSUME Typed, Typed', Book, NEW k \in Threads, Settle(k) \/ Except(k)
  PROVE  Book'
  <1>0. /\ thr \in [Threads -> ThreadStates] /\ sched \in [Ids -> Schedules]
        /\ BookThread(k) /\ thr[k].cur \in Ids /\ runs' = runs
        /\ thr[k].pc \in {"settle", "except"} /\ CountRun(k)
        /\ Goto(k, "complete") \/ Goto(k, "fail")
    BY BookTypes DEF Book, Settle, Except
  <1>1. /\ thr'[k].pc \in {"complete", "fail"} /\ thr'[k].run = thr[k].run
        /\ thr'[k].cur = thr[k].cur /\ thr'[k].due = thr[k].due
        /\ \A h \in Threads \ {k} : thr'[h] = thr[h]
    BY <1>0 DEF Goto, ThreadStates
  <1>2. \A i \in Ids :
          /\ sched'[i].state = sched[i].state
          /\ sched'[i].runCount = IF i = thr[k].cur /\ Live(i) THEN sched[i].runCount + 1
                                                               ELSE sched[i].runCount
    BY <1>0 DEF CountRun, Schedules
  <1>3. ASSUME NEW h \in Threads PROVE BookThread(h)'
    <2>1. BookThread(h)
      BY DEF Book
    <2>2. \A d \in thr[h].due : d[1] \in Ids
      BY BookTypes
    <2>3. thr[h].pc \notin {"idle", "next"} => thr[h].cur \in Ids
      BY BookTypes
    <2>4. CASE h = k
      BY <1>0, <1>1, <1>2, <2>1, <2>2, <2>4 DEF BookThread, Recorded
    <2>5. CASE h # k
      BY <1>0, <1>1, <1>2, <2>1, <2>2, <2>3, <2>5 DEF BookThread, Recorded
    <2> QED  BY <2>4, <2>5
  <1>4. \A h \in Threads : thr'[h].run = thr[h].run
    BY <1>1
  <1>5. ASSUME NEW r \in DOMAIN runs' PROVE BookRow(r)'
    <2>1. BookRow(r) /\ runs[r].sched \in Ids
      BY <1>0, BookTypes DEF Book
    <2> QED  BY <1>0, <1>2, <1>4, <2>1 DEF BookRow
  <1>6. ASSUME NEW i \in Ids, Live(i)' PROVE BookCount(i)'
    <2>1. Closed(i)' = Closed(i) /\ Cardinality(Closed(i)) \in Nat
      BY <1>0, ClosedFinite DEF Closed
    <2>2. Live(i) /\ BookCount(i)
      BY <1>2, <1>6 DEF Live, Book
    <2>3. CASE i = thr[k].cur
      <3>1. Closing(i)' = Closing(i) \cup {k} /\ k \notin Closing(i)
        BY <1>0, <1>1, <2>3 DEF Closing
      <3>2. /\ IsFiniteSet(Closing(i)') /\ Cardinality(Closing(i)) \in Nat
            /\ Cardinality(Closing(i)') = Cardinality(Closing(i)) + 1
        BY <2>2, <3>1, FS_AddElement, FS_CardinalityType DEF BookCount
      <3>3. sched'[i].runCount = sched[i].runCount + 1
        BY <1>2, <2>2, <2>3
      <3> QED  BY <2>1, <2>2, <3>2, <3>3 DEF BookCount
    <2>4. CASE i # thr[k].cur
      <3>1. Closing(i)' = Closing(i)
        BY <1>0, <1>1, <2>4 DEF Closing
      <3>2. sched'[i].runCount = sched[i].runCount
        BY <1>2, <2>4
      <3> QED  BY <2>1, <2>2, <3>1, <3>2 DEF BookCount
    <2> QED  BY <2>3, <2>4
  <1> QED  BY <1>3, <1>4, <1>5, <1>6 DEF Book

\* The row is closed, which is still there if its schedule is.
LEMMA CloseBooked ==
  ASSUME Typed, Typed', Book, NEW k \in Threads, CloseRow(k)
  PROVE  Book'
  <1>0. /\ thr \in [Threads -> ThreadStates] /\ BookThread(k) /\ thr[k].cur \in Ids
        /\ thr[k].pc \in {"complete", "fail"} /\ sched' = sched /\ Onwards(k)
        /\ DOMAIN runs = 1 .. Len(runs) /\ \A r \in DOMAIN runs : runs[r] \in RunRows
    BY BookTypes DEF Book, CloseRow
  <1>1. PICK status \in {"completed", "failed"} : MarkRow(k, status)
    BY DEF CloseRow
  <1>2. /\ thr'[k].run = 0 /\ thr'[k].pc \in {"idle", "next"}
        /\ thr'[k].due \subseteq thr[k].due
        /\ \A h \in Threads \ {k} : thr'[h] = thr[h]
    BY <1>0 DEF Onwards, Idle
  <1>3. PICK n : n = thr[k].run
    OBVIOUS
  <1>4. /\ DOMAIN runs' = DOMAIN runs
        /\ \A r \in DOMAIN runs :
             /\ runs'[r].sched = runs[r].sched
             /\ runs'[r].status = IF r = n /\ runs[r].status # "deleted"
                                    THEN status ELSE runs[r].status
    BY <1>0, <1>1, <1>3 DEF MarkRow, RunRows
  <1>5. \A h \in Threads \ {k} : thr[h].run # 0 => thr[h].run # n
    BY <1>3 DEF Book
  <1>6. ASSUME NEW h \in Threads PROVE BookThread(h)'
    <2>1. CASE h = k
      BY <1>0, <1>2, <2>1 DEF BookThread, Recorded
    <2>2. CASE h # k
      <3>1. BookThread(h) /\ thr'[h] = thr[h] /\ (thr[h].run # 0 => thr[h].run # n)
        BY <1>2, <1>5, <2>2 DEF Book
      <3> QED  BY <1>0, <1>4, <3>1 DEF BookThread
    <2> QED  BY <2>1, <2>2
  <1>7. ASSUME NEW h \in Threads, NEW j \in Threads, thr'[h].run = thr'[j].run, thr'[j].run # 0
        PROVE  h = j
    BY <1>2, <1>7 DEF Book
  <1>8. ASSUME NEW r \in DOMAIN runs' PROVE BookRow(r)'
    <2>1. BookRow(r) /\ r \in DOMAIN runs
      BY <1>4 DEF Book
    <2>2. \A h \in Threads : thr[h].run = r /\ r # n => thr'[h].run = r
      BY <1>2, <1>3
    <2> QED  BY <1>0, <1>1, <1>4, <2>1, <2>2 DEF BookRow
  <1>9. ASSUME NEW i \in Ids, Live(i)' PROVE BookCount(i)'
    <2>1. Live(i) /\ BookCount(i) /\ sched'[i] = sched[i]
      BY <1>0, <1>9 DEF Live, Book
    <2>2. IsFiniteSet(Closed(i)) /\ Cardinality(Closed(i)) \in Nat
      BY ClosedFinite
    <2>3. IsFiniteSet(Closing(i)) /\ Cardinality(Closing(i)) \in Nat
      BY <2>1, FS_CardinalityType DEF BookCount
    <2>4. CASE i = thr[k].cur
      <3>1. n # 0
        BY <1>0, <1>3, <2>1, <2>4 DEF BookThread, Live, Recorded
      <3>2. n \in DOMAIN runs /\ runs[n].sched = i /\ runs[n].status \in {"running", "deleted"}
        BY <1>0, <1>3, <2>4, <3>1 DEF BookThread
      <3>3. runs[n].status = "running"
        BY <2>1, <3>2 DEF Book, BookRow, Live
      <3>4. Closed(i)' = Closed(i) \cup {n} /\ n \notin Closed(i)
        BY <1>1, <1>4, <3>2, <3>3 DEF Closed
      <3>5. Closing(i)' = Closing(i) \ {k} /\ k \in Closing(i)
        BY <1>0, <1>2, <2>4 DEF Closing
      <3>6. Cardinality(Closed(i)') = Cardinality(Closed(i)) + 1
        BY <2>2, <3>4, FS_AddElement
      <3>7. IsFiniteSet(Closing(i)') /\ Cardinality(Closing(i)') = Cardinality(Closing(i)) - 1
        BY <2>3, <3>5, FS_RemoveElement
      <3> QED  BY <2>1, <2>2, <2>3, <3>6, <3>7 DEF BookCount
    <2>5. CASE i # thr[k].cur
      <3>1. Closing(i)' = Closing(i)
        BY <1>2, <2>5 DEF Closing
      <3>2. n \in DOMAIN runs => runs[n].sched # i
        BY <1>0, <1>3, <2>5 DEF BookThread
      <3>3. Closed(i)' = Closed(i)
        BY <1>4, <3>2 DEF Closed
      <3> QED  BY <2>1, <3>1, <3>3 DEF BookCount
    <2> QED  BY <2>4, <2>5
  <1> QED  BY <1>6, <1>7, <1>8, <1>9 DEF Book

\* A storage call that raises disturbs, and so does a stop.
LEMMA BookStep == BookInv /\ [Next]_vars => BookInv'
  <1> SUFFICES ASSUME Typed, Undisturbed => Book, [Next]_vars PROVE Undisturbed' => Book'
    BY TypedStep DEF BookInv
  <1>0. Typed' /\ faults \in Nat
    BY TypedStep, BookTypes
  <1>1. ASSUME Fault PROVE ~Undisturbed'
    BY <1>0, <1>1 DEF Fault, Undisturbed
  <1>2. CASE \E k \in Threads : StepFails(k)
    BY <1>1, <1>2
       DEF StepFails, AdvanceFails, RecordRunFails, SettleFails, ExceptFails, CloseRowFails
  <1>3. CASE Crash
    BY <1>3 DEF Crash, Undisturbed
  <1>4. CASE \/ \E k \in Tickers : TickStart(k)
             \/ \E k \in Threads : Step(k)
             \/ Routes \/ Tick \/ UNCHANGED vars
    <2>1. UNCHANGED <<faults, crashed>>
      BY <1>4
         DEF TickStart, Step, AllDone, Advance, RecordRun, Work, WorkRaises, WorkRearms, Settle,
             Except, CloseRow, Routes, Create, Pause, Resume, Delete, RunNow, Tick, vars, env
    <2> SUFFICES ASSUME Book PROVE Book'
      BY <2>1 DEF Undisturbed
    <2>2. ASSUME NEW k \in Tickers, TickStart(k) PROVE Book'
      BY <1>0, <2>2, ThreadsBooked, BookTypes
    <2>3. ASSUME NEW k \in Threads, Step(k) PROVE Book'
      BY <1>0, <2>3, ThreadsBooked, RecordBooked, CountBooked, CloseBooked DEF Step
    <2>4. CASE Routes
      BY <1>0, <2>4, RoutesBooked, DeleteBooked DEF Routes
    <2>5. CASE Tick \/ UNCHANGED vars
      <3>1. UNCHANGED <<sched, runs, thr>>
        BY <2>5 DEF Tick, vars, rows
      <3> QED  BY <1>0, <3>1, BookMoves DEF StateGrows
    <2> QED  BY <1>4, <2>2, <2>3, <2>4, <2>5
  <1> QED  BY <1>2, <1>3, <1>4 DEF Next

(***************************************************************************)
(* As long as no storage call raises and the server is not stopped, each   *)
(* running row has exactly one thread, and run_count is the number of runs *)
(* with an outcome, for any number of overlapping ticks and manual runs,   *)
(* and with schedules that are paused and deleted under way.               *)
(***************************************************************************)
THEOREM BooksAgree == Spec => []BookkeepingAgrees
  <1>1. ASSUME Init PROVE BookInv
    <2>1. Typed /\ DOMAIN runs = {}
      BY <1>1, TypedInit DEF Init
    <2>2. Book
      BY <1>1, <2>1 DEF Init, Book, BookThread, BookRow, Idle, Unborn, Live, Recorded
    <2> QED  BY <2>1, <2>2 DEF BookInv
  <1>2. ASSUME BookInv PROVE BookkeepingAgrees
    <2> SUFFICES ASSUME Undisturbed PROVE BookkeepingAgrees
      BY DEF BookkeepingAgrees, RunningRowsHaveARunner, RunCountAgrees
    <2>1. Book /\ DOMAIN runs = 1 .. Len(runs)
      BY <1>2, BookTypes DEF BookInv
    <2>2. ASSUME NEW r \in DOMAIN runs, runs[r].status = "running"
          PROVE  Cardinality(Runners(r)) = 1
      <3>1. PICK k \in Threads : thr[k].run = r
        BY <2>1, <2>2 DEF Book, BookRow
      <3>2. Runners(r) = {k}
        BY <2>1, <3>1 DEF Book, Runners
      <3> QED  BY <3>2, FS_Singleton
    <2>3. ASSUME NEW r \in DOMAIN runs, runs[r].status \notin {"running", "deleted"}
          PROVE  Cardinality(Runners(r)) = 0
      <3>1. Runners(r) = {}
        BY <2>1, <2>3 DEF Book, BookThread, Runners
      <3> QED  BY <3>1, FS_EmptySet
    <2>4. RunningRowsHaveARunner
      BY <2>2, <2>3 DEF RunningRowsHaveARunner
    <2>5. RunCountAgrees
      BY <2>1 DEF RunCountAgrees, Book, BookCount, Closed, Closing
    <2> QED  BY <2>4, <2>5 DEF BookkeepingAgrees
  <1> QED  BY <1>1, <1>2, BookStep, PTL DEF Spec
=============================================================================
