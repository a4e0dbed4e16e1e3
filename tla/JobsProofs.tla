------------------------------ MODULE JobsProofs ------------------------------
(***************************************************************************)
(* Theorems about the background jobs and the server's limiters, for every *)
(* value of the constants: the scheduler and its calendar, the bonus       *)
(* expiry, the rollup and the partitions, the rate limits, and the walk    *)
(* through a list by pages.                                                *)
(***************************************************************************)
EXTENDS Scheduler, BonusExpiry, Rollups, RateLimit, Paging, SumTheorems,
        SequenceTheorems, TLAPS

(***************************************************************************)
(* The calendar and the scheduler.  Months are sums of days; the first     *)
(* turn after a moment is on the first day of the rule that still has the  *)
(* slot ahead.  A replica runs the job that is due first.                  *)
(***************************************************************************)
(* A month has a day at least.                                             *)
LEMMA MonthLength == ASSUME NEW m \in Nat PROVE LastDay(m) \in Nat \ {0}
<1>1. Len(MonthDays) \in Nat \ {0}
  BY CalendarAssumption
<1>2. m % Len(MonthDays) \in 0..(Len(MonthDays) - 1)
  BY <1>1
<1>3. 1 + (m % Len(MonthDays)) \in 1..Len(MonthDays)
  BY <1>1, <1>2
<1> QED BY <1>3, CalendarAssumption DEF LastDay

(* The first day of a month as a sum over a longer year.                   *)
LEMMA DaysBefore ==
    ASSUME NEW m \in Nat, NEW n \in Nat, m <= n
    PROVE  FirstDay(m) = SumFunctionOnSet([k \in 0..(n - 1) |-> LastDay(k)], 0..(m - 1))
<1> DEFINE f == [k \in 0..(n - 1) |-> LastDay(k)]
           g == [k \in 0..(m - 1) |-> LastDay(k)]
<1>1. IsFiniteSet(0..(m - 1))
  BY FS_Interval
<1>2. \A k \in 0..(m - 1) : f[k] \in Int /\ g[k] = f[k]
  BY MonthLength
<1> HIDE DEF f, g
<1>3. SumFunctionOnSet(g, 0..(m - 1)) = SumFunctionOnSet(f, 0..(m - 1))
  BY <1>1, <1>2, SumCongruence
<1> QED BY <1>3 DEF f, g, FirstDay

(* Months follow each other.                                               *)
LEMMA MonthStarts ==
    /\ FirstDay(0) = 0
    /\ \A m \in Nat : FirstDay(m) \in Nat /\ FirstDay(m + 1) = FirstDay(m) + LastDay(m)
    /\ \A m, n \in Nat : m <= n => FirstDay(m) <= FirstDay(n)
<1>1. FirstDay(0) = 0
  <2>1. 0..(0 - 1) = {}
    OBVIOUS
  <2> QED BY <2>1, SumEmpty DEF FirstDay
<1>2. ASSUME NEW m \in Nat, NEW n \in Nat, m <= n
      PROVE  FirstDay(m) <= FirstDay(n) /\ FirstDay(n) \in Nat
  <2> DEFINE f == [k \in 0..(n - 1) |-> LastDay(k)]
  <2>1. IsFiniteSet(0..(n - 1))
    BY FS_Interval
  <2>2. \A k \in 0..(n - 1) : f[k] \in Nat
    BY MonthLength
  <2>3. 0..(m - 1) \in SUBSET (0..(n - 1))
    BY <1>2
  <2>4. FirstDay(m) = SumFunctionOnSet(f, 0..(m - 1))
    BY <1>2, DaysBefore
  <2>5. FirstDay(n) = SumFunctionOnSet(f, 0..(n - 1))
    BY DEF FirstDay
  <2> HIDE DEF f
  <2> QED BY <2>1, <2>2, <2>3, <2>4, <2>5, SumGrows, SumIsNat
<1>3. ASSUME NEW m \in Nat PROVE FirstDay(m + 1) = FirstDay(m) + LastDay(m)
  <2> DEFINE f == [k \in 0..m |-> LastDay(k)]
             S == 0..(m - 1)
  <2>1. FirstDay(m) = SumFunctionOnSet(f, S)
    <3>1. m + 1 \in Nat /\ m <= m + 1 /\ m + 1 - 1 = m
      OBVIOUS
    <3> QED BY <3>1, DaysBefore
  <2>2. FirstDay(m + 1) = SumFunctionOnSet(f, S \cup {m})
    <3>1. 0..m = S \cup {m}
      OBVIOUS
    <3>2. (m + 1) - 1 = m
      OBVIOUS
    <3>3. FirstDay(m + 1) = SumFunctionOnSet(f, 0..m)
      BY <3>2 DEF FirstDay
    <3> HIDE DEF f, S
    <3> QED BY <3>1, <3>3
  <2>3. IsFiniteSet(S)
    BY FS_Interval
  <2>a. m \notin S /\ \A k \in S \cup {m} : f[k] \in Int
    BY MonthLength
  <2>4. f[m] = LastDay(m)
    OBVIOUS
  <2>5. LastDay(m) \in Int /\ FirstDay(m) \in Int
    BY <1>2, MonthLength
  <2> HIDE DEF f, S
  <2>6. SumFunctionOnSet(f, S \cup {m}) = f[m] + SumFunctionOnSet(f, S)
    BY <2>3, <2>a, SumAdd
  <2> QED BY <2>1, <2>2, <2>4, <2>5, <2>6
<1> QED BY <1>1, <1>2, <1>3

(* A month takes a day at least.                                           *)
LEMMA MonthsTakeDays == \A n \in Nat : n <= FirstDay(n) /\ FirstDay(n) < FirstDay(n + 1)
<1>1. ASSUME NEW m \in Nat PROVE FirstDay(m) \in Nat /\ FirstDay(m) < FirstDay(m + 1)
  <2>1. FirstDay(m) \in Nat /\ FirstDay(m + 1) = FirstDay(m) + LastDay(m)
    BY MonthStarts
  <2> QED BY <2>1, MonthLength
<1>2. ASSUME NEW n \in Nat PROVE n <= FirstDay(n)
  <2> DEFINE S == {k \in 0..n : FirstDay(k) < k}
  <2>1. S = {}
    <3>1. SUFFICES ASSUME S # {} PROVE FALSE
      OBVIOUS
    <3>2. IsFiniteSet(S)
      <4>1. S \in SUBSET (0..n) /\ IsFiniteSet(0..n)
        BY FS_Interval
      <4> HIDE DEF S
      <4> QED BY <4>1, FS_Subset
    <3>3. S \in SUBSET Int
      OBVIOUS
    <3>4. PICK k \in S : \A j \in S : k <= j
      <4> HIDE DEF S
      <4> QED BY ONLY <3>1, <3>2, <3>3, LeastMember
    <3>5. k # 0
      BY <1>1
    <3>6. k - 1 \in 0..n /\ ~(k - 1 \in S)
      BY <3>4, <3>5
    <3>7. k - 1 \in Nat /\ FirstDay(k - 1) >= k - 1 /\ FirstDay(k - 1) < FirstDay(k)
      <4>1. k - 1 \in Nat /\ (k - 1) + 1 = k
        BY <3>5
      <4> QED BY <1>1, <3>6, <4>1
    <3>8. FirstDay(k) \in Nat /\ FirstDay(k) < k
      BY <1>1
    <3> QED BY <1>1, <3>7, <3>8
  <2>2. n \in 0..n /\ FirstDay(n) \in Nat
    BY <1>1
  <2> QED BY <2>1, <2>2
<1> QED BY <1>1, <1>2

(* Every day lies in a month.                                              *)
LEMMA DayInMonth ==
    ASSUME NEW day \in Nat
    PROVE  /\ Month(day) \in 0..day
           /\ FirstDay(Month(day)) <= day /\ day < FirstDay(Month(day) + 1)
<1>1. \A m \in Nat : FirstDay(m) \in Nat
  BY MonthStarts
<1>2. FirstDay(day + 1) > day
  <2>1. day + 1 \in Nat /\ day + 1 <= FirstDay(day + 1)
    BY MonthsTakeDays
  <2> QED BY <1>1, <2>1
<1>3. \E m \in 0..day : FirstDay(m) <= day /\ day < FirstDay(m + 1)
  <2> DEFINE S == {k \in 0..(day + 1) : FirstDay(k) > day}
  <2>1. IsFiniteSet(S)
    <3>1. S \in SUBSET (0..(day + 1)) /\ IsFiniteSet(0..(day + 1))
      BY FS_Interval
    <3> HIDE DEF S
    <3> QED BY <3>1, FS_Subset
  <2>2. S \in SUBSET Int
    OBVIOUS
  <2>3. S # {}
    BY <1>2
  <2>4. PICK k \in S : \A j \in S : k <= j
    <3> HIDE DEF S
    <3> QED BY ONLY <2>1, <2>2, <2>3, LeastMember
  <2>5. k # 0
    BY MonthStarts
  <2>6. k - 1 \in 0..day /\ ~(k - 1 \in S) /\ (k - 1) + 1 = k
    BY <2>4, <2>5
  <2>7. FirstDay(k - 1) <= day
    BY <1>1, <2>6
  <2>8. day < FirstDay((k - 1) + 1)
    BY <1>1, <2>6
  <2> QED BY <2>6, <2>7, <2>8
<1> QED BY <1>3 DEF Month

(* A day's slots.                                                          *)
LEMMA DaySlots ==
    ASSUME NEW u \in Nat
    PROVE  /\ Day(u) \in Nat /\ u % Slots \in 0..(Slots - 1)
           /\ u = At(Day(u), u % Slots)
<1>1. Slots \in Nat \ {0}
  BY CalendarAssumption
<1>2. u \div Slots \in Nat /\ u % Slots \in 0..(Slots - 1)
  BY <1>1
<1>3. u = (u \div Slots) * Slots + (u % Slots)
  BY <1>1
<1> QED BY <1>2, <1>3 DEF Day, At

LEMMA SlotOfDay ==
    ASSUME NEW day \in Nat, NEW s \in 0..(Slots - 1)
    PROVE  /\ At(day, s) \in Nat /\ At(day, s) % Slots = s /\ Day(At(day, s)) = day
<1>1. Slots \in Nat \ {0}
  BY CalendarAssumption
<1>2. day * Slots \in Nat
  BY <1>1
<1>3. At(day, s) \in Nat
  BY <1>1, <1>2 DEF At
<1>4. (day * Slots + s) \div Slots = day
  BY <1>1
<1>5. (day * Slots + s) % Slots = s
  BY <1>1
<1> QED BY <1>3, <1>4, <1>5 DEF At, Day

(* Later slots belong to no earlier days, and a later day has later slots. *)
LEMMA DaysInOrder ==
    ASSUME NEW a \in Nat, NEW b \in Nat
    PROVE  /\ a <= b => Day(a) <= Day(b)
           /\ Day(a) < Day(b) => a < b
<1>1. Slots \in Nat \ {0}
  BY CalendarAssumption
<1>2. a <= b => a \div Slots <= b \div Slots
  BY <1>1
<1>3. b <= a => b \div Slots <= a \div Slots
  BY <1>1
<1>4. a \div Slots \in Nat /\ b \div Slots \in Nat
  BY <1>1
<1>5. a \div Slots < b \div Slots => a < b
  BY <1>3, <1>4
<1> QED BY <1>2, <1>5 DEF Day

(* The first slot s after l on one of some days is on the first of them    *)
(* that has it after l.                                                    *)
LEMMA OnFirstDay ==
    ASSUME NEW l \in Nat, NEW s \in 0..(Slots - 1), NEW days,
           NEW day \in Nat, day \in days, l < At(day, s),
           \A x \in Nat : x \in days /\ l < At(x, s) => day <= x
    PROVE  At(day, s) \in Nat /\ IsFirst(At(day, s), l, s, days)
<1>1. /\ At(day, s) \in Nat /\ At(day, s) % Slots = s /\ Day(At(day, s)) = day
  BY SlotOfDay
<1>2. ASSUME NEW v \in (l + 1)..(At(day, s) - 1), v % Slots = s, Day(v) \in days
      PROVE  FALSE
  <2>1. v \in Nat /\ l < v /\ v < At(day, s)
    BY <1>1
  <2>2. Day(v) \in Nat /\ v = At(Day(v), s)
    BY <1>2, <2>1, DaySlots
  <2>3. day <= Day(v)
    BY <1>2, <2>1, <2>2
  <2>4. Day(v) <= day
    BY <1>1, <2>1, DaysInOrder
  <2>5. Day(v) = day
    BY <2>2, <2>3, <2>4
  <2> QED BY <1>1, <2>1, <2>2, <2>5
<1> QED BY <1>1, <1>2 DEF IsFirst

(* A slot after l is not on an earlier day.                                *)
LEMMA SameDayOrLater ==
    ASSUME NEW l \in Nat, NEW s \in 0..(Slots - 1), NEW x \in Nat
    PROVE  /\ l < At(x, s) => Day(l) <= x
           /\ Day(l) < x => l < At(x, s)
<1>1. At(x, s) \in Nat /\ Day(At(x, s)) = x
  BY SlotOfDay
<1> QED BY <1>1, DaysInOrder

(* NextDailyAt: today, or tomorrow once the hour has passed.               *)
LEMMA DailyIsFirst ==
    ASSUME NEW l \in Nat, NEW s \in 0..(Slots - 1)
    PROVE  \E day \in Nat :
             /\ DailyCandidate(l, s) = At(day, s) /\ l < At(day, s)
             /\ \A x \in Nat : l < At(x, s) => day <= x
<1>1. Day(l) \in Nat /\ Day(l) + 1 \in Nat
  BY DaySlots
<1>2. At(Day(l), s) + Slots = At(Day(l) + 1, s)
  <2> DEFINE d == Day(l)
  <2>1. d \in Nat /\ Slots \in Nat /\ s \in Nat
    BY <1>1, CalendarAssumption
  <2> HIDE DEF d
  <2>2. d * Slots + s + Slots = (d + 1) * Slots + s
    BY <2>1
  <2> QED BY <2>2 DEF At, d
<1>3. \A x \in Nat : At(x, s) \in Nat
  BY SlotOfDay
<1>4. \A x \in Nat : (l < At(x, s) => Day(l) <= x) /\ (Day(l) < x => l < At(x, s))
  BY SameDayOrLater
<1>5. CASE At(Day(l), s) <= l
  <2>1. DailyCandidate(l, s) = At(Day(l) + 1, s)
    BY <1>2, <1>5 DEF DailyCandidate, Passed
  <2>2. l < At(Day(l) + 1, s)
    BY <1>1, <1>4
  <2>3. ASSUME NEW x \in Nat, l < At(x, s) PROVE Day(l) + 1 <= x
    <3>1. x # Day(l)
      BY <1>1, <1>3, <1>5, <2>3
    <3> QED BY <1>1, <1>4, <2>3, <3>1
  <2> QED BY <1>1, <2>1, <2>2, <2>3
<1>6. CASE ~(At(Day(l), s) <= l)
  <2>1. DailyCandidate(l, s) = At(Day(l), s)
    BY <1>6 DEF DailyCandidate, Passed
  <2>2. l < At(Day(l), s)
    BY <1>1, <1>3, <1>6
  <2> QED BY <1>1, <1>4, <2>1, <2>2
<1> QED BY <1>5, <1>6

(* Week days in a row have each weekday once.                              *)
LEMMA WeekdayComes ==
    ASSUME NEW first \in Nat, NEW w \in 0..(Week - 1)
    PROVE  \E k \in 0..(Week - 1) : Weekday(first + k) = w
<1>1. Week \in Nat \ {0}
  BY CalendarAssumption
<1> DEFINE q == first \div Week
           r == first % Week
<1>2. q \in Nat /\ r \in 0..(Week - 1) /\ first = q * Week + r
  BY <1>1
<1> HIDE DEF q, r
<1>3. \A n \in Nat : (n * Week + w) % Week = w
  BY <1>1
<1>4. CASE r <= w
  <2>1. w - r \in 0..(Week - 1) /\ first + (w - r) = q * Week + w
    BY <1>1, <1>2, <1>4
  <2> QED BY <1>2, <1>3, <2>1 DEF Weekday
<1>5. CASE w < r
  <2>1. (q + 1) * Week = q * Week + Week /\ q + 1 \in Nat
    BY <1>1, <1>2
  <2>2. (w - r) + Week \in 0..(Week - 1)
    BY <1>1, <1>2, <1>5
  <2>3. first + ((w - r) + Week) = (q + 1) * Week + w
    <3>1. q * Week \in Int /\ r \in Int /\ w \in Int
      BY <1>1, <1>2
    <3> QED BY <1>1, <1>2, <2>1, <3>1
  <2> QED BY <1>3, <2>1, <2>2, <2>3 DEF Weekday
<1> QED BY <1>1, <1>2, <1>4, <1>5

(* Days less than a week apart are different weekdays.                     *)
LEMMA WeekdayOnce ==
    ASSUME NEW x \in Nat, NEW y \in Nat, x < y, y < x + Week
    PROVE  Weekday(x) # Weekday(y)
<1>1. SUFFICES ASSUME Weekday(x) = Weekday(y) PROVE FALSE
  OBVIOUS
<1>2. Week \in Nat \ {0}
  BY CalendarAssumption
<1> DEFINE p == x \div Week
           q == y \div Week
<1>3. p \in Nat /\ q \in Nat /\ x = p * Week + (x % Week) /\ y = q * Week + (y % Week)
  BY <1>2
<1>4. x % Week \in Int /\ x % Week = y % Week
  BY <1>1, <1>2 DEF Weekday
<1> HIDE DEF p, q
<1>5. p * Week \in Int /\ q * Week \in Int
  BY <1>2, <1>3
<1>6. p * Week < q * Week /\ q * Week < p * Week + Week
  BY <1>2, <1>3, <1>4, <1>5
<1>7. q <= p => q * Week <= p * Week
  BY <1>2, <1>3
<1>8. p + 1 <= q => p * Week + Week <= q * Week
  BY <1>2, <1>3
<1> QED BY <1>2, <1>3, <1>5, <1>6, <1>7, <1>8

(* NextWeeklyAt: no day that it steps over is the weekday.                 *)
LEMMA WeeklyIsFirst ==
    ASSUME NEW t \in Nat, NEW s \in 0..(Slots - 1), NEW w \in 0..(Week - 1)
    PROVE  /\ NextWeeklyAt(t, w, s) \in Int
           /\ IsFirst(NextWeeklyAt(t, w, s) + Zone, t + Zone, s, Weekdays(w))
<1> DEFINE l == t + Zone
<1>1. l \in Nat /\ Zone \in Nat /\ Week \in Nat /\ w \in Nat
  BY CalendarAssumption
<1>2. PICK first \in Nat :
        /\ DailyCandidate(l, s) = At(first, s) /\ l < At(first, s)
        /\ \A x \in Nat : l < At(x, s) => first <= x
  BY <1>1, DailyIsFirst
<1>3. Day(DailyCandidate(l, s)) = first
  BY <1>2, SlotOfDay
<1> DEFINE wait == CHOOSE k \in 0..(Week - 1) : Weekday(first + k) = w
<1>4. wait \in 0..(Week - 1) /\ Weekday(first + wait) = w
  BY WeekdayComes
<1>5. NextWeeklyAt(t, w, s) = At(first + wait, s) - Zone
  BY <1>3 DEF NextWeeklyAt, Local
<1> HIDE DEF wait
<1> DEFINE day == first + wait
<1>6. day \in Nat /\ day < first + Week /\ first <= day
  BY <1>1, <1>4
<1>7. day \in Weekdays(w)
  BY <1>4, <1>6 DEF Weekdays
<1>8. l < At(day, s)
  <2>1. CASE day = first
    BY <1>2, <2>1
  <2>2. CASE first < day
    <3>1. Day(l) <= first
      BY <1>1, <1>2, SameDayOrLater
    <3>2. Day(l) < day
      BY <1>1, <1>6, <2>2, <3>1, DaySlots
    <3> QED BY <1>1, <1>6, <3>2, SameDayOrLater
  <2> QED BY <1>6, <2>1, <2>2
<1>9. ASSUME NEW x \in Nat, x \in Weekdays(w), l < At(x, s) PROVE day <= x
  <2>1. first <= x /\ Weekday(x) = w
    BY <1>2, <1>9 DEF Weekdays
  <2>2. SUFFICES ASSUME x < day PROVE FALSE
    BY <1>6
  <2>3. day < x + Week
    BY <1>1, <1>6, <2>1
  <2>4. Weekday(x) # Weekday(day)
    BY <1>6, <2>2, <2>3, WeekdayOnce
  <2> QED BY <1>4, <2>1, <2>4
<1>10. At(day, s) \in Nat /\ IsFirst(At(day, s), l, s, Weekdays(w))
  <2> HIDE DEF day, l
  <2> QED BY <1>1, <1>6, <1>7, <1>8, <1>9, OnFirstDay
<1>11. NextWeeklyAt(t, w, s) + Zone = At(day, s)
  BY <1>1, <1>5, <1>10
<1>12. NextWeeklyAt(t, w, s) \in Int
  <2>1. NextWeeklyAt(t, w, s) = At(day, s) - Zone
    BY <1>5
  <2> HIDE DEF day
  <2> QED BY ONLY <1>1, <1>10, <2>1
<1> QED BY <1>10, <1>11, <1>12

(* The day of a month.                                                     *)
DayOf(m, d) == FirstDay(m) + Min({d, LastDay(m)}) - 1

(* It lies in its month, however short that is.                            *)
LEMMA MonthDay ==
    ASSUME NEW m \in Nat, NEW d \in Nat \ {0}
    PROVE  DayOf(m, d) \in Nat /\ FirstDay(m) <= DayOf(m, d) /\ DayOf(m, d) < FirstDay(m + 1)
<1>1. LastDay(m) \in Nat \ {0}
  BY MonthLength
<1>2. FirstDay(m) \in Nat /\ FirstDay(m + 1) = FirstDay(m) + LastDay(m)
  BY MonthStarts
<1>3. Min({d, LastDay(m)}) \in 1..LastDay(m)
  <2> DEFINE b == LastDay(m)
             S == {d, b}
  <2>1. \E x \in S : \A y \in S : x <= y
    BY <1>1
  <2>2. Min(S) \in S /\ \A y \in S : Min(S) <= y
    <3> HIDE DEF S
    <3> QED BY <2>1 DEF Min
  <2>3. Min(S) = d \/ Min(S) = b
    BY <2>2
  <2>4. Min(S) <= b
    BY <2>2
  <2> HIDE DEF S
  <2> QED BY <1>1, <2>3, <2>4 DEF S
<1> QED BY <1>1, <1>2, <1>3 DEF DayOf

(* Later months have later days.                                           *)
LEMMA MonthDaysInOrder ==
    ASSUME NEW m \in Nat, NEW n \in Nat, NEW d \in Nat \ {0}, m < n
    PROVE  DayOf(m, d) < FirstDay(n) /\ FirstDay(n) <= DayOf(n, d)
<1>1. DayOf(m, d) \in Nat /\ DayOf(m, d) < FirstDay(m + 1) /\ FirstDay(n) <= DayOf(n, d)
  BY MonthDay
<1>2. m + 1 \in Nat /\ m + 1 <= n
  OBVIOUS
<1>3. FirstDay(m + 1) <= FirstDay(n) /\ FirstDay(m + 1) \in Nat /\ FirstDay(n) \in Nat
  BY <1>2, MonthStarts
<1> QED BY <1>1, <1>3

(* NextMonthlyAt: this month's day, or the next month's once it has        *)
(* passed.                                                                 *)
LEMMA MonthlyIsFirst ==
    ASSUME NEW t \in Nat, NEW s \in 0..(Slots - 1), NEW d \in Nat \ {0}
    PROVE  /\ NextMonthlyAt(t, d, s) \in Int
           /\ IsFirst(NextMonthlyAt(t, d, s) + Zone, t + Zone, s, Monthdays(d))
<1> DEFINE l == t + Zone
           M == Month(Day(l))
           Cand(m) == At(DayOf(m, d), s)
<1>1. l \in Nat /\ Zone \in Nat
  BY CalendarAssumption
<1>2. Day(l) \in Nat
  BY <1>1, DaySlots
<1>3. M \in Nat /\ FirstDay(M) <= Day(l) /\ Day(l) < FirstDay(M + 1)
  BY <1>2, DayInMonth
<1>4. NextMonthlyAt(t, d, s) = (IF Cand(M) <= l THEN Cand(M + 1) ELSE Cand(M)) - Zone
  BY DEF NextMonthlyAt, Passed, MonthlyCandidate, Local, DayOf
<1> HIDE DEF l, M
<1>5. \A m \in Nat : DayOf(m, d) \in Nat /\ DayOf(m, d) \in Monthdays(d) /\ Cand(m) \in Nat
  <2> SUFFICES ASSUME NEW m \in Nat
               PROVE  DayOf(m, d) \in Nat /\ DayOf(m, d) \in Monthdays(d) /\ Cand(m) \in Nat
    OBVIOUS
  <2>1. DayOf(m, d) \in Nat /\ FirstDay(m) <= DayOf(m, d)
    BY MonthDay
  <2>2. m <= FirstDay(m) /\ FirstDay(m) \in Nat
    BY MonthsTakeDays, MonthStarts
  <2>3. m \in 0..DayOf(m, d)
    BY <2>1, <2>2
  <2> QED BY <2>1, <2>3, SlotOfDay DEF Monthdays, DayOf
<1>6. \A x \in Nat : x \in Monthdays(d) => \E m \in Nat : x = DayOf(m, d)
  BY DEF Monthdays, DayOf
<1>7. \A m, n \in Nat : m < n => DayOf(m, d) < FirstDay(n) /\ FirstDay(n) <= DayOf(n, d)
  BY MonthDaysInOrder
<1>a. \A m \in Nat : FirstDay(m) \in Nat
  BY MonthStarts
<1>8. ASSUME NEW m \in Nat, l < Cand(m) PROVE M <= m
  <2>1. Day(l) <= DayOf(m, d)
    BY <1>1, <1>5, <1>8, SameDayOrLater
  <2>2. SUFFICES ASSUME m < M PROVE FALSE
    BY <1>3
  <2>3. DayOf(m, d) < FirstDay(M)
    BY <1>3, <1>7, <2>2
  <2> QED BY <1>2, <1>3, <1>5, <1>a, <2>1, <2>3
<1>9. CASE Cand(M) <= l
  <2> DEFINE day == DayOf(M + 1, d)
  <2>1. day \in Nat /\ day \in Monthdays(d) /\ M + 1 \in Nat
    BY <1>3, <1>5
  <2>2. l < At(day, s)
    <3>1. FirstDay(M + 1) <= day /\ FirstDay(M + 1) \in Nat
      BY <1>3, <1>7, <1>a
    <3>2. Day(l) < day
      BY <1>2, <1>3, <2>1, <3>1
    <3> QED BY <1>1, <2>1, <3>2, SameDayOrLater
  <2>3. ASSUME NEW x \in Nat, x \in Monthdays(d), l < At(x, s) PROVE day <= x
    <3>1. PICK m \in Nat : x = DayOf(m, d)
      BY <1>6, <2>3
    <3>2. M <= m /\ m # M
      BY <1>1, <1>3, <1>5, <1>8, <1>9, <2>3, <3>1
    <3>3. m = M + 1 \/ M + 1 < m
      BY <1>3, <3>2
    <3>4. M + 1 < m => day < x
      <4>1. M + 1 < m => day < FirstDay(m) /\ FirstDay(m) <= DayOf(m, d)
        BY <1>7, <2>1
      <4> QED BY <1>5, <1>a, <2>1, <3>1, <4>1
    <3> QED BY <2>1, <3>1, <3>3, <3>4
  <2>4. At(day, s) \in Nat /\ IsFirst(At(day, s), l, s, Monthdays(d))
    <3> HIDE DEF day
    <3> QED BY <1>1, <2>1, <2>2, <2>3, OnFirstDay
  <2>5. NextMonthlyAt(t, d, s) = At(day, s) - Zone
    BY <1>4, <1>9
  <2>6. NextMonthlyAt(t, d, s) \in Int /\ NextMonthlyAt(t, d, s) + Zone = At(day, s)
    <3> HIDE DEF day
    <3> QED BY <1>1, <2>4, <2>5
  <2> QED BY <2>4, <2>6 DEF l
<1>10. CASE ~(Cand(M) <= l)
  <2> DEFINE day == DayOf(M, d)
  <2>1. day \in Nat /\ day \in Monthdays(d)
    BY <1>3, <1>5
  <2>2. l < At(day, s)
    BY <1>1, <1>3, <1>5, <1>10
  <2>3. ASSUME NEW x \in Nat, x \in Monthdays(d), l < At(x, s) PROVE day <= x
    <3>1. PICK m \in Nat : x = DayOf(m, d)
      BY <1>6, <2>3
    <3>2. M <= m
      BY <1>8, <2>3, <3>1
    <3>3. m = M \/ M < m
      BY <1>3, <3>2
    <3>4. M < m => day < x
      <4>1. M < m => day < FirstDay(m) /\ FirstDay(m) <= DayOf(m, d)
        BY <1>3, <1>7
      <4> QED BY <1>5, <1>a, <2>1, <3>1, <4>1
    <3> QED BY <2>1, <3>1, <3>3, <3>4
  <2>4. At(day, s) \in Nat /\ IsFirst(At(day, s), l, s, Monthdays(d))
    <3> HIDE DEF day
    <3> QED BY <1>1, <2>1, <2>2, <2>3, OnFirstDay
  <2>5. NextMonthlyAt(t, d, s) = At(day, s) - Zone
    BY <1>4, <1>10
  <2>6. NextMonthlyAt(t, d, s) \in Int /\ NextMonthlyAt(t, d, s) + Zone = At(day, s)
    <3> HIDE DEF day
    <3> QED BY <1>1, <2>4, <2>5
  <2> QED BY <2>4, <2>6 DEF l
<1> QED BY <1>9, <1>10


(* Whatever its rule, a job's next turn lies ahead and is the first.       *)
LEMMA NextTurnAhead ==
    ASSUME NEW j \in Job, NEW t \in Nat
    PROVE  /\ NextTurn(j, t) \in Int /\ NextTurn(j, t) > 0
           /\ Schedules[j].rule = "daily" =>
                IsFirst(t + NextTurn(j, t) + Zone, t + Zone, Schedules[j].slot, Nat)
           /\ Schedules[j].rule = "weekly" =>
                IsFirst(t + NextTurn(j, t) + Zone, t + Zone, Schedules[j].slot,
                        Weekdays(Schedules[j].day))
           /\ Schedules[j].rule = "monthly" =>
                IsFirst(t + NextTurn(j, t) + Zone, t + Zone, Schedules[j].slot,
                        Monthdays(Schedules[j].day))
<1> DEFINE r == Schedules[j].rule
           g == Schedules[j].gap
           d == Schedules[j].day
           s == Schedules[j].slot
<1>1. /\ r \in {"every", "daily", "weekly", "monthly"} /\ g \in Nat /\ d \in Nat
      /\ s \in 0..(Slots - 1)
  <2>1. Schedules[j] \in [rule : {"every", "daily", "weekly", "monthly"},
                          gap : Nat, day : Nat, slot : 0..(Slots - 1)]
    <3> PICK R : R = [rule : {"every", "daily", "weekly", "monthly"},
                      gap : Nat, day : Nat, slot : 0..(Slots - 1)]
      OBVIOUS
    <3>1. Schedules \in Seq(R)
      BY SchedulerAssumption
    <3>2. j \in DOMAIN Schedules
      BY DEF Job
    <3>3. Schedules[j] \in R
      BY ONLY <3>1, <3>2
    <3> QED BY <3>3
  <2> QED BY <2>1
<1>2. /\ r = "every" => g > 0
      /\ r = "weekly" => d < Week
      /\ r = "monthly" => d > 0
  BY SchedulerAssumption
<1>3. Zone \in Nat /\ Week \in Nat /\ t + Zone \in Nat
  BY CalendarAssumption
<1>4. NextTurn(j, t) = CASE r = "every" -> Every(t, g) - t
                         [] r = "daily" -> NextDailyAt(t, s) - t
                         [] r = "weekly" -> NextWeeklyAt(t, d, s) - t
                         [] r = "monthly" -> NextMonthlyAt(t, d, s) - t
  BY DEF NextTurn
<1> DEFINE next == NextTurn(j, t)
<1>5. ASSUME NEW n \in Int, NEW days, next = n - t, IsFirst(n + Zone, t + Zone, s, days)
      PROVE  next \in Int /\ next > 0 /\ IsFirst(t + next + Zone, t + Zone, s, days)
  <2>1. t + Zone < n + Zone
    BY <1>5 DEF IsFirst
  <2> HIDE DEF next, s
  <2>2. t + next + Zone = n + Zone
    BY <1>3, <1>5
  <2> QED BY <1>3, <1>5, <2>1, <2>2
<1> HIDE DEF r, g, d, s, next
<1>6. CASE r = "every"
  <2>1. next = (t + g) - t
    BY <1>4, <1>6 DEF Every, next
  <2>2. next = g
    BY <1>1, <2>1
  <2> QED BY <1>1, <1>2, <1>6, <2>2 DEF next, r
<1>7. CASE r = "daily"
  <2>1. PICK day \in Nat :
          /\ DailyCandidate(t + Zone, s) = At(day, s) /\ t + Zone < At(day, s)
          /\ \A x \in Nat : t + Zone < At(x, s) => day <= x
    BY <1>1, <1>3, DailyIsFirst
  <2>2. At(day, s) \in Nat /\ IsFirst(At(day, s), t + Zone, s, Nat)
    BY <1>1, <1>3, <2>1, OnFirstDay
  <2>3. NextDailyAt(t, s) = At(day, s) - Zone
    BY <2>1 DEF NextDailyAt, Local
  <2>4. NextDailyAt(t, s) \in Int /\ NextDailyAt(t, s) + Zone = At(day, s)
    BY <1>3, <2>2, <2>3
  <2>5. next = NextDailyAt(t, s) - t
    BY <1>4, <1>7 DEF next
  <2>6. next \in Int /\ next > 0 /\ IsFirst(t + next + Zone, t + Zone, s, Nat)
    BY <1>5, <2>2, <2>4, <2>5
  <2> QED BY <1>7, <2>6 DEF next, r, s
<1>8. CASE r = "weekly"
  <2>1. d \in 0..(Week - 1)
    BY <1>1, <1>2, <1>3, <1>8
  <2>2. /\ NextWeeklyAt(t, d, s) \in Int
        /\ IsFirst(NextWeeklyAt(t, d, s) + Zone, t + Zone, s, Weekdays(d))
    BY <1>1, <2>1, WeeklyIsFirst
  <2>3. next = NextWeeklyAt(t, d, s) - t
    BY <1>4, <1>8 DEF next
  <2>4. next \in Int /\ next > 0 /\ IsFirst(t + next + Zone, t + Zone, s, Weekdays(d))
    BY <1>5, <2>2, <2>3
  <2> QED BY <1>8, <2>4 DEF next, r, s, d
<1>9. CASE r = "monthly"
  <2>1. d \in Nat \ {0}
    BY <1>1, <1>2, <1>9
  <2>2. /\ NextMonthlyAt(t, d, s) \in Int
        /\ IsFirst(NextMonthlyAt(t, d, s) + Zone, t + Zone, s, Monthdays(d))
    BY <1>1, <2>1, MonthlyIsFirst
  <2>3. next = NextMonthlyAt(t, d, s) - t
    BY <1>4, <1>9 DEF next
  <2>4. next \in Int /\ next > 0 /\ IsFirst(t + next + Zone, t + Zone, s, Monthdays(d))
    BY <1>5, <2>2, <2>3
  <2> QED BY <1>9, <2>4 DEF next, r, s, d
<1> QED BY <1>1, <1>6, <1>7, <1>8, <1>9

-----------------------------------------------------------------------------
(* What the scheduler's variables hold.                                    *)
SchedulerTypeOK ==
    /\ clock \in Nat
    /\ due \in [Replica -> [Job -> Int]]
    /\ running \in [Replica -> [job : Job \cup {0}, age : Nat]]
    /\ up \in SUBSET Replica

(* The jobs that are due after j.                                          *)
After(r, j) == {i \in Job : due[r][j] < due[r][i]}

(* The run that goes on was due first and has not gone on for too long.    *)
(* The others are late by it and by runs of jobs that are due after them:  *)
(* a job that has run is due after all that wait.                          *)
InTurn(r) ==
    /\ running[r].job = 0 => running[r].age = 0
    /\ running[r].job # 0 =>
         /\ running[r].age <= MaxRun[running[r].job]
         /\ \A j \in Job : due[r][running[r].job] <= due[r][j]
    /\ \A j \in Job \ {running[r].job} :
         0 - due[r][j] <= SumFunctionOnSet(MaxRun, After(r, j)) + running[r].age

(* The invariant: every replica that is up is in turn.                     *)
SchedulerInv ==
    /\ SchedulerTypeOK
    /\ \A r \in Replica \ up : running[r] = NoRun
    /\ \A r \in up : InTurn(r)

(* There are jobs, and finitely many.                                      *)
LEMMA Jobs ==
    /\ Job \in SUBSET Nat /\ IsFiniteSet(Job) /\ Job # {} /\ ~(0 \in Job)
    /\ \A i \in Job : MaxRun[i] \in Nat
<1>1. \E R : Schedules \in Seq(R)
  BY SchedulerAssumption
<1>2. Job = 1..Len(Schedules) /\ Len(Schedules) \in Nat
  BY <1>1 DEF Job
<1>3. IsFiniteSet(Job)
  BY <1>2, FS_Interval
<1>4. Len(Schedules) # 0
  BY <1>1, SchedulerAssumption, EmptySeq
<1>5. Job \in SUBSET Nat /\ Job # {} /\ ~(0 \in Job)
  BY <1>2, <1>4
<1> QED BY <1>3, <1>5, SchedulerAssumption

(* More jobs take longer.                                                  *)
LEMMA RunsOf ==
    ASSUME NEW S \in SUBSET Job, NEW T \in SUBSET S
    PROVE  /\ SumFunctionOnSet(MaxRun, S) \in Nat /\ SumFunctionOnSet(MaxRun, T) \in Nat
           /\ SumFunctionOnSet(MaxRun, T) <= SumFunctionOnSet(MaxRun, S)
<1>1. IsFiniteSet(S)
  BY Jobs, FS_Subset
<1>2. IsFiniteSet(T)
  BY <1>1, FS_Subset
<1>3. (\A i \in S : MaxRun[i] \in Nat) /\ (\A i \in T : MaxRun[i] \in Nat)
  BY Jobs
<1> QED BY <1>1, <1>2, <1>3, SumIsNat, SumGrows

(* The run of one job more.                                                *)
LEMMA RunMore ==
    ASSUME NEW S \in SUBSET Job, NEW k \in Job, k \notin S, NEW T \in SUBSET Job,
           S \cup {k} \in SUBSET T
    PROVE  MaxRun[k] + SumFunctionOnSet(MaxRun, S) <= SumFunctionOnSet(MaxRun, T)
<1>1. IsFiniteSet(S)
  BY Jobs, FS_Subset
<1>2. \A i \in S \cup {k} : MaxRun[i] \in Int
  BY Jobs
<1>3. SumFunctionOnSet(MaxRun, S \cup {k}) = MaxRun[k] + SumFunctionOnSet(MaxRun, S)
  BY <1>1, <1>2, SumAdd
<1>4. SumFunctionOnSet(MaxRun, S \cup {k}) <= SumFunctionOnSet(MaxRun, T)
  BY RunsOf
<1> QED BY <1>3, <1>4

(* The search for the earliest finds a job that no other is due before.    *)
LEMMA EarliestIsFirst ==
    ASSUME SchedulerTypeOK, NEW r \in Replica
    PROVE  Earliest(r) \in Job /\ \A i \in Job : due[r][Earliest(r)] <= due[r][i]
<1> DEFINE d(i) == due[r][i]
           V == {d(i) : i \in Job}
<1>1. \A i \in Job : d(i) \in Int
  BY DEF SchedulerTypeOK
<1>2. IsFiniteSet(V) /\ V # {} /\ V \in SUBSET Int
  <2>1. IsFiniteSet(V)
    <3> DEFINE f == [i \in Job |-> d(i)]
    <3>1. f \in Surjection(Job, V)
      BY DEF Surjection
    <3> HIDE DEF f, V
    <3> QED BY <3>1, Jobs, FS_Surjection
  <2>2. V # {}
    BY Jobs
  <2> QED BY <1>1, <2>1, <2>2
<1>3. PICK m \in V : \A v \in V : m <= v
  <2> HIDE DEF V
  <2> QED BY ONLY <1>2, LeastMember
<1> DEFINE S == {i \in Job : d(i) = m}
<1>4. IsFiniteSet(S) /\ S # {} /\ S \in SUBSET Int
  <2>1. S \in SUBSET Job
    OBVIOUS
  <2>2. S # {}
    BY <1>3
  <2> HIDE DEF S
  <2>3. IsFiniteSet(S)
    BY <2>1, Jobs, FS_Subset
  <2>4. S \in SUBSET Int
    BY <2>1, Jobs
  <2> QED BY <2>2, <2>3, <2>4
<1>5. PICK j \in S : \A i \in S : j <= i
  <2> HIDE DEF S
  <2> QED BY ONLY <1>4, LeastMember
<1>6. \A i \in Job : d(j) < d(i) \/ (d(j) = d(i) /\ j <= i)
  <2> SUFFICES ASSUME NEW i \in Job, d(i) # m PROVE d(j) < d(i)
    BY <1>5
  <2>1. m <= d(i) /\ d(j) = m
    BY <1>3
  <2>2. d(i) \in Int /\ d(j) \in Int
    BY <1>1
  <2> QED BY <2>1, <2>2
<1>7. j \in Job
  OBVIOUS
<1> DEFINE First(x) == \A i \in Job : due[r][x] < due[r][i] \/ (due[r][x] = due[r][i] /\ x <= i)
<1>8. Earliest(r) \in Job /\ First(Earliest(r))
  BY <1>6, <1>7 DEF Earliest
<1>9. \A i \in Job : d(Earliest(r)) < d(i) \/ d(Earliest(r)) = d(i)
  BY <1>8
<1> HIDE DEF d
<1>10. \A i \in Job : d(Earliest(r)) <= d(i)
  BY <1>1, <1>8, <1>9
<1> QED BY <1>8, <1>10 DEF d

(* A replica is in turn again when a job that was due first has had its    *)
(* turn, and the lateness of the others is at most that of its run.        *)
LEMMA TurnOver ==
    ASSUME SchedulerInv, NEW r \in up, NEW k \in Job, NEW n \in Int, n > 0,
           \A j \in Job : due[r][k] <= due[r][j],
           running[r].age <= MaxRun[k], running[r].job \in {0, k},
           due'[r] = [due[r] EXCEPT ![k] = n], running'[r] = NoRun
    PROVE  InTurn(r)'
<1> DEFINE d(j) == due[r][j]
           e(j) == due'[r][j]
           a == running[r].age
           A(j) == {i \in Job : d(j) < d(i)}
           B(j) == {i \in Job : e(j) < e(i)}
           Sum(S) == SumFunctionOnSet(MaxRun, S)
<1>1. r \in Replica /\ a \in Nat /\ \A j \in Job : d(j) \in Int
  BY DEF SchedulerInv, SchedulerTypeOK
<1>2. e(k) = n /\ \A j \in Job \ {k} : e(j) = d(j)
  BY DEF SchedulerInv, SchedulerTypeOK
<1>3. \A j \in Job \ {k} : j # running[r].job => 0 - d(j) <= Sum(A(j)) + a
  BY DEF SchedulerInv, InTurn, After
<1>4. \A j \in Job : A(j) \in SUBSET Job /\ B(j) \in SUBSET Job
  OBVIOUS
<1>5. \A j \in Job : Sum(A(j)) \in Nat /\ Sum(B(j)) \in Nat
  BY <1>4, RunsOf
<1>6. \A j \in Job : k \notin A(j)
  BY <1>1
<1>7. MaxRun[k] \in Nat /\ a <= MaxRun[k]
  BY Jobs
<1>8. running'[r].job = 0 /\ running'[r].age = 0
  BY DEF NoRun
<1>9. ASSUME NEW j \in Job PROVE 0 - e(j) <= Sum(B(j))
  <2>1. CASE j = k
    <3>1. e(j) = n /\ Sum(B(j)) \in Nat
      BY <1>2, <1>5, <2>1
    <3> HIDE DEF e, B, Sum
    <3> QED BY <3>1
  <2>2. CASE j # k /\ d(j) > 0
    <3>1. e(j) = d(j) /\ d(j) \in Int /\ d(j) > 0 /\ Sum(B(j)) \in Nat
      BY <1>1, <1>2, <1>5, <2>2
    <3> HIDE DEF e, d, B, Sum
    <3> QED BY <3>1
  <2>3. CASE j # k /\ ~(d(j) > 0)
    <3>1. A(j) \cup {k} \in SUBSET B(j)
      BY <1>1, <1>2, <2>3
    <3>2. MaxRun[k] + Sum(A(j)) <= Sum(B(j))
      <4> HIDE DEF A, B
      <4> QED BY <1>4, <1>6, <3>1, RunMore
    <3>3. j # running[r].job
      BY Jobs, <2>3
    <3> HIDE DEF e, d, A, B, Sum, a
    <3>4. 0 - d(j) <= Sum(A(j)) + a /\ e(j) = d(j)
      BY <1>2, <1>3, <2>3, <3>3
    <3> QED BY <1>1, <1>5, <1>7, <3>2, <3>4
  <2> QED BY <2>1, <2>2, <2>3
<1>10. \A j \in Job : 0 - e(j) <= Sum(B(j)) + 0
  <2> SUFFICES ASSUME NEW j \in Job PROVE 0 - e(j) <= Sum(B(j)) + 0
    OBVIOUS
  <2>1. Sum(B(j)) \in Nat /\ 0 - e(j) <= Sum(B(j))
    BY <1>5, <1>9
  <2> HIDE DEF e, B, Sum
  <2> QED BY <2>1
<1> QED BY <1>8, <1>10 DEF InTurn, After


(* A replica is in turn when all its turns lie ahead.                      *)
LEMMA AllAhead ==
    ASSUME NEW r, running'[r] = NoRun, \A j \in Job : due'[r][j] \in Int /\ due'[r][j] >= 0
    PROVE  InTurn(r)'
<1>1. running'[r].job = 0 /\ running'[r].age = 0
  BY DEF NoRun
<1>2. ASSUME NEW j \in Job
      PROVE  0 - due'[r][j] <= SumFunctionOnSet(MaxRun, {i \in Job : due'[r][j] < due'[r][i]}) + 0
  <2> DEFINE S == {i \in Job : due'[r][j] < due'[r][i]}
  <2>1. S \in SUBSET Job
    OBVIOUS
  <2>2. SumFunctionOnSet(MaxRun, S) \in Nat
    <3> HIDE DEF S
    <3> QED BY <2>1, RunsOf
  <2> HIDE DEF S
  <2>3. 0 - due'[r][j] <= SumFunctionOnSet(MaxRun, S) + 0
    BY <2>2
  <2> QED BY <2>3 DEF S
<1> QED BY <1>1, <1>2 DEF InTurn, After

(* A replica that nothing happens to stays in turn.                        *)
LEMMA StaysInTurn ==
    ASSUME NEW r, InTurn(r), due'[r] = due[r], running'[r] = running[r]
    PROVE  InTurn(r)'
BY DEF InTurn, After

(* The calendar has slots.                                                 *)
LEMMA CycleGoesOn == Cycle \in Nat \ {0}
<1>1. DOMAIN MonthDays = 1..Len(MonthDays) /\ Len(MonthDays) \in Nat \ {0}
      /\ \A k \in DOMAIN MonthDays : MonthDays[k] \in Nat \ {0}
  BY CalendarAssumption
<1> DEFINE S == DOMAIN MonthDays
<1>2. IsFiniteSet(S)
  BY <1>1, FS_Interval
<1>3. 1 \in S /\ \A k \in S : MonthDays[k] \in Nat /\ MonthDays[k] \in Int /\ MonthDays[1] # 0
  BY <1>1
<1> HIDE DEF S
<1>4. SumFunctionOnSet(MonthDays, S)
        = MonthDays[1] + SumFunctionOnSet(MonthDays, S \ {1})
  BY <1>2, <1>3, SumWithout
<1>5. SumFunctionOnSet(MonthDays, S \ {1}) \in Nat
  <2>1. IsFiniteSet(S \ {1})
    BY <1>2, FS_Subset
  <2> QED BY <1>3, <2>1, SumIsNat
<1>6. YearDays \in Nat \ {0}
  BY <1>3, <1>4, <1>5 DEF YearDays, S
<1>7. Week \in Nat \ {0} /\ Slots \in Nat \ {0}
  BY CalendarAssumption
<1>8. YearDays * Week \in Nat \ {0}
  BY <1>6, <1>7
<1>9. YearDays * Week * Slots \in Nat \ {0}
  BY <1>7, <1>8
<1> QED BY <1>9 DEF Cycle

(* At first all turns lie ahead.                                           *)
LEMMA SchedulerStart == SchedulerInit => SchedulerInv
<1> SUFFICES ASSUME SchedulerInit PROVE SchedulerInv
  OBVIOUS
<1>1. clock \in Nat
  BY CycleGoesOn DEF SchedulerInit
<1>2. \A j \in Job : NextTurn(j, clock) \in Int /\ NextTurn(j, clock) > 0
  BY <1>1, NextTurnAhead
<1>3. SchedulerTypeOK
  BY <1>1, <1>2 DEF SchedulerTypeOK, SchedulerInit, FirstTurns, NoRun
<1>4. ASSUME NEW r \in Replica PROVE InTurn(r)
  <2>1. running[r].job = 0 /\ running[r].age = 0
    BY DEF SchedulerInit, NoRun
  <2>2. \A j \in Job : due[r][j] = NextTurn(j, clock)
    BY DEF SchedulerInit, FirstTurns
  <2>3. ASSUME NEW j \in Job
        PROVE  0 - due[r][j] <= SumFunctionOnSet(MaxRun, After(r, j)) + 0
    <3>1. After(r, j) \in SUBSET Job
      BY DEF After
    <3>2. SumFunctionOnSet(MaxRun, After(r, j)) \in Nat
      BY <3>1, RunsOf
    <3>3. due[r][j] \in Int /\ due[r][j] > 0
      BY <1>2, <2>2
    <3> QED BY <3>2, <3>3
  <2> QED BY <2>1, <2>3 DEF InTurn
<1> QED BY <1>3, <1>4 DEF SchedulerInv, SchedulerInit

(* Every step of a replica, and of time, keeps the replicas in turn.       *)
LEMMA SchedulerStep == SchedulerInv /\ [SchedulerNext]_schedulerVars => SchedulerInv'
<1> SUFFICES ASSUME SchedulerInv, [SchedulerNext]_schedulerVars PROVE SchedulerInv'
  OBVIOUS
<1>1. /\ clock \in Nat
      /\ due \in [Replica -> [Job -> Int]]
      /\ running \in [Replica -> [job : Job \cup {0}, age : Nat]]
      /\ up \in SUBSET Replica
      /\ \A r \in Replica \ up : running[r] = NoRun
      /\ \A r \in up : InTurn(r)
  BY DEF SchedulerInv, SchedulerTypeOK
<1>2. \A j \in Job : NextTurn(j, clock) \in Int /\ NextTurn(j, clock) > 0
  BY <1>1, NextTurnAhead
<1>3. NoRun \in [job : Job \cup {0}, age : Nat] /\ NoRun.job = 0 /\ NoRun.age = 0
  BY DEF NoRun
<1>4. ASSUME NEW r \in Replica, RunJob(r) PROVE SchedulerInv'
  <2>1. PICK e : e = Earliest(r)
    OBVIOUS
  <2>2. e \in Job /\ \A j \in Job : due[r][e] <= due[r][j]
    BY <2>1, EarliestIsFirst DEF SchedulerInv
  <2>3. r \in up /\ running[r] = NoRun /\ UNCHANGED <<clock, up>>
    BY <1>4 DEF RunJob, Waiting, Ready
  <2>4. CASE lock[e] = 0
    <3>1. running' = [running EXCEPT ![r] = [job |-> e, age |-> 0]] /\ due' = due
      BY <1>4, <2>1, <2>4 DEF RunJob
    <3>2. SchedulerTypeOK'
      BY <1>1, <2>2, <2>3, <3>1 DEF SchedulerTypeOK
    <3>3. ASSUME NEW q \in Replica, q # r PROVE running'[q] = running[q]
      BY <1>1, <3>1, <3>3
    <3>4. ASSUME NEW q \in up PROVE InTurn(q)'
      <4>1. CASE q # r
        BY <1>1, <3>1, <3>3, <4>1, StaysInTurn
      <4>2. CASE q = r
        <5>1. running'[r].job = e /\ running'[r].age = 0
          BY <1>1, <3>1
        <5>2. e # 0 /\ 0 <= MaxRun[e]
          BY <2>2, Jobs
        <5>3. \A j \in Job : 0 - due[r][j] <= SumFunctionOnSet(MaxRun, After(r, j)) + 0
          <6>1. running[r].job = 0 /\ running[r].age = 0 /\ InTurn(r) /\ \A j \in Job : j # 0
            BY <1>1, <1>3, <2>3, Jobs
          <6> QED BY <6>1 DEF InTurn
        <5>4. \A j \in Job : After(r, j)' = After(r, j)
          BY <3>1 DEF After
        <5> QED BY <2>2, <3>1, <4>2, <5>1, <5>2, <5>3, <5>4 DEF InTurn
      <4> QED BY <4>1, <4>2
    <3> QED BY <1>1, <2>3, <3>2, <3>3, <3>4 DEF SchedulerInv
  <2>5. CASE lock[e] # 0
    <3>1. running' = running /\ due' = [due EXCEPT ![r][e] = NextTurn(e, clock)]
      BY <1>4, <2>1, <2>5 DEF RunJob, Reschedule
    <3>2. SchedulerTypeOK'
      BY <1>1, <1>2, <2>2, <2>3, <3>1 DEF SchedulerTypeOK
    <3>3. due'[r] = [due[r] EXCEPT ![e] = NextTurn(e, clock)]
      BY <1>1, <3>1
    <3>4. ASSUME NEW q \in up PROVE InTurn(q)'
      <4>1. CASE q # r
        BY <1>1, <3>1, <4>1, StaysInTurn
      <4>2. CASE q = r
        <5>1. running[r].age <= MaxRun[e] /\ running[r].job \in {0, e} /\ running'[r] = NoRun
          BY <1>3, <2>2, <2>3, <3>1, Jobs
        <5> QED BY <1>2, <2>2, <2>3, <3>3, <4>2, <5>1, TurnOver
      <4> QED BY <4>1, <4>2
    <3> QED BY <1>1, <2>3, <3>1, <3>2, <3>4 DEF SchedulerInv
  <2> QED BY <2>4, <2>5
<1>5. ASSUME NEW r \in Replica, FinishJob(r) PROVE SchedulerInv'
  <2>1. PICK k : k = running[r].job
    OBVIOUS
  <2>2. running[r] # NoRun /\ UNCHANGED <<clock, up>> /\ r \in up
    BY <1>1, <1>5 DEF FinishJob
  <2>3. k \in Job
    <3>1. running[r] \in [job : Job \cup {0}, age : Nat] /\ InTurn(r)
      BY <1>1, <2>2
    <3>2. k = 0 => running[r] = NoRun
      BY <2>1, <3>1 DEF InTurn, NoRun
    <3> QED BY <2>1, <2>2, <3>1, <3>2
  <2>4. running' = [running EXCEPT ![r] = NoRun] /\ due' = [due EXCEPT ![r][k] = NextTurn(k, clock)]
    BY <1>5, <2>1 DEF FinishJob, Reschedule
  <2>5. SchedulerTypeOK'
    BY <1>1, <1>2, <1>3, <2>2, <2>3, <2>4 DEF SchedulerTypeOK
  <2>6. due'[r] = [due[r] EXCEPT ![k] = NextTurn(k, clock)] /\ running'[r] = NoRun
    BY <1>1, <2>4
  <2>7. ASSUME NEW q \in up PROVE InTurn(q)'
    <3>1. CASE q # r
      BY <1>1, <2>4, <3>1, StaysInTurn
    <3>2. CASE q = r
      <4>1. /\ running[r].age <= MaxRun[k] /\ running[r].job \in {0, k}
            /\ \A j \in Job : due[r][k] <= due[r][j]
        BY <1>1, <2>1, <2>2, <2>3, Jobs DEF InTurn
      <4> QED BY <1>2, <2>2, <2>3, <2>6, <3>2, <4>1, TurnOver
    <3> QED BY <3>1, <3>2
  <2>8. \A q \in Replica \ up : running'[q] = NoRun
    BY <1>1, <2>4
  <2> QED BY <2>2, <2>5, <2>7, <2>8 DEF SchedulerInv
<1>6. ASSUME NEW r \in Replica, Stop(r) PROVE SchedulerInv'
  <2>1. /\ up' = up \ {r} /\ clock' = clock
        /\ running' = [running EXCEPT ![r] = NoRun]
        /\ due' = [due EXCEPT ![r] = [j \in Job |-> 0]]
    BY <1>6 DEF Stop
  <2>2. SchedulerTypeOK'
    BY <1>1, <1>3, <2>1 DEF SchedulerTypeOK
  <2>3. \A q \in Replica : q # r => due'[q] = due[q] /\ running'[q] = running[q]
    BY <1>1, <2>1
  <2>4. running'[r] = NoRun
    BY <1>1, <2>1
  <2>5. ASSUME NEW q \in up' PROVE InTurn(q)'
    BY <1>1, <2>1, <2>3, StaysInTurn
  <2>6. ASSUME NEW q \in Replica \ up' PROVE running'[q] = NoRun
    BY <1>1, <2>1, <2>3, <2>4
  <2> QED BY <2>2, <2>5, <2>6 DEF SchedulerInv
<1>7. ASSUME NEW r \in Replica, StartUp(r) PROVE SchedulerInv'
  <2>1. /\ r \notin up /\ up' = up \cup {r} /\ UNCHANGED <<clock, running>>
        /\ due' = [due EXCEPT ![r] = FirstTurns]
    BY <1>7 DEF StartUp
  <2>2. \A j \in Job : FirstTurns[j] = NextTurn(j, clock)
    BY DEF FirstTurns
  <2>a. FirstTurns \in [Job -> Int]
    BY <1>2 DEF FirstTurns
  <2>3. SchedulerTypeOK'
    BY <1>1, <2>1, <2>a DEF SchedulerTypeOK
  <2>4. \A q \in Replica : q # r => due'[q] = due[q]
    BY <1>1, <2>1
  <2>5. due'[r] = FirstTurns /\ running'[r] = NoRun
    BY <1>1, <2>1
  <2>6. InTurn(r)'
    BY <1>2, <2>2, <2>5, AllAhead
  <2>7. ASSUME NEW q \in up' PROVE InTurn(q)'
    BY <1>1, <2>1, <2>4, <2>6, StaysInTurn
  <2> QED BY <1>1, <2>1, <2>3, <2>7 DEF SchedulerInv
<1>8. ASSUME Tick PROVE SchedulerInv'
  <2>1. /\ clock' = (clock + 1) % Cycle /\ up' = up
        /\ due' = [r \in Replica |->
                     IF r \in up THEN [j \in Job |-> due[r][j] - 1] ELSE due[r]]
        /\ running' = [r \in Replica |->
                         IF running[r] = NoRun THEN NoRun
                         ELSE [running[r] EXCEPT !.age = @ + 1]]
    BY <1>8 DEF Tick
  <2>2. clock' \in Nat
    <3>1. clock + 1 \in Nat
      BY <1>1
    <3> QED BY <2>1, <3>1, CycleGoesOn
  <2>3. due' \in [Replica -> [Job -> Int]]
    BY <1>1, <2>1
  <2>4. running' \in [Replica -> [job : Job \cup {0}, age : Nat]]
    <3> SUFFICES ASSUME NEW q \in Replica
                 PROVE  running'[q] \in [job : Job \cup {0}, age : Nat]
      BY <2>1
    <3>1. CASE running[q] = NoRun
      <4>1. running'[q] = NoRun
        BY <2>1, <3>1
      <4> QED BY <1>1, <3>1, <4>1
    <3>2. CASE running[q] # NoRun
      <4>1. running'[q] = [running[q] EXCEPT !.age = @ + 1]
        BY <2>1, <3>2
      <4>2. PICK x \in [job : Job \cup {0}, age : Nat] : x = running[q]
        BY <1>1
      <4>3. x.age + 1 \in Nat
        OBVIOUS
      <4> QED BY <4>1, <4>2, <4>3
    <3> QED BY <3>1, <3>2
  <2>5. ASSUME NEW r \in up PROVE InTurn(r)'
    <3>1. r \in Replica /\ InTurn(r) /\ \A j \in Job : due[r][j] \in Int
      BY <1>1
    <3>2. \A j \in Job : due'[r][j] = due[r][j] - 1
      BY <2>1, <3>1
    <3>3. CASE running[r] = NoRun
      <4>1. ~Waiting(r) /\ Ready(r)
        BY <1>8, <3>3 DEF Tick, Ready
      <4>2. PICK e : e = Earliest(r)
        OBVIOUS
      <4>3. e \in Job /\ \A j \in Job : due[r][e] <= due[r][j]
        BY <3>1, <4>2, EarliestIsFirst DEF SchedulerInv
      <4>4. ~(due[r][e] <= 0)
        BY <4>1, <4>2 DEF Waiting
      <4>5. \A j \in Job : due'[r][j] \in Int /\ due'[r][j] >= 0
        BY <3>1, <3>2, <4>3, <4>4
      <4>6. running'[r] = NoRun
        BY <2>1, <3>1, <3>3
      <4> QED BY <4>5, <4>6, AllAhead
    <3>4. CASE running[r] # NoRun
      <4>1. PICK k, a : k = running[r].job /\ a = running[r].age
        OBVIOUS
      <4>2. running[r] \in [job : Job \cup {0}, age : Nat]
        BY <1>1, <3>1
      <4>3. k \in Job \cup {0} /\ a \in Nat
        BY <4>1, <4>2
      <4>4. k # 0
        BY <3>1, <3>4, <4>1, <4>2 DEF InTurn, NoRun
      <4>5. running'[r].job = k /\ running'[r].age = a + 1
        BY <2>1, <3>1, <3>4, <4>1, <4>2
      <4>6. a < MaxRun[k]
        BY <1>8, <3>4, <4>1 DEF Tick
      <4>7. a + 1 <= MaxRun[k]
        BY <4>3, <4>4, <4>6, Jobs
      <4>8. \A j \in Job : After(r, j)' = After(r, j)
        <5> SUFFICES ASSUME NEW j \in Job PROVE After(r, j)' = After(r, j)
          OBVIOUS
        <5>1. \A i \in Job : due'[r][j] < due'[r][i] <=> due[r][j] < due[r][i]
          BY <3>1, <3>2
        <5> QED BY <5>1 DEF After
      <4>9. \A j \in Job : due'[r][k] <= due'[r][j]
        <5>1. \A j \in Job : due[r][k] <= due[r][j]
          BY <3>1, <4>1, <4>4 DEF InTurn
        <5>2. k \in Job
          BY <4>3, <4>4
        <5> QED BY <3>1, <3>2, <5>1, <5>2
      <4>10. ASSUME NEW j \in Job \ {k}
             PROVE  0 - due'[r][j] <= SumFunctionOnSet(MaxRun, After(r, j)) + (a + 1)
        <5>1. PICK n : n = SumFunctionOnSet(MaxRun, After(r, j))
          OBVIOUS
        <5>2. After(r, j) \in SUBSET Job
          BY DEF After
        <5>3. n \in Nat
          BY <5>1, <5>2, RunsOf
        <5>4. 0 - due[r][j] <= n + a
          BY <3>1, <4>1, <5>1 DEF InTurn
        <5>5. 0 - due'[r][j] <= n + (a + 1)
          BY <3>1, <3>2, <4>3, <5>3, <5>4
        <5> QED BY <5>1, <5>5
      <4> QED BY <4>4, <4>5, <4>7, <4>8, <4>9, <4>10 DEF InTurn
    <3> QED BY <3>3, <3>4
  <2>6. \A q \in Replica \ up : running'[q] = NoRun
    BY <1>1, <2>1
  <2>7. SchedulerTypeOK'
    BY <1>1, <2>1, <2>2, <2>3, <2>4 DEF SchedulerTypeOK
  <2> QED BY <2>1, <2>5, <2>6, <2>7 DEF SchedulerInv
<1>9. CASE UNCHANGED schedulerVars
  <2>1. UNCHANGED <<clock, due, running, up>>
    BY <1>9 DEF schedulerVars
  <2>2. SchedulerTypeOK'
    BY <1>1, <2>1 DEF SchedulerTypeOK
  <2>3. \A r \in up : InTurn(r)'
    BY <1>1, <2>1, StaysInTurn
  <2> QED BY <1>1, <2>1, <2>2, <2>3 DEF SchedulerInv
<1> QED BY <1>4, <1>5, <1>6, <1>7, <1>8, <1>9 DEF SchedulerNext

(* A job is late by no more than one run of each of the other jobs, for    *)
(* any schedules, any length of the runs and any number of replicas that   *)
(* take each other's locks and stop: a job that has run is due again after *)
(* all those that wait, and the one that is due first goes first.          *)
THEOREM NoJobIsStarvedCorrect == SchedulerSpec => []NoJobIsStarved
<1>1. SchedulerInv => NoJobIsStarved
  <2> SUFFICES ASSUME SchedulerInv, NEW r \in up, NEW j \in Job, running[r].job # j
               PROVE  due[r][j] >= 0 - SumFunctionOnSet(MaxRun, Job \ {j})
    BY DEF NoJobIsStarved
  <2>1. PICK k, a, n, m : /\ k = running[r].job /\ a = running[r].age
                          /\ n = SumFunctionOnSet(MaxRun, After(r, j))
                          /\ m = SumFunctionOnSet(MaxRun, Job \ {j})
    OBVIOUS
  <2>2. r \in Replica /\ InTurn(r) /\ \A i \in Job : due[r][i] \in Int
    BY DEF SchedulerInv, SchedulerTypeOK
  <2>3. k \in Job \cup {0} /\ a \in Nat
    BY <2>1, <2>2 DEF SchedulerInv, SchedulerTypeOK
  <2>4. After(r, j) \in SUBSET (Job \ {j}) /\ Job \ {j} \in SUBSET Job
    BY <2>2 DEF After
  <2>5. n \in Nat /\ m \in Nat /\ n <= m
    BY <2>1, <2>4, RunsOf
  <2>6. 0 - due[r][j] <= n + a
    BY <2>1, <2>2 DEF InTurn
  <2>7. n + a <= m
    <3>1. CASE k = 0
      BY <2>1, <2>2, <2>3, <2>5, <3>1 DEF InTurn
    <3>2. CASE k # 0
      <4>1. k \in Job /\ a <= MaxRun[k] /\ \A i \in Job : due[r][k] <= due[r][i]
        BY <2>1, <2>2, <2>3, <3>2 DEF InTurn
      <4>2. k \notin After(r, j)
        BY <2>2, <4>1 DEF After
      <4>3. After(r, j) \cup {k} \in SUBSET (Job \ {j}) /\ After(r, j) \in SUBSET Job
        BY <2>1, <2>4, <4>1
      <4>4. MaxRun[k] + n <= m
        BY <2>1, <2>4, <4>1, <4>2, <4>3, RunMore
      <4>5. MaxRun[k] \in Nat
        BY <4>1, Jobs
      <4> QED BY <2>3, <2>5, <4>1, <4>4, <4>5
    <3> QED BY <3>1, <3>2
  <2> QED BY <2>1, <2>2, <2>3, <2>5, <2>6, <2>7
<1> QED BY <1>1, SchedulerStart, SchedulerStep, PTL DEF SchedulerSpec

(* The turn that a job asks for is the first one strictly after the moment *)
(* of asking, for every schedule and every calendar.                       *)
THEOREM TurnsAreFirstCorrect == SchedulerSpec => []TurnsAreFirst
<1>1. SchedulerInv => TurnsAreFirst
  BY NextTurnAhead DEF SchedulerInv, SchedulerTypeOK, TurnsAreFirst
<1> QED BY <1>1, SchedulerStart, SchedulerStep, PTL DEF SchedulerSpec

(***************************************************************************)
(* BonusExpiry.  A batch that was not full held all that was left, and     *)
(* what is written off had lapsed.                                         *)
(***************************************************************************)
(* What the job and the wallets hold.                                      *)
JobTypeOK ==
    /\ bonus \in [Saver -> Nat] /\ hour \in Nat
    /\ job \in [step : Over \cup {"select", "write", "next"}, now : Nat, size : Nat,
                batch : SUBSET Saver, wrote : SUBSET Saver]

(* What was written off had lapsed, and stays locked.  A batch is as it was *)
(* selected but for the readers who were faster; one that was not full     *)
(* holds all that is left, for what a reader tops up lapses after the run  *)
(* began.                                                                  *)
RunRight ==
    /\ job.step \in Over => job.batch = {} /\ job.wrote = {}
    /\ job.now <= hour
    /\ \A u \in job.wrote : Lapsed(u, job.now)
    /\ job.step # "write" => job.batch = {}
    /\ job.step = "write" /\ job.batch = {} => job.size = 0
    /\ \A u \in job.batch : Lapsed(u, job.now) \/ u \in overtaken
    /\ job.step \in {"write", "next"} /\ job.size < Batch =>
         \A u \in Saver : Lapsed(u, job.now) => u \in job.wrote \cup job.batch

(* The invariant of the job.                                               *)
ExpiryInv == JobTypeOK /\ RunRight

-----------------------------------------------------------------------------
(* If fewer than k are taken from the small end, all are taken.            *)
LEMMA FewAreAll ==
    ASSUME NEW all, IsFiniteSet(all), all \in SUBSET Nat, NEW k \in Nat,
           NEW some, some = {u \in all : Cardinality({v \in all : v < u}) < k},
           Cardinality(some) < k
    PROVE  some = all
<1>1. SUFFICES ASSUME all \ some # {} PROVE FALSE
  OBVIOUS
<1>2. IsFiniteSet(all \ some)
  <2>1. all \ some \in SUBSET all
    OBVIOUS
  <2> QED BY <2>1, FS_Subset
<1>a. all \ some \in SUBSET Int
  <2> SUFFICES ASSUME NEW v \in all PROVE v \in Int
    OBVIOUS
  <2>1. v \in Nat
    OBVIOUS
  <2> QED BY <2>1
<1>3. PICK u \in all \ some : \A v \in all \ some : u <= v
  BY ONLY <1>1, <1>2, <1>a, LeastMember
<1> DEFINE below == {v \in all : v < u}
<1>4. below \in SUBSET some
  <2> SUFFICES ASSUME NEW v \in all, v < u, v \notin some PROVE FALSE
    OBVIOUS
  <2>1. u \in Nat /\ v \in Nat /\ u <= v
    BY <1>3
  <2> QED BY <2>1
<1>5. some \in SUBSET all
  OBVIOUS
<1>6. ~(Cardinality(below) < k)
  BY <1>3
<1> HIDE DEF below
<1>7. IsFiniteSet(some) /\ IsFiniteSet(below) /\ Cardinality(below) <= Cardinality(some)
  BY <1>4, <1>5, FS_Subset
<1>8. Cardinality(some) \in Nat /\ Cardinality(below) \in Nat
  BY <1>7, FS_CardinalityType
<1> QED BY <1>6, <1>7, <1>8

(* The select finds readers with lapsed bonus coins, all of them if it     *)
(* finds fewer than a batch.                                               *)
LEMMA Selected ==
    ASSUME ExpiryInv
    PROVE  /\ ExpiryCandidates \in SUBSET Saver /\ Cardinality(ExpiryCandidates) \in Nat
           /\ \A u \in ExpiryCandidates : Candidate(u)
           /\ Cardinality(ExpiryCandidates) < Batch =>
                \A u \in Saver : Candidate(u) => u \in ExpiryCandidates
           /\ ExpiryCandidates = {} => Cardinality(ExpiryCandidates) = 0
<1> DEFINE all == {u \in Saver : Candidate(u)}
           some == {u \in all : Cardinality({v \in all : v < u}) < Batch}
<1>1. some = ExpiryCandidates
  BY DEF ExpiryCandidates
<1>2. all \in SUBSET Saver /\ all \in SUBSET Nat /\ some \in SUBSET all /\ Batch \in Nat
  BY ExpiryAssumption
<1>3. IsFiniteSet(all)
  <2> HIDE DEF all
  <2> QED BY <1>2, ExpiryAssumption, FS_Subset
<1>4. IsFiniteSet(some)
  <2> HIDE DEF all, some
  <2> QED BY <1>2, <1>3, FS_Subset
<1>5. Cardinality(some) < Batch => some = all
  <2> PICK most : most = all
    OBVIOUS
  <2> PICK few : few = some
    OBVIOUS
  <2>1. few = {u \in most : Cardinality({v \in most : v < u}) < Batch}
    OBVIOUS
  <2>2. most \in SUBSET Nat /\ IsFiniteSet(most) /\ Batch \in Nat
    BY <1>2, <1>3
  <2> HIDE DEF all, some
  <2>3. Cardinality(few) < Batch => few = most
    BY <2>1, <2>2, FewAreAll
  <2> QED BY <2>3
<1>6. some # {} \/ Cardinality(some) = 0
  BY FS_EmptySet
<1>7. Cardinality(some) \in Nat
  BY <1>4, FS_CardinalityType
<1>8. \A u \in all : u \in Saver /\ Candidate(u)
  OBVIOUS
<1>9. \A u \in Saver : Candidate(u) => u \in all
  OBVIOUS
<1> HIDE DEF all, some
<1> QED BY <1>1, <1>2, <1>5, <1>6, <1>7, <1>8, <1>9

(* The reader whose coins are written off next is of the batch.            *)
LEMMA FirstOfBatch ==
    ASSUME NEW S \in SUBSET Saver, S # {} PROVE Min(S) \in S
<1>1. IsFiniteSet(S)
  BY ExpiryAssumption, FS_Subset
<1>2. S \in SUBSET Int /\ S # {}
  BY ExpiryAssumption
<1>3. \E u \in S : \A v \in S : u <= v
  BY ONLY <1>1, <1>2, LeastMember
<1> QED BY <1>3 DEF Min

(* Every step keeps the invariant.                                         *)
LEMMA ExpiryStep == ASSUME ExpiryInv, [ExpiryNext]_expiryVars PROVE ExpiryInv'
<1>1. JobTypeOK /\ RunRight
  BY DEF ExpiryInv
<1>3. ASSUME NEW how \in Over, Ended(how), bonus' \in [Saver -> Nat], hour' \in Nat
      PROVE  ExpiryInv'
  <2>1. job' = [step |-> how, now |-> 0, size |-> 0, batch |-> {}, wrote |-> {}]
    BY <1>3 DEF Ended, NoJob
  <2> QED BY <1>3, <2>1 DEF ExpiryInv, JobTypeOK, RunRight, Over
<1>4. CASE BeginRun
  <2>1. job' = [step |-> "select", now |-> hour, size |-> 0, batch |-> {}, wrote |-> {}]
    BY <1>4 DEF BeginRun, NoJob
  <2>2. UNCHANGED <<bonus, hour>>
    BY <1>4 DEF BeginRun
  <2> QED BY <1>1, <2>1, <2>2 DEF ExpiryInv, JobTypeOK, RunRight, Over
<1>5. CASE SelectBatch
  <2> DEFINE ec == ExpiryCandidates
  <2>1. /\ job.step = "select" /\ UNCHANGED <<bonus, hour, overtaken>>
        /\ job' = [job EXCEPT !.batch = ec, !.step = "write", !.size = Cardinality(ec)]
    BY <1>5 DEF SelectBatch
  <2>2. /\ ec \in SUBSET Saver /\ Cardinality(ec) \in Nat
        /\ \A u \in ec : Lapsed(u, job.now)
        /\ Cardinality(ec) < Batch => \A u \in Saver : Lapsed(u, job.now) => u \in job.wrote \cup ec
        /\ ec = {} => Cardinality(ec) = 0
    BY Selected DEF Candidate
  <2> HIDE DEF ec
  <2>3. /\ job'.step = "write" /\ job'.batch = ec /\ job'.size = Cardinality(ec)
        /\ job'.now = job.now /\ job'.wrote = job.wrote
    BY <1>1, <2>1 DEF JobTypeOK
  <2>4. JobTypeOK'
    BY <1>1, <2>1, <2>2 DEF JobTypeOK
  <2>5. \A u, t : Lapsed(u, t)' = Lapsed(u, t)
    BY <2>1 DEF Lapsed
  <2>6. RunRight'
    BY <1>1, <2>1, <2>2, <2>3, <2>5 DEF RunRight, Over
  <2> QED BY <2>4, <2>6 DEF ExpiryInv
<1>6. CASE WriteOff
  <2> DEFINE u == Min(job.batch)
  <2>1. job.step = "write" /\ job.batch # {} /\ UNCHANGED <<bonus, hour, overtaken>>
    BY <1>6 DEF WriteOff
  <2>2. u \in job.batch /\ job.batch \in SUBSET Saver
    BY <1>1, <2>1, FirstOfBatch DEF JobTypeOK
  <2>3. CASE ~Lapsed(u, job.now)
    BY <1>1, <1>3, <1>6, <2>1, <2>3 DEF WriteOff, Over, JobTypeOK
  <2>4. CASE Lapsed(u, job.now)
    <3>1. job' = [job EXCEPT !.batch = @ \ {u}, !.wrote = @ \cup {u},
                             !.step = IF job.batch = {u} THEN "next" ELSE "write"]
      BY <1>6, <2>4 DEF WriteOff
    <3> HIDE DEF u
    <3>2. /\ job'.batch = job.batch \ {u} /\ job'.wrote = job.wrote \cup {u}
          /\ job'.now = job.now /\ job'.size = job.size
          /\ job'.step = IF job.batch = {u} THEN "next" ELSE "write"
      BY <1>1, <3>1 DEF JobTypeOK
    <3>3. JobTypeOK'
      BY <1>1, <2>1, <2>2, <3>1 DEF JobTypeOK
    <3>4. \A x, t : Lapsed(x, t)' = Lapsed(x, t)
      BY <2>1 DEF Lapsed
    <3>5. RunRight'
      BY <1>1, <2>1, <2>2, <2>4, <3>2, <3>4 DEF RunRight, Over
    <3> QED BY <3>3, <3>5 DEF ExpiryInv
  <2> QED BY <2>3, <2>4
<1>7. CASE NextBatch
  <2>1. /\ job.step = "next" /\ job' = [job EXCEPT !.step = "select"]
        /\ UNCHANGED <<bonus, hour, overtaken>>
    BY <1>7 DEF NextBatch
  <2>2. /\ job'.step = "select" /\ job'.batch = job.batch /\ job'.wrote = job.wrote
        /\ job'.now = job.now /\ job'.size = job.size
    BY <1>1, <2>1 DEF JobTypeOK
  <2>3. JobTypeOK'
    BY <1>1, <2>1 DEF JobTypeOK
  <2>4. \A x, t : Lapsed(x, t)' = Lapsed(x, t)
    BY <2>1 DEF Lapsed
  <2> QED BY <1>1, <2>1, <2>2, <2>3, <2>4 DEF RunRight, ExpiryInv, Over
<1>8. CASE CommitRun
  BY <1>1, <1>3, <1>8 DEF CommitRun, Over, JobTypeOK
<1>9. CASE RunFails
  BY <1>1, <1>3, <1>9 DEF RunFails, Over, JobTypeOK
<1>10. ASSUME NEW u \in Saver, Spend(u) \/ TopUp(u) PROVE ExpiryInv'
  <2>1. /\ u \notin job.wrote /\ overtaken' = overtaken \cup {u} /\ UNCHANGED <<job, hour>>
        /\ bonus' \in [Saver -> Nat] /\ \A x \in Saver \ {u} : bonus'[x] = bonus[x]
        /\ bonus'[u] = 0 \/ bonus'[u] = hour + BonusTTL
    BY <1>1, <1>10, ExpiryAssumption DEF Spend, TopUp, JobTypeOK
  <2>2. ~(bonus'[u] # 0 /\ bonus'[u] <= job.now)
    BY <1>1, <2>1, ExpiryAssumption DEF RunRight, JobTypeOK
  <2>3. \A x \in Saver \ {u} : Lapsed(x, job.now)' = Lapsed(x, job.now)
    BY <2>1 DEF Lapsed
  <2>4. ~Lapsed(u, job.now)'
    BY <2>1, <2>2 DEF Lapsed
  <2>5. JobTypeOK'
    BY <1>1, <2>1 DEF JobTypeOK
  <2>6. RunRight'
    BY <1>1, <2>1, <2>3, <2>4 DEF RunRight, JobTypeOK
  <2> QED BY <2>5, <2>6 DEF ExpiryInv
<1>11. CASE HourPasses \/ UNCHANGED expiryVars
  <2>1. UNCHANGED <<bonus, job, overtaken>> /\ hour' \in Nat /\ hour' >= hour
    BY <1>1, <1>11 DEF HourPasses, expiryVars, JobTypeOK
  <2> QED BY <1>1, <2>1 DEF ExpiryInv, JobTypeOK, RunRight, Lapsed
<1> QED BY <1>4, <1>5, <1>6, <1>7, <1>8, <1>9, <1>10, <1>11 DEF ExpiryNext

(* The invariant holds in every state.                                     *)
LEMMA ExpiryHolds == ExpirySpec => []ExpiryInv
<1>1. ExpiryInit => ExpiryInv
  BY DEF ExpiryInit, ExpiryInv, JobTypeOK, RunRight, NoJob, Over
<1> QED BY <1>1, ExpiryStep, PTL DEF ExpirySpec

(* What NightlyWriteOff says of one step.                                  *)
NightEnds ==
    job.step \notin Over /\ job'.step \in Over =>
      /\ \A u \in Saver : bonus'[u] # bonus[u] => Lapsed(u, job.now)
      /\ job'.step = "done" => \A u \in Saver : bonus'[u] = 0 \/ bonus'[u] > job.now
      /\ job'.step = "failed" => outages' # outages \/ overtaken \cap job.batch # {}

(* A run that commits has left nobody out: its last batch was not full, so *)
(* it held all that was left.                                              *)
LEMMA NightEndsRight == ASSUME ExpiryInv, [ExpiryNext]_expiryVars PROVE NightEnds
<1> SUFFICES ASSUME job.step \notin Over, job'.step \in Over
             PROVE  /\ \A u \in Saver : bonus'[u] # bonus[u] => Lapsed(u, job.now)
                    /\ job'.step = "done" =>
                          \A u \in Saver : bonus'[u] = 0 \/ bonus'[u] > job.now
                    /\ job'.step = "failed" =>
                          outages' # outages \/ overtaken \cap job.batch # {}
  BY DEF NightEnds
<1>1. JobTypeOK /\ RunRight
  BY DEF ExpiryInv
<1>2. \A how : Ended(how) => job'.step = how
  BY DEF Ended, NoJob
<1>3. CASE CommitRun
  <2>1. /\ bonus' = [u \in Saver |-> IF u \in job.wrote THEN 0 ELSE bonus[u]]
        /\ \/ job.step = "next" /\ job.size < Batch
           \/ job.step = "write" /\ job.batch = {}
    BY <1>3 DEF CommitRun, LastBatch
  <2>2. \A u \in Saver : bonus'[u] # bonus[u] => Lapsed(u, job.now)
    BY <1>1, <2>1 DEF RunRight
  <2>3. ASSUME NEW u \in Saver PROVE bonus'[u] = 0 \/ bonus'[u] > job.now
    <3>1. job.size < Batch /\ job.batch = {} /\ job.step \in {"write", "next"}
      BY <1>1, <2>1, ExpiryAssumption DEF RunRight
    <3>2. Lapsed(u, job.now) => u \in job.wrote
      BY <1>1, <3>1 DEF RunRight
    <3>3. bonus[u] \in Nat /\ job.now \in Nat
      BY <1>1 DEF JobTypeOK
    <3> QED BY <2>1, <3>2, <3>3 DEF Lapsed
  <2>4. job'.step # "failed"
    BY <1>2, <1>3 DEF CommitRun
  <2> QED BY <2>2, <2>3, <2>4
<1>4. CASE WriteOff
  <2>1. job.step = "write" /\ job.batch # {} /\ UNCHANGED bonus
    BY <1>4 DEF WriteOff
  <2>2. CASE Lapsed(Min(job.batch), job.now)
    <3>1. job'.step \notin Over
      BY <1>1, <1>4, <2>2 DEF WriteOff, JobTypeOK, Over
    <3> QED BY <3>1
  <2>3. CASE ~Lapsed(Min(job.batch), job.now)
    <3>1. Min(job.batch) \in job.batch
      BY <1>1, <2>1, FirstOfBatch DEF JobTypeOK
    <3>2. Min(job.batch) \in overtaken
      BY <1>1, <2>3, <3>1 DEF RunRight
    <3>3. job'.step = "failed"
      BY <1>2, <1>4, <2>3 DEF WriteOff
    <3> QED BY <2>1, <3>1, <3>2, <3>3
  <2> QED BY <2>2, <2>3
<1>5. CASE RunFails
  <2>1. job'.step = "failed" /\ outages' # outages /\ UNCHANGED bonus
    BY <1>2, <1>5 DEF RunFails
  <2> QED BY <2>1
<1>6. CASE BeginRun \/ SelectBatch \/ NextBatch
  BY <1>1, <1>6 DEF BeginRun, SelectBatch, NextBatch, JobTypeOK, Over
<1> QED BY <1>3, <1>4, <1>5, <1>6 DEF ExpiryNext, Spend, TopUp, HourPasses, expiryVars

(* A run of the expiry job that commits leaves no bonus that had lapsed    *)
(* when it began and takes none that had not; it fails only because the    *)
(* database does or a reader of the selected batch was faster.             *)
THEOREM NightlyWriteOffCorrect == ExpirySpec => NightlyWriteOff
<1>1. ExpiryInv /\ [ExpiryNext]_expiryVars
        => [job.step \notin Over /\ job'.step \in Over =>
              /\ \A u \in Saver : bonus'[u] # bonus[u] => Lapsed(u, job.now)
              /\ job'.step = "done" =>
                   \A u \in Saver : bonus'[u] = 0 \/ bonus'[u] > job.now
              /\ job'.step = "failed" =>
                   outages' # outages \/ overtaken \cap job.batch # {}]_expiryVars
  BY NightEndsRight DEF NightEnds
<1> QED BY <1>1, ExpiryHolds, PTL DEF ExpirySpec, NightlyWriteOff

(***************************************************************************)
(* Rollups.  The rows of a day are written when the day is over, by        *)
(* replacing them all.                                                     *)
(***************************************************************************)
(* The stories that have a row of a day.                                   *)
RowsOf(d) == {c \in Story : daily[c][d] # NoStats}

(* What the tables hold.                                                   *)
RollupTypeOK ==
    /\ instant \in Nat /\ instant < (MaxDays + 1) * Hours
    /\ reads \in [Story -> [Days -> Nat]] /\ sales \in [Story -> [Days -> Nat]]
    /\ daily = [c \in Story |-> [d \in Days |-> daily[c][d]]]
    /\ total = [d \in Days |-> total[d]]

(* A day that has rows is over and its figures are those of its events.    *)
DayFolded(d) ==
    /\ RowsOf(d) # {} =>
         /\ d < Today
         /\ total[d].reads = SumFunctionOnSet([c \in Story |-> reads[c][d]], Story)
         /\ total[d].coins = SumFunctionOnSet([c \in Story |-> sales[c][d]], RowsOf(d))
         /\ \A c \in Story \ RowsOf(d) : reads[c][d] = 0
    /\ \A c \in RowsOf(d) : /\ daily[c][d] = [reads |-> reads[c][d], coins |-> sales[c][d]]
                            /\ reads[c][d] > 0

(* The months whose turn has come have partitions.                         *)
Provided == strays = {} => \A m \in turned : {m, m + 1} \subseteq parts

(* The invariant of the rollup and of the partitions.                      *)
RollupInv ==
    /\ RollupTypeOK /\ Provided
    /\ ServerZone = 0 => \A d \in Days : DayFolded(d)

-----------------------------------------------------------------------------
(* Days as quotients of hours.                                             *)
LEMMA DivBounds ==
    ASSUME NEW a \in Nat, NEW b \in Nat \ {0}
    PROVE  a \div b \in Nat /\ b * (a \div b) <= a /\ a < b * ((a \div b) + 1)
OBVIOUS

(* They pass in order.                                                     *)
LEMMA DivMono ==
    ASSUME NEW a \in Nat, NEW c \in Nat, NEW b \in Nat \ {0}, a <= c
    PROVE  a \div b <= c \div b
OBVIOUS

(* They do not pass the last.                                              *)
LEMMA DivBelow ==
    ASSUME NEW a \in Nat, NEW n \in Nat, NEW b \in Nat \ {0}, a < (n + 1) * b
    PROVE  a \div b \in 0..n
<1> DEFINE q == a \div b
<1>1. q \in Nat /\ b * q <= a
  BY DivBounds
<1>2. b * q < b * (n + 1)
  <2>1. (n + 1) * b = b * (n + 1)
    OBVIOUS
  <2>2. b * q \in Int /\ b * (n + 1) \in Int
    BY <1>1
  <2> HIDE DEF q
  <2> QED BY <1>1, <2>1, <2>2
<1> HIDE DEF q
<1>3. ASSUME q >= n + 1 PROVE FALSE
  <2>1. b * (n + 1) <= b * q
    BY <1>1, <1>3
  <2>2. b * q \in Int /\ b * (n + 1) \in Int
    BY <1>1
  <2> QED BY <1>2, <2>1, <2>2
<1> QED BY <1>1, <1>3 DEF q

(* Today is one of the days.                                               *)
LEMMA TodayRight ==
    ASSUME RollupTypeOK
    PROVE  /\ Today \in Days /\ Today \in Nat /\ MonthOf(Today) \in Months /\ MonthOf(Today) \in Nat
           /\ MonthOf(Today) - 1 \in Nat => MonthOf(Today) - 1 \in Months
<1>1. Today \in Days /\ Today \in Nat
  BY DivBelow, RollupAssumption DEF RollupTypeOK, Today, Days
<1>2. Today <= MaxDays /\ MaxDays \in Nat /\ DaysPerMonth \in Nat \ {0}
  BY <1>1, RollupAssumption DEF Days
<1>3. /\ MonthOf(Today) \in Nat /\ MaxDays \div DaysPerMonth \in Nat
      /\ MonthOf(Today) <= MaxDays \div DaysPerMonth
  BY <1>1, <1>2, DivBounds, DivMono DEF MonthOf
<1> QED BY <1>1, <1>3 DEF Months

(* Events of today, and the passing of time, leave the days that are over  *)
(* as they are.                                                            *)
LEMMA LeavesFolded ==
    ASSUME RollupInv, RollupTypeOK', UNCHANGED <<daily, total>>, Today <= Today', Today' \in Nat,
           \A c \in Story : \A d \in Days \ {Today} :
              reads'[c][d] = reads[c][d] /\ sales'[c][d] = sales[c][d],
           ServerZone = 0, NEW d \in Days
    PROVE  DayFolded(d)'
<1>1. DayFolded(d) /\ RowsOf(d)' = RowsOf(d)
  BY DEF RollupInv, RowsOf
<1>2. CASE RowsOf(d) = {}
  BY <1>1, <1>2 DEF DayFolded
<1>3. CASE RowsOf(d) # {}
  <2>1. d < Today /\ d \in Int /\ Today \in Nat
    BY <1>1, <1>3, TodayRight, RollupAssumption DEF DayFolded, Days, RollupInv
  <2>2. \A c \in Story : reads'[c][d] = reads[c][d] /\ sales'[c][d] = sales[c][d]
    BY <2>1
  <2>3. /\ [c \in Story |-> reads'[c][d]] = [c \in Story |-> reads[c][d]]
        /\ [c \in Story |-> sales'[c][d]] = [c \in Story |-> sales[c][d]]
    BY <2>2
  <2>4. \A c \in RowsOf(d) : c \in Story
    BY DEF RowsOf
  <2>5. /\ total'[d].reads = SumFunctionOnSet([c \in Story |-> reads'[c][d]], Story)
        /\ total'[d].coins = SumFunctionOnSet([c \in Story |-> sales'[c][d]], RowsOf(d))
        /\ d < Today'
    <3>1. /\ total[d].reads = SumFunctionOnSet([c \in Story |-> reads[c][d]], Story)
          /\ total[d].coins = SumFunctionOnSet([c \in Story |-> sales[c][d]], RowsOf(d))
          /\ total' = total
      BY <1>1, <1>3 DEF DayFolded
    <3> QED BY <2>1, <2>3, <3>1
  <2>6. /\ \A c \in Story \ RowsOf(d) : reads'[c][d] = 0
        /\ \A c \in RowsOf(d) : /\ daily'[c][d] = [reads |-> reads'[c][d], coins |-> sales'[c][d]]
                                /\ reads'[c][d] > 0
    BY <1>1, <1>3, <2>2, <2>4 DEF DayFolded
  <2> QED BY <1>1, <2>5, <2>6 DEF DayFolded
<1> QED BY <1>2, <1>3

(* The rollup replaces the rows of the day before as a whole.              *)
LEMMA StatsStep ==
    ASSUME RollupInv, StatsRollup, ServerZone = 0, NEW e \in Days
    PROVE  DayFolded(e)'
<1>0. PICK d : d = RollupDay
  OBVIOUS
<1> DEFINE read == {c \in Story : reads[c][d] > 0}
           stats == {c \in Story : daily'[c][d] # NoStats}
<1>1. /\ d >= 0 /\ UNCHANGED <<instant, reads, sales>>
      /\ daily' = [c \in Story |-> IF c \in read THEN [daily[c] EXCEPT ![d] = Folded(c, d)]
                                                 ELSE daily[c]]
      /\ total' = IF stats = {} THEN total
                  ELSE [total EXCEPT ![d] =
                         [reads |-> SumFunctionOnSet([c \in Story |-> daily'[c][d].reads], stats),
                          coins |-> SumFunctionOnSet([c \in Story |-> daily'[c][d].coins], stats)]]
  BY <1>0 DEF StatsRollup
<1>2. d = Today - 1 /\ Today \in Days /\ Today \in Nat /\ d \in Days
  <2>1. instant + 0 = instant
    BY DEF RollupInv, RollupTypeOK
  <2>2. d = Today - 1
    BY <1>0, <2>1 DEF RollupDay, Today
  <2>3. Today \in Days /\ Today \in Nat
    BY TodayRight DEF RollupInv
  <2> QED BY <1>1, <2>2, <2>3, RollupAssumption DEF Days
<1>3. /\ reads \in [Story -> [Days -> Nat]] /\ sales \in [Story -> [Days -> Nat]]
      /\ daily = [c \in Story |-> [x \in Days |-> daily[c][x]]]
      /\ total = [x \in Days |-> total[x]] /\ DayFolded(e) /\ DayFolded(d)
  BY <1>2 DEF RollupInv, RollupTypeOK
<1>4. Today' = Today 
  BY <1>1 DEF Today
<1>5. CASE e # d
  <2>1. \A c \in Story : daily'[c][e] = daily[c][e]
    BY <1>1, <1>2, <1>3, <1>5
  <2>2. total'[e] = total[e]
    BY <1>1, <1>2, <1>3, <1>5
  <2>3. RowsOf(e)' = RowsOf(e) /\ RowsOf(e) \subseteq Story
    BY <2>1 DEF RowsOf
  <2>4. /\ [c \in Story |-> reads'[c][e]] = [c \in Story |-> reads[c][e]]
        /\ [c \in Story |-> sales'[c][e]] = [c \in Story |-> sales[c][e]]
    BY <1>1
  <2>5. RowsOf(e) # {} =>
          /\ e < Today'
          /\ total'[e].reads = SumFunctionOnSet([c \in Story |-> reads'[c][e]], Story)
          /\ total'[e].coins = SumFunctionOnSet([c \in Story |-> sales'[c][e]], RowsOf(e))
          /\ \A c \in Story \ RowsOf(e) : reads'[c][e] = 0
    BY <1>1, <1>3, <1>4, <2>2, <2>4 DEF DayFolded
  <2>6. \A c \in RowsOf(e) : /\ daily'[c][e] = [reads |-> reads'[c][e], coins |-> sales'[c][e]]
                            /\ reads'[c][e] > 0
    BY <1>1, <1>3, <2>1, <2>3 DEF DayFolded
  <2> QED BY <2>3, <2>5, <2>6 DEF DayFolded
<1>6. CASE e = d
  <2>1. \A c \in Story : daily'[c][d] = IF c \in read THEN Folded(c, d) ELSE daily[c][d]
    BY <1>1, <1>2, <1>3
  <2>2. \A c \in Story : /\ Folded(c, d) # NoStats
                         /\ Folded(c, d).reads = reads[c][d] /\ Folded(c, d).coins = sales[c][d]
    <3>1. ASSUME NEW c \in Story PROVE Folded(c, d) # NoStats
      <4>1. Folded(c, d).coins = sales[c][d] /\ sales[c][d] \in Nat
        BY <1>2, <1>3 DEF Folded
      <4>2. NoStats.coins = -1
        BY DEF NoStats
      <4> QED BY <4>1, <4>2
    <3> QED BY <3>1 DEF Folded
  <2>3. \A c \in Story : c \notin read => daily[c][d] = NoStats
    BY <1>3 DEF DayFolded, RowsOf
  <2>4. stats = read
    BY <2>1, <2>2, <2>3
  <2>5. RowsOf(d)' = read /\ \A c \in read : daily'[c][d] = Folded(c, d)
    BY <2>1, <2>4 DEF RowsOf
  <2>6. CASE read = {}
    BY <1>6, <2>5, <2>6 DEF DayFolded
  <2>7. CASE read # {}
    <3> DEFINE R == [c \in Story |-> reads[c][d]]
               S == [c \in Story |-> sales[c][d]]
               DR == [c \in Story |-> daily'[c][d].reads]
               DS == [c \in Story |-> daily'[c][d].coins]
    <3>1. IsFiniteSet(Story) /\ read \in SUBSET Story
      BY RollupAssumption
    <3>2. IsFiniteSet(read)
      BY <3>1, FS_Subset
    <3>3. /\ \A c \in Story : R[c] \in Nat /\ S[c] \in Nat /\ R[c] = reads[c][d] /\ S[c] = sales[c][d]
          /\ \A c \in Story \ read : R[c] = 0
      BY <1>2, <1>3
    <3>4. \A c \in read : DR[c] = R[c] /\ DS[c] = S[c]
      BY <2>2, <2>5, <3>1
    <3>5. total'[d].reads = SumFunctionOnSet(DR, read) /\ total'[d].coins = SumFunctionOnSet(DS, read)
      BY <1>1, <1>2, <1>3, <2>4, <2>7
    <3> HIDE DEF R, S, DR, DS, read
    <3>6. SumFunctionOnSet(DR, read) = SumFunctionOnSet(R, read)
      BY <3>1, <3>2, <3>3, <3>4, SumCongruence
    <3>7. SumFunctionOnSet(DS, read) = SumFunctionOnSet(S, read)
      BY <3>1, <3>2, <3>3, <3>4, SumCongruence
    <3>8. SumFunctionOnSet(R, Story) = SumFunctionOnSet(R, read)
      BY <3>1, <3>3, SumGrows
    <3>9. d < Today
      BY <1>2
    <3>10. /\ total'[d].reads = SumFunctionOnSet([c \in Story |-> reads'[c][d]], Story)
           /\ total'[d].coins = SumFunctionOnSet([c \in Story |-> sales'[c][d]], read)
      BY <1>1, <3>5, <3>6, <3>7, <3>8 DEF R, S
    <3>11. \A c \in Story \ read : reads'[c][d] = 0
      BY <1>1, <3>3
    <3>12. \A c \in read : /\ daily'[c][d] = [reads |-> reads'[c][d], coins |-> sales'[c][d]]
                           /\ reads'[c][d] > 0
      BY <1>1, <2>5 DEF read, Folded
    <3>13. RowsOf(d)' = read /\ Today' = Today
      BY <1>4, <2>5
    <3> QED BY <1>6, <3>9, <3>10, <3>11, <3>12, <3>13 DEF DayFolded
  <2> QED BY <2>6, <2>7
<1> QED BY <1>5, <1>6

(* Every step keeps the invariant.                                         *)
LEMMA RollupStep ==
    ASSUME RollupInv, [RollupNext]_rollupVars
    PROVE  RollupInv'
<1>1. /\ RollupTypeOK /\ Today \in Days /\ Today \in Nat /\ MonthOf(Today) \in Nat
  BY TodayRight DEF RollupInv
<1>2. ASSUME NEW c \in Story, RecordRead(c) PROVE RollupInv'
  <2>1. /\ reads' = [reads EXCEPT ![c][Today] = @ + 1] /\ strays' = strays \cup ({MonthOf(Today)} \ parts)
        /\ UNCHANGED <<instant, sales, daily, total, parts, turned>>
    BY <1>2 DEF RecordRead
  <2>2. RollupTypeOK'
    BY <1>1, <2>1 DEF RollupTypeOK
  <2>3. Provided'
    BY <2>1 DEF RollupInv, Provided
  <2>4. Today' = Today
    BY <2>1 DEF Today
  <2>5. \A x \in Story : \A d \in Days \ {Today} :
           reads'[x][d] = reads[x][d] /\ sales'[x][d] = sales[x][d]
    BY <1>1, <2>1 DEF RollupTypeOK
  <2> QED BY <1>1, <2>1, <2>2, <2>3, <2>4, <2>5, LeavesFolded DEF RollupInv
<1>3. ASSUME NEW c \in Story, Sell(c) PROVE RollupInv'
  <2>1. /\ sales' = [sales EXCEPT ![c][Today] = @ + 1]
        /\ UNCHANGED <<instant, reads, daily, total, parts, strays, turned>>
    BY <1>3 DEF Sell
  <2>2. RollupTypeOK'
    BY <1>1, <2>1 DEF RollupTypeOK
  <2>3. Provided'
    BY <2>1 DEF RollupInv, Provided
  <2>4. Today' = Today
    BY <2>1 DEF Today
  <2>5. \A x \in Story : \A d \in Days \ {Today} :
           reads'[x][d] = reads[x][d] /\ sales'[x][d] = sales[x][d]
    BY <1>1, <2>1 DEF RollupTypeOK
  <2> QED BY <1>1, <2>1, <2>2, <2>3, <2>4, <2>5, LeavesFolded DEF RollupInv
<1>4. CASE StatsRollup
  <2>1. /\ UNCHANGED <<instant, reads, sales, parts, strays, turned>>
        /\ daily' = [c \in Story |-> daily'[c]] /\ \A c \in Story : daily'[c] = [d \in Days |-> daily'[c][d]]
        /\ total' = [d \in Days |-> total'[d]]
    BY <1>1, <1>4 DEF StatsRollup, RollupTypeOK
  <2>2. RollupTypeOK'
    BY <1>1, <2>1 DEF RollupTypeOK
  <2>3. Provided'
    BY <2>1 DEF RollupInv, Provided
  <2>4. ServerZone = 0 => \A d \in Days : DayFolded(d)'
    BY <1>4, StatsStep
  <2> QED BY <2>2, <2>3, <2>4 DEF RollupInv
<1>5. ASSUME CreatePartitions \/ UNCHANGED rollupVars PROVE RollupInv'
  <2>1. UNCHANGED <<instant, reads, sales, daily, total, strays>>
    BY <1>5 DEF CreatePartitions, rollupVars
  <2>2. RollupTypeOK' /\ Today' = Today
    BY <1>1, <2>1 DEF RollupTypeOK, Today
  <2>3. Provided'
    <3>1. CASE CreatePartitions
      <4> SUFFICES ASSUME strays = {} PROVE \A m \in turned' : {m, m + 1} \subseteq parts'
        BY <2>1 DEF Provided
      <4>1. parts' = parts \cup Wanted /\ turned' = turned \cup {MonthOf(Today)}
        BY <3>1 DEF CreatePartitions
      <4>2. Wanted = {MonthOf(Today), MonthOf(Today) + 1}
        BY <1>1 DEF Wanted, Offsets
      <4> QED BY <4>1, <4>2 DEF RollupInv, Provided
    <3>2. CASE UNCHANGED rollupVars
      BY <3>2 DEF rollupVars, RollupInv, Provided
    <3> QED BY <1>5, <3>1, <3>2
  <2>4. \A x \in Story : \A d \in Days \ {Today} :
           reads'[x][d] = reads[x][d] /\ sales'[x][d] = sales[x][d]
    BY <2>1
  <2> QED BY <1>1, <2>1, <2>2, <2>3, <2>4, LeavesFolded DEF RollupInv
<1>6. CASE HourGoes
  <2>1. /\ instant' = instant + 1 /\ instant < (MaxDays + 1) * Hours - 1
        /\ UNCHANGED <<reads, sales, daily, total, parts, strays, turned>>
    BY <1>6 DEF HourGoes
  <2>2. (MaxDays + 1) * Hours \in Int
    BY RollupAssumption
  <2>3. RollupTypeOK'
    BY <1>1, <2>1, <2>2 DEF RollupTypeOK
  <2>4. Provided'
    BY <2>1 DEF RollupInv, Provided
  <2>5. Today' \in Nat /\ Today <= Today'
    <3>1. instant \in Nat /\ instant' \in Nat /\ instant <= instant' /\ Hours \in Nat \ {0}
      BY <1>1, <2>1, RollupAssumption DEF RollupTypeOK
    <3> QED BY <3>1, DivMono, DivBounds DEF Today
  <2> QED BY <1>1, <2>1, <2>3, <2>4, <2>5, LeavesFolded DEF RollupInv
<1> QED BY <1>2, <1>3, <1>4, <1>5, <1>6 DEF RollupNext

(* The invariant holds in every state.                                     *)
LEMMA RollupHolds == RollupSpec => []RollupInv
<1>1. RollupInit => RollupInv
  <2> SUFFICES ASSUME RollupInit PROVE RollupInv
    OBVIOUS
  <2>1. RollupTypeOK
    <3>1. 0 < (MaxDays + 1) * Hours
      BY RollupAssumption
    <3> QED BY <3>1 DEF RollupInit, RollupTypeOK
  <2>2. \A d \in Days : RowsOf(d) = {}
    BY DEF RollupInit, RowsOf
  <2> QED BY <2>1, <2>2 DEF RollupInit, RollupInv, Provided, DayFolded
<1> QED BY <1>1, RollupStep, PTL DEF RollupSpec

(* Where the server's days are the database's, what the rollup has written *)
(* of a day is all that happened on it, for any number of stories and      *)
(* events: the day is over when it is folded, and folding it again changes *)
(* nothing.                                                                *)
THEOREM FiguresFinalCorrect == RollupSpec => []FiguresFinal
<1>1. RollupInv => FiguresFinal
  BY DEF RollupInv, DayFolded, RowsOf, Folded, FiguresFinal
<1> QED BY <1>1, RollupHolds, PTL

(* No event goes to the default partition as long as the partition job has *)
(* not missed a turn: the months that it has come to, and the ones after   *)
(* them, have theirs.                                                      *)
THEOREM NoStraysCorrect == RollupSpec => NoStrays
<1>1. ASSUME RollupInv, [RollupNext]_rollupVars, Prepared, strays = {}, 0 \in turned
      PROVE  strays' = {}
  <2>1. ASSUME NEW c \in Story, RecordRead(c) PROVE strays' = {}
    <3>1. /\ MonthOf(Today) \in Nat
          /\ MonthOf(Today) - 1 \in Nat => MonthOf(Today) - 1 \in Months
      BY <1>1, TodayRight DEF RollupInv
    <3>2. \A m \in turned : {m, m + 1} \subseteq parts
      BY <1>1 DEF RollupInv, Provided
    <3>3. MonthOf(Today) \in parts
      <4>1. CASE MonthOf(Today) = 0
        BY <1>1, <3>2, <4>1
      <4>2. CASE MonthOf(Today) # 0
        <5>1. MonthOf(Today) - 1 \in Nat /\ MonthOf(Today) - 1 < MonthOf(Today)
          BY <3>1, <4>2
        <5>2. MonthOf(Today) - 1 \in turned
          BY <1>1, <3>1, <5>1 DEF Prepared
        <5> QED BY <3>1, <3>2, <5>2
      <4> QED BY <4>1, <4>2
    <3> QED BY <1>1, <2>1, <3>3 DEF RecordRead
  <2>2. CASE StatsRollup
    BY <1>1, <2>2 DEF StatsRollup
  <2> QED BY <1>1, <2>1, <2>2 DEF RollupNext, Sell, CreatePartitions, HourGoes, rollupVars
<1>2. RollupInv /\ [RollupNext]_rollupVars
        => [Prepared /\ strays = {} /\ 0 \in turned => strays' = {}]_rollupVars
  BY <1>1
<1> QED BY <1>2, RollupHolds, PTL DEF RollupSpec, NoStrays

(***************************************************************************)
(* RateLimit, sign-in attempts.  A bucket's credit, less what has come     *)
(* back since it was counted, pays for all that was let through from any   *)
(* time on.                                                                *)
(***************************************************************************)
(* The moments, the tokens of a full bucket, and what was let through from *)
(* a moment on.                                                            *)
Times == 0..MaxNow
Full  == Rate * Per
Since(c, s) == LetThrough(c, s, MaxNow)

(* A request at the limiter has read the clock, at most Lag ago.           *)
AskedRight ==
    /\ now \in Times /\ asked = [w \in Worker |-> asked[w]]
    /\ \A w \in Worker : \A r \in asked[w] :
         /\ r.who \in Caller /\ r.at \in Times /\ r.at <= now /\ now - r.at <= Lag

(* The log of what was let through.                                        *)
TriesTyped == tries \in [Caller -> [Times -> Nat]]

(* Nothing was let through later than m, at most Lag after the bucket.     *)
BackedUpTo(c, b, m) ==
    /\ b.at <= m /\ m <= b.at + Lag /\ m <= now
    /\ 0 <= b.credit + Rate * (m - b.at)
    /\ \A i \in Times : i > m => tries[c][i] = 0
    /\ \A s \in Times : s <= m => Per * Since(c, s) + b.credit <= Full + Rate * (b.at - s)
Backed(c, b) == /\ b.credit \in Int /\ b.at \in Int
                /\ \E m \in Int : BackedUpTo(c, b, m)

(* A caller without a bucket has got back all that was ever taken.         *)
Quiet(c) == \A s \in Times : \/ Since(c, s) = 0
                             \/ Per * Since(c, s) <= Rate * (now - Lag - s)

(* No span has more attempts than a full bucket and the tokens that came   *)
(* back in it.                                                             *)
Paid == \A c \in Caller : \A t \in Times : \A s \in 0..t :
           Per * LetThrough(c, s, t) <= Full + Rate * (t - s)

(* The invariant of the sign-in limiter.                                   *)
SignInInv ==
    /\ AskedRight /\ TriesTyped /\ buckets = [c \in Caller |-> buckets[c]]
    /\ \A c \in Caller : /\ \A b \in buckets[c] : Backed(c, b)
                         /\ buckets[c] = {} => Quiet(c)
    /\ Paid

-----------------------------------------------------------------------------
(* Spans of time are finite.                                               *)
LEMMA Spans == ASSUME NEW s \in Int, NEW t \in Int PROVE IsFiniteSet(s..t)
BY FS_Interval

(* Attempts are counted in natural numbers.                                *)
LEMMA LetThroughIsNat ==
    ASSUME TriesTyped, NEW c \in Caller, NEW s \in Times, NEW t \in Times
    PROVE  LetThrough(c, s, t) \in Nat
<1>1. IsFiniteSet(s..t) /\ \A x \in s..t : tries[c][x] \in Nat
  BY Spans, RateAssumption DEF Times, TriesTyped
<1> QED BY <1>1, SumIsNat DEF LetThrough

(* Nothing is let through ahead of time.                                   *)
LEMMA SinceIsAll ==
    ASSUME TriesTyped, NEW c \in Caller, NEW s \in Times, NEW t \in Times
    PROVE  /\ Since(c, s) \in Nat /\ LetThrough(c, s, t) <= Since(c, s)
           /\ Since(c, s) = 0 => tries[c][s] = 0
<1>1. MaxNow \in Times /\ s..t \in SUBSET (s..MaxNow) /\ {s} \in SUBSET (s..MaxNow)
  BY RateAssumption DEF Times
<1>2. IsFiniteSet(s..MaxNow) /\ \A x \in s..MaxNow : tries[c][x] \in Nat
  BY <1>1, Spans DEF Times, TriesTyped
<1>3. SumFunctionOnSet(tries[c], s..t) <= SumFunctionOnSet(tries[c], s..MaxNow)
  BY <1>1, <1>2, SumGrows
<1>4. SumFunctionOnSet(tries[c], {s}) <= SumFunctionOnSet(tries[c], s..MaxNow)
  BY <1>1, <1>2, SumGrows
<1>5. SumFunctionOnSet(tries[c], {s}) = tries[c][s]
  <2>1. /\ s \notin {} /\ IsFiniteSet({}) /\ {} \cup {s} = {s} /\ tries[c][s] \in Nat
        /\ \A y \in {} \cup {s} : tries[c][y] \in Int
    BY FS_EmptySet DEF TriesTyped
  <2>2. SumFunctionOnSet(tries[c], {} \cup {s}) = tries[c][s] + SumFunctionOnSet(tries[c], {})
    BY <2>1, SumAdd
  <2> QED BY <2>1, <2>2, SumEmpty
<1>6. Since(c, s) \in Nat
  BY <1>1, LetThroughIsNat DEF Since
<1>7. tries[c][s] \in Nat
  BY DEF TriesTyped
<1> QED BY <1>3, <1>4, <1>5, <1>6, <1>7 DEF Since, LetThrough

(* A span without attempts.                                                *)
LEMMA NothingSince ==
    ASSUME TriesTyped, NEW c \in Caller, NEW s \in Times, NEW m \in Int, s > m,
           \A i \in Times : i > m => tries[c][i] = 0
    PROVE  Since(c, s) = 0
<1>1. IsFiniteSet(s..MaxNow) /\ \A i \in s..MaxNow : tries[c][i] = 0
  BY Spans, RateAssumption DEF Times
<1> QED BY <1>1, SumOfZeros DEF Since, LetThrough

(* Rates are multiplied out.                                               *)
LEMMA Scale ==
    ASSUME NEW k \in Nat, NEW x \in Int, NEW y \in Int
    PROVE  /\ k * x \in Int /\ k * (x - y) = k * x - k * y /\ k * (x + y) = k * x + k * y
           /\ x <= y => k * x <= k * y
           /\ x \in Nat => k * x \in Nat
OBVIOUS

(* Two spans and the one that they make up.                                *)
LEMMA Chain ==
    ASSUME NEW k \in Nat, NEW x \in Int, NEW y \in Int, NEW z \in Int
    PROVE  k * (x - y) + k * (y - z) = k * (x - z)
OBVIOUS

(* One tick more.                                                          *)
LEMMA Once == ASSUME NEW k \in Nat, NEW y \in Nat PROVE k * (y + 1) = k * y + k
OBVIOUS

-----------------------------------------------------------------------------
(* A bucket that is dropped has refilled, for requests that are late, too. *)
LEMMA SweptQuiet ==
    ASSUME SignInInv, NEW c \in Caller, NEW t \in Times, t <= now, SweptBuckets(t)[c] = {}
    PROVE  Quiet(c)
<1>1. CASE buckets[c] = {}
  BY <1>1 DEF SignInInv
<1>2. CASE buckets[c] # {}
  <2>1. SweptBuckets(t)[c] = {b \in buckets[c] : ~Unused(b, t)}
    BY <1>2 DEF SweptBuckets
  <2>2. PICK b \in buckets[c] : Unused(b, t)
    BY <1>2, <2>1
  <2>3. PICK m \in Int : BackedUpTo(c, b, m)
    BY DEF SignInInv, Backed
  <2>4. /\ b.credit \in Int /\ b.at \in Int /\ TriesTyped /\ now \in Nat /\ t \in Nat
        /\ Rate \in Nat /\ Per \in Nat /\ Lag \in Nat /\ 2 * Lag <= Per
    BY RateAssumption DEF SignInInv, Backed, AskedRight, Times
  <2>5. ASSUME NEW s \in Times, Since(c, s) # 0
        PROVE  Per * Since(c, s) <= Rate * (now - Lag - s)
    <3>1. s <= m /\ s \in Int
      <4>1. s \in Int
        BY <2>4, RateAssumption DEF Times
      <4>2. \A i \in Times : i > m => tries[c][i] = 0
        BY <2>3 DEF BackedUpTo
      <4>3. ~(s > m)
        BY <2>4, <2>5, <4>2, NothingSince
      <4> QED BY <4>1, <4>3
    <3>2. Since(c, s) \in Nat
      BY <2>4, SinceIsAll
    <3> DEFINE p == Per * Since(c, s)
    <3>3. p \in Int
      BY <2>4, <3>2, Scale
    <3>4. p + b.credit <= Full + Rate * (b.at - s)
      BY <2>3, <3>1 DEF BackedUpTo
    <3>5. 0 <= b.credit + Rate * (m - b.at) /\ m <= b.at + Lag
      BY <2>3 DEF BackedUpTo
    <3>6. t - b.at > 2 * Per
      BY <2>2 DEF Unused
    <3>7. Rate * (m - b.at) <= Rate * Lag
      <4>1. m - b.at \in Int /\ m - b.at <= Lag
        BY <2>4, <3>5
      <4> QED BY <2>4, <4>1, Scale
    <3>8. Rate * (Per + (b.at - s) + Lag) <= Rate * (now - Lag - s)
      <4>1. Per + (b.at - s) + Lag <= now - Lag - s
        BY <2>4, <3>1, <3>6
      <4>2. Per + (b.at - s) + Lag \in Int /\ now - Lag - s \in Int
        BY <2>4, <3>1
      <4> QED BY <2>4, <4>1, <4>2, Scale
    <3>9. Rate * (Per + (b.at - s) + Lag) = Full + Rate * (b.at - s) + Rate * Lag
      <4>1. b.at - s \in Int /\ Per + (b.at - s) \in Int
        BY <2>4, <3>1
      <4> HIDE <2>3, <3>4, <3>5
      <4> QED BY <2>4, <4>1, Scale DEF Full
    <3>10. /\ Full \in Int /\ Rate * (b.at - s) \in Int /\ Rate * Lag \in Int
           /\ Rate * (m - b.at) \in Int /\ Rate * (now - Lag - s) \in Int
      BY <2>4, <3>1, Scale DEF Full
    <3> HIDE DEF p
    <3>11. p <= Rate * (now - Lag - s)
      BY <2>4, <3>3, <3>4, <3>5, <3>7, <3>8, <3>9, <3>10
    <3> QED BY <3>11 DEF p
  <2> QED BY <2>5 DEF Quiet
<1> QED BY <1>1, <1>2

-----------------------------------------------------------------------------
(* What an attempt at time t does to the counts; k is 1 if it gets through.*)
LEMMA Counts ==
    ASSUME TriesTyped, NEW c \in Caller, NEW t \in Times, NEW k \in {0, 1},
           tries' = [tries EXCEPT ![c][t] = @ + k]
    PROVE  /\ TriesTyped'
           /\ \A d \in Caller \ {c} : tries'[d] = tries[d]
           /\ \A i \in Times \ {t} : tries'[c][i] = tries[c][i]
           /\ \A s, u \in Times : t \in s..u => LetThrough(c, s, u)' = LetThrough(c, s, u) + k
           /\ \A s, u \in Times : t \notin s..u => LetThrough(c, s, u)' = LetThrough(c, s, u)
<1>1. tries'[c] = [tries[c] EXCEPT ![t] = @ + k]
  BY DEF TriesTyped
<1>2. tries'[c] \in [Times -> Nat] /\ tries'[c][t] = tries[c][t] + k
      /\ \A i \in Times \ {t} : tries'[c][i] = tries[c][i]
  BY <1>1 DEF TriesTyped
<1>3. TriesTyped' /\ \A d \in Caller \ {c} : tries'[d] = tries[d]
  BY <1>2 DEF TriesTyped
<1>4. ASSUME NEW s \in Times, NEW u \in Times
      PROVE  /\ t \in s..u => LetThrough(c, s, u)' = LetThrough(c, s, u) + k
             /\ t \notin s..u => LetThrough(c, s, u)' = LetThrough(c, s, u)
  <2>1. IsFiniteSet(s..u) /\ s..u \subseteq Times
    BY Spans, RateAssumption DEF Times
  <2>2. \A y \in s..u : tries[c][y] \in Int /\ (y # t => tries'[c][y] = tries[c][y])
    BY <1>2, <2>1 DEF TriesTyped
  <2>3. k \in Int /\ tries'[c][t] = tries[c][t] + k
    BY <1>2
  <2> DEFINE old == tries[c]
             new == tries'[c]
             span == s..u
  <2>4. /\ IsFiniteSet(span) /\ k \in Int
        /\ t \in span => new[t] = old[t] + k
        /\ \A y \in span : old[y] \in Int /\ (y # t => new[y] = old[y])
    BY <2>1, <2>2, <2>3
  <2> HIDE DEF old, new, span
  <2>5. SumFunctionOnSet(new, span) = SumFunctionOnSet(old, span) + (IF t \in span THEN k ELSE 0)
    BY <2>4, SumRaised
  <2>6. SumFunctionOnSet(old, span) \in Int
    BY <2>4, SumIsInt
  <2>7. /\ t \in span => SumFunctionOnSet(new, span) = SumFunctionOnSet(old, span) + k
        /\ t \notin span => SumFunctionOnSet(new, span) = SumFunctionOnSet(old, span)
    BY <2>4, <2>5, <2>6
  <2> QED BY <2>7 DEF LetThrough, old, new, span
<1> QED BY <1>2, <1>3, <1>4

(* The attempt leaves its bucket backed, whether it was there or is new.   *)
LEMMA AttemptBacked ==
    ASSUME SignInInv, NEW c \in Caller, NEW t \in Times, t <= now, now - t <= Lag,
           UNCHANGED now, NEW credit \in Int, NEW k \in {0, 1},
           tries' = [tries EXCEPT ![c][t] = @ + k],
           credit <= Full, k = 1 <=> credit >= Per,
           NEW n, n = [credit |-> credit - k * Per, at |-> t],
           \/ credit = Full /\ Quiet(c)
           \/ \E b \in buckets[c] : /\ credit <= b.credit + Rate * (t - b.at)
                                    /\ \/ credit = Full
                                       \/ credit = b.credit + Rate * (t - b.at)
    PROVE  Backed(c, n)' /\ \E m \in Int : BackedUpTo(c, n, m)' /\ t <= m
<1>1. /\ TriesTyped /\ now \in Nat /\ t \in Nat /\ MaxNow \in Nat
      /\ Rate \in Nat \ {0} /\ Per \in Nat \ {0} /\ Lag \in Nat /\ Full \in Nat /\ Per <= Full
  <2>1. Rate \in Nat \ {0} /\ Per \in Nat \ {0} /\ Lag \in Nat /\ MaxNow \in Nat
    BY RateAssumption
  <2>2. Full \in Nat /\ Per <= Full
    BY <2>1 DEF Full
  <2> QED BY <2>1, <2>2 DEF SignInInv, AskedRight, Times
<1>2. /\ n.credit = credit - k * Per /\ n.at = t /\ n.credit \in Int /\ n.credit <= credit
      /\ k = 0 => n.credit = credit
      /\ k = 1 => n.credit = credit - Per
  BY <1>1
<1>3. /\ \A s \in Times : s <= t => Since(c, s)' = Since(c, s) + k
      /\ \A s \in Times : s > t => Since(c, s)' = Since(c, s)
      /\ \A i \in Times : i > t => tries'[c][i] = tries[c][i]
      /\ \A s \in Times : Since(c, s) \in Nat
  <2>1. MaxNow \in Times
    BY <1>1 DEF Times
  <2>2. \A s \in Times : /\ s <= t => t \in s..MaxNow
                         /\ s > t => t \notin s..MaxNow
    BY <1>1 DEF Times
  <2>3. \A s \in Times : /\ t \in s..MaxNow => Since(c, s)' = Since(c, s) + k
                         /\ t \notin s..MaxNow => Since(c, s)' = Since(c, s)
    <3>1. /\ \A s, u \in Times : t \in s..u => LetThrough(c, s, u)' = LetThrough(c, s, u) + k
          /\ \A s, u \in Times : t \notin s..u => LetThrough(c, s, u)' = LetThrough(c, s, u)
      BY <1>1, Counts
    <3> QED BY <2>1, <3>1 DEF Since
  <2>4. \A i \in Times \ {t} : tries'[c][i] = tries[c][i]
    BY <1>1, Counts
  <2>5. \A s \in Times : Since(c, s) \in Nat
    BY <1>1, <2>1, LetThroughIsNat DEF Since
  <2>6. \A i \in Times : i > t => i # t
    BY <1>1 DEF Times
  <2> QED BY <2>2, <2>3, <2>4, <2>5, <2>6
<1>4. \A s \in Times : s \in Nat
  BY <1>1 DEF Times
<1>5. ASSUME NEW m \in Int, BackedUpTo(c, n, m)', t <= m PROVE Backed(c, n)'
  BY <1>1, <1>2, <1>5 DEF Backed
<1>6. ASSUME credit = Full, Quiet(c) PROVE BackedUpTo(c, n, t)'
  <2>1. 0 <= n.credit + Rate * (t - t)
    BY <1>1, <1>2, <1>6, Scale
  <2>2. ASSUME NEW i \in Times, i > t PROVE tries'[c][i] = 0
    <3>1. Since(c, i) = 0
      <4> SUFFICES ASSUME Since(c, i) # 0 PROVE FALSE
        OBVIOUS
      <4>1. Per * Since(c, i) <= Rate * (now - Lag - i)
        BY <1>6 DEF Quiet
      <4>2. now - Lag - i < 0 /\ now - Lag - i \in Int
        BY <1>1, <1>4, <2>2
      <4>3. Per * Since(c, i) >= 0
        BY <1>1, <1>3, Scale
      <4> DEFINE x == now - Lag - i
      <4> HIDE DEF x
      <4>4. x \in Int /\ x <= -1
        BY <4>2 DEF x
      <4>5. Rate * x <= Rate * (-1)
        BY <1>1, <4>4, Scale
      <4>6. Rate * (-1) < 0
        BY <1>1
      <4>7. Rate * x \in Int /\ Rate * (-1) \in Int
        BY <1>1, <4>4, Scale
      <4>8. Per * Since(c, i) \in Int
        BY <1>1, <1>3, Scale
      <4>9. Rate * x < 0
        BY <4>5, <4>6, <4>7
      <4>10. Rate * x < 0 /\ Per * Since(c, i) <= Rate * x
        BY <4>1, <4>9 DEF x
      <4> QED BY <4>3, <4>7, <4>8, <4>10
    <3> QED BY <1>1, <1>3, <2>2, <3>1, SinceIsAll
  <2>3. ASSUME NEW s \in Times, s <= t
        PROVE  Per * Since(c, s)' + n.credit <= Full + Rate * (t - s)
    <3> DEFINE y == Since(c, s)
    <3>1. y \in Nat /\ Since(c, s)' = y + 1 /\ k = 1
      BY <1>1, <1>3, <1>6, <2>3
    <3>2. Rate * (t - s) \in Nat
      BY <1>1, <1>4, <2>3, Scale
    <3>3. Per * y <= Rate * (t - s)
      <4>1. CASE y = 0
        BY <1>1, <3>2, <4>1
      <4>2. CASE y # 0
        <5>1. Per * y <= Rate * (now - Lag - s)
          BY <1>6, <4>2 DEF Quiet
        <5>2. now - Lag - s \in Int /\ t - s \in Int /\ now - Lag - s <= t - s
          BY <1>1, <1>4
        <5>3. Rate * (now - Lag - s) <= Rate * (t - s) /\ Rate * (now - Lag - s) \in Int
          BY <1>1, <5>2, Scale
        <5>4. Per * y \in Int
          BY <1>1, <3>1, Scale
        <5> HIDE DEF y
        <5> QED BY <3>2, <5>1, <5>3, <5>4
      <4> QED BY <4>1, <4>2
    <3> HIDE DEF y
    <3>4. Per * (y + 1) = Per * y + Per /\ Per * y \in Int
      BY <1>1, <3>1, Scale, Once
    <3> QED BY <1>1, <1>2, <1>6, <3>1, <3>2, <3>3, <3>4
  <2> QED BY <1>1, <1>2, <1>4, <2>1, <2>2, <2>3 DEF BackedUpTo
<1>7. ASSUME NEW b \in buckets[c], credit <= b.credit + Rate * (t - b.at),
             credit = Full \/ credit = b.credit + Rate * (t - b.at)
      PROVE  \E m \in Int : BackedUpTo(c, n, m)' /\ t <= m
  <2>1. PICK l \in Int : BackedUpTo(c, b, l)
    BY DEF SignInInv, Backed
  <2>2. b.credit \in Int /\ b.at \in Int
    BY DEF SignInInv, Backed
  <2>3. /\ b.at <= l /\ l <= b.at + Lag /\ l <= now
        /\ 0 <= b.credit + Rate * (l - b.at)
        /\ \A i \in Times : i > l => tries[c][i] = 0
        /\ \A s \in Times : s <= l => Per * Since(c, s) + b.credit <= Full + Rate * (b.at - s)
    BY <2>1 DEF BackedUpTo
  <2>4. PICK m \in Int : (m = l \/ m = t) /\ l <= m /\ t <= m
    BY <1>1
  <2>5. t <= m /\ m <= t + Lag /\ m <= now
    BY <1>1, <2>3, <2>4
  <2>6. 0 <= n.credit + Rate * (m - t)
    <3>1. Rate * (m - t) \in Nat
      BY <1>1, <2>4, Scale
    <3>2. CASE k = 1
      BY <1>1, <1>2, <3>1, <3>2
    <3>3. CASE k = 0 /\ credit = Full
      BY <1>1, <1>2, <3>1, <3>3
    <3>4. CASE k = 0 /\ credit = b.credit + Rate * (t - b.at)
      <4>1. Rate * (m - t) + Rate * (t - b.at) = Rate * (m - b.at)
        <5>1. m \in Int /\ t \in Int /\ b.at \in Int
          BY <1>1, <2>2
        <5> QED BY <1>1, <5>1, Chain
      <4>2. Rate * (l - b.at) <= Rate * (m - b.at)
        <5>1. l - b.at \in Int /\ m - b.at \in Int /\ l - b.at <= m - b.at
          BY <2>2, <2>4
        <5> QED BY <1>1, <5>1, Scale
      <4>3. /\ Rate * (t - b.at) \in Int /\ Rate * (l - b.at) \in Int
            /\ Rate * (m - b.at) \in Int
        <5>1. l - b.at \in Int /\ m - b.at \in Int /\ t - b.at \in Int
          BY <1>1, <2>2
        <5> QED BY <1>1, <5>1, Scale
      <4> QED BY <1>2, <2>2, <2>3, <3>1, <3>4, <4>1, <4>2, <4>3
    <3> QED BY <1>7, <3>2, <3>3, <3>4
  <2>7. ASSUME NEW i \in Times, i > m PROVE tries'[c][i] = 0
    <3>1. i > t /\ i > l
      BY <1>1, <1>4, <2>4, <2>7
    <3> QED BY <1>3, <2>3, <3>1
  <2>8. ASSUME NEW s \in Times, s <= m
        PROVE  Per * Since(c, s)' + n.credit <= Full + Rate * (t - s)
    <3> DEFINE y == Since(c, s)
               p == Per * y
    <3>1. y \in Nat /\ p \in Int /\ s \in Nat
      BY <1>1, <1>3, <1>4, Scale
    <3>2. p + credit <= Full + Rate * (t - s)
      <4>1. CASE s <= l
        <5>1. p + b.credit <= Full + Rate * (b.at - s)
          BY <2>3, <4>1
        <5>2. Rate * (b.at - s) + Rate * (t - b.at) = Rate * (t - s)
          <6>1. b.at \in Int /\ t \in Int /\ s \in Int
            BY <1>1, <2>2, <3>1
          <6>2. Rate * (t - b.at) + Rate * (b.at - s) = Rate * (t - s)
            BY <1>1, <6>1, Chain
          <6>3. Rate * (t - b.at) \in Int /\ Rate * (b.at - s) \in Int
            BY <1>1, <6>1, Scale
          <6> QED BY <6>2, <6>3
        <5>3. Rate * (b.at - s) \in Int /\ Rate * (t - b.at) \in Int
          <6>1. b.at - s \in Int /\ t - b.at \in Int
            BY <1>1, <2>2, <3>1
          <6> QED BY <1>1, <6>1, Scale
        <5> HIDE DEF p
        <5> QED BY <1>1, <1>7, <2>2, <3>1, <5>1, <5>2, <5>3
      <4>2. CASE ~(s <= l)
        <5>1. s > l /\ m = t
          BY <2>4, <2>8, <3>1, <4>2
        <5>2. y = 0
          BY <1>1, <2>3, <5>1, NothingSince
        <5>3. p = 0
          BY <1>1, <5>2
        <5>4. Rate * (t - s) \in Nat
          <6>1. t - s \in Nat
            BY <1>1, <2>8, <3>1, <5>1
          <6> QED BY <1>1, <6>1, Scale
        <5> HIDE DEF p
        <5> QED BY <1>1, <5>3, <5>4
      <4> QED BY <4>1, <4>2
    <3>3. Rate * (t - s) \in Int
      BY <1>1, <3>1, Scale
    <3>4. Since(c, s)' = y \/ (k = 1 /\ Since(c, s)' = y + 1)
      BY <1>1, <1>3, <3>1
    <3>5. Per * (y + 1) = p + Per
      BY <1>1, <3>1, Once
    <3> HIDE DEF y
    <3>6. CASE Since(c, s)' = y
      <4> HIDE DEF p
      <4>1. Per * Since(c, s)' = p
        BY <3>6 DEF p
      <4> QED BY <1>1, <1>2, <3>1, <3>2, <3>3, <4>1
    <3>7. CASE k = 1 /\ Since(c, s)' = y + 1
      <4>1. Per * Since(c, s)' = p + Per
        BY <3>5, <3>7
      <4> HIDE DEF p
      <4> QED BY <1>1, <1>2, <3>1, <3>2, <3>3, <3>7, <4>1
    <3> QED BY <3>4, <3>6, <3>7
  <2>9. BackedUpTo(c, n, m)'
    BY <1>2, <2>5, <2>6, <2>7, <2>8 DEF BackedUpTo
  <2> QED BY <2>4, <2>9
<1> QED BY <1>1, <1>5, <1>6, <1>7

(* The smaller of two numbers.                                             *)
LEMMA MinOfTwo ==
    ASSUME NEW x \in Int, NEW y \in Int
    PROVE  LET z == Min({x, y}) IN /\ z \in Int /\ z <= x /\ z <= y /\ (z = x \/ z = y)
<1>1. \E z \in {x, y} : \A u \in {x, y} : z <= u
  <2>1. CASE x <= y
    BY <2>1
  <2>2. CASE y <= x
    BY <2>2
  <2> QED BY <2>1, <2>2
<1> QED BY <1>1 DEF Min

(* The credit that an attempt finds.                                       *)
LEMMA CreditFound ==
    ASSUME SignInInv, NEW c \in Caller, NEW t \in Times, t <= now
    PROVE  LET kept == SweptBuckets(t)
               credit == Refilled(kept[c], t)
           IN  /\ credit \in Int /\ credit <= Full
               /\ \/ credit = Full /\ Quiet(c)
                  \/ \E b \in buckets[c] : /\ credit <= b.credit + Rate * (t - b.at)
                                           /\ \/ credit = Full
                                              \/ credit = b.credit + Rate * (t - b.at)
<1> DEFINE kept == SweptBuckets(t)
           credit == Refilled(kept[c], t)
<1>1. kept[c] \subseteq buckets[c]
  BY DEF SweptBuckets
<1>2. Full \in Int /\ Full = Rate * Per /\ Rate \in Nat /\ t \in Int
  BY RateAssumption DEF Full, Times
<1>3. CASE kept[c] = {}
  <2>1. Quiet(c)
    BY <1>3, SweptQuiet
  <2>2. credit = Full
    BY <1>2, <1>3 DEF Refilled
  <2> QED BY <1>2, <2>1, <2>2
<1>4. CASE kept[c] # {}
  <2> DEFINE b == CHOOSE b \in kept[c] : TRUE
             x == b.credit + Rate * (t - b.at)
  <2>1. b \in kept[c] /\ b \in buckets[c]
    BY <1>1, <1>4
  <2>2. b.credit \in Int /\ b.at \in Int
    BY <2>1 DEF SignInInv, Backed
  <2>3. x \in Int
    BY <1>2, <2>2
  <2>4. credit = Min({Full, x})
    BY <1>2, <1>4 DEF Refilled
  <2> HIDE DEF b, kept
  <2>5. /\ credit \in Int /\ credit <= Full /\ credit <= x
        /\ credit = Full \/ credit = x
    <3> HIDE DEF x, credit
    <3> QED BY <1>2, <2>3, <2>4, MinOfTwo
  <2> QED BY <2>1, <2>5 DEF kept
<1> QED BY <1>3, <1>4

(* What the caller of an attempt has paid in full afterwards.              *)
LEMMA AttemptPaid ==
    ASSUME TriesTyped, Paid, NEW c \in Caller, NEW t \in Times, NEW k \in {0, 1},
           tries' = [tries EXCEPT ![c][t] = @ + k],
           k = 1 => \A s \in Times : s <= t => Per * Since(c, s)' <= Full + Rate * (t - s)
    PROVE  Paid'
<1> SUFFICES ASSUME NEW d \in Caller, NEW u \in Times, NEW s \in 0..u
             PROVE  Per * LetThrough(d, s, u)' <= Full + Rate * (u - s)
  BY DEF Paid, Times, Full
<1>1. /\ s \in Times /\ s \in Nat /\ u \in Nat /\ t \in Nat /\ s <= u /\ MaxNow \in Times
      /\ Rate \in Nat /\ Per \in Nat /\ Full \in Nat
  BY RateAssumption DEF Times, Full
<1>2. Per * LetThrough(d, s, u) <= Full + Rate * (u - s)
  BY DEF Paid
<1>3. CASE LetThrough(d, s, u)' = LetThrough(d, s, u)
  BY <1>2, <1>3
<1>4. CASE d # c
  <2>1. tries'[d] = tries[d]
    BY <1>4, Counts
  <2> QED BY <1>3, <2>1 DEF LetThrough
<1>5. CASE d = c /\ t \in s..u /\ k = 1
  <2>1. s <= t /\ t <= u /\ t \in s..MaxNow
    BY <1>1, <1>5 DEF Times
  <2>2. /\ LetThrough(c, s, u)' = LetThrough(c, s, u) + 1
        /\ Since(c, s)' = Since(c, s) + 1
    <3>1. \A a, e \in Times : t \in a..e => LetThrough(c, a, e)' = LetThrough(c, a, e) + k
      BY Counts
    <3> QED BY <1>1, <1>5, <2>1, <3>1 DEF Since
  <2>3. /\ LetThrough(c, s, u) \in Nat /\ Since(c, s) \in Nat
        /\ LetThrough(c, s, u) <= Since(c, s)
    BY <1>1, LetThroughIsNat, SinceIsAll
  <2>4. Per * LetThrough(c, s, u)' <= Per * Since(c, s)'
    <3>1. /\ LetThrough(c, s, u)' \in Int /\ Since(c, s)' \in Int
          /\ LetThrough(c, s, u)' <= Since(c, s)'
      BY <2>2, <2>3
    <3> QED BY <1>1, <3>1, Scale
  <2>5. Per * LetThrough(c, s, u)' \in Int /\ Per * Since(c, s)' \in Int
    <3>1. LetThrough(c, s, u)' \in Int /\ Since(c, s)' \in Int
      BY <2>2, <2>3
    <3> QED BY <1>1, <3>1, Scale
  <2>6. Per * Since(c, s)' <= Full + Rate * (t - s)
    BY <1>1, <1>5, <2>1
  <2>7. Rate * (t - s) <= Rate * (u - s) /\ Rate * (t - s) \in Int /\ Rate * (u - s) \in Int
    <3>1. t - s \in Int /\ u - s \in Int /\ t - s <= u - s
      BY <1>1, <2>1
    <3> QED BY <1>1, <3>1, Scale
  <2> QED BY <1>1, <1>5, <2>4, <2>5, <2>6, <2>7
<1>6. CASE d = c /\ (t \notin s..u \/ k = 0)
  <2>1. LetThrough(c, s, u) \in Nat
    BY <1>1, LetThroughIsNat
  <2>2. /\ \A a, e \in Times : t \in a..e => LetThrough(c, a, e)' = LetThrough(c, a, e) + k
        /\ \A a, e \in Times : t \notin a..e => LetThrough(c, a, e)' = LetThrough(c, a, e)
    BY Counts
  <2>3. CASE t \notin s..u
    BY <1>1, <1>3, <1>6, <2>2, <2>3
  <2>4. CASE t \in s..u /\ k = 0
    <3>1. LetThrough(c, s, u)' = LetThrough(c, s, u) + 0
      BY <1>1, <2>2, <2>4
    <3> QED BY <1>3, <1>6, <2>1, <3>1
  <2> QED BY <1>6, <2>3, <2>4
<1> QED BY <1>4, <1>5, <1>6

(* An attempt, let through or not.                                         *)
LEMMA AllowStep == ASSUME SignInInv, NEW w \in Worker, Allow(w) PROVE SignInInv'
<1> DEFINE Kept(t) == SweptBuckets(t)
           Credit(c, t) == Refilled(Kept(t)[c], t)
           Cost(c, t) == IF Credit(c, t) < Per THEN 0 ELSE Per
<1>1. PICK r \in asked[w] :
        /\ buckets' = [Kept(r.at) EXCEPT ![r.who] =
                          {[credit |-> Credit(r.who, r.at) - Cost(r.who, r.at), at |-> r.at]}]
        /\ tries' = [tries EXCEPT ![r.who][r.at] = @ + (IF Cost(r.who, r.at) = 0 THEN 0 ELSE 1)]
        /\ asked' = [asked EXCEPT ![w] = {}]
        /\ UNCHANGED now
  BY DEF Allow
<1>2. PICK c \in Caller : c = r.who
  BY DEF SignInInv, AskedRight
<1>3. PICK t \in Times : t = r.at
  BY DEF SignInInv, AskedRight
<1>4. t <= now /\ now - t <= Lag
  BY <1>3 DEF SignInInv, AskedRight
<1>5. /\ Credit(c, t) \in Int /\ Credit(c, t) <= Full
      /\ \/ Credit(c, t) = Full /\ Quiet(c)
         \/ \E b \in buckets[c] : /\ Credit(c, t) <= b.credit + Rate * (t - b.at)
                                  /\ \/ Credit(c, t) = Full
                                     \/ Credit(c, t) = b.credit + Rate * (t - b.at)
  BY <1>4, CreditFound
<1>6. /\ Kept(t) = [d \in Caller |-> Kept(t)[d]]
      /\ \A d \in Caller : Kept(t)[d] \subseteq buckets[d]
      /\ \A d \in Caller : Kept(t)[d] = {} => Quiet(d)
  <2>1. \A d \in Caller : Kept(t)[d] = {} => Quiet(d)
    BY <1>4, SweptQuiet
  <2> QED BY <2>1 DEF SweptBuckets, SignInInv
<1> HIDE DEF Kept, Credit
<1>7. PICK credit \in Int : credit = Credit(c, t)
  BY <1>5
<1>8. PICK k \in {0, 1} : k = IF Cost(c, t) = 0 THEN 0 ELSE 1
  OBVIOUS
<1>9. /\ k = 1 <=> credit >= Per
      /\ Cost(c, t) = k * Per
  BY <1>7, <1>8, RateAssumption
<1>10. PICK n : n = [credit |-> credit - k * Per, at |-> t]
  OBVIOUS
<1>11. /\ buckets' = [Kept(t) EXCEPT ![c] = {n}]
       /\ tries' = [tries EXCEPT ![c][t] = @ + k]
  <2>1. n = [credit |-> Credit(c, t) - Cost(c, t), at |-> t]
    BY <1>7, <1>9, <1>10
  <2> HIDE DEF Cost
  <2> QED BY <1>1, <1>2, <1>3, <1>8, <2>1
<1>12. TriesTyped /\ Paid
  BY DEF SignInInv
<1>13. Backed(c, n)' /\ \E m \in Int : BackedUpTo(c, n, m)' /\ t <= m
  <2>1. \/ credit = Full /\ Quiet(c)
        \/ \E b \in buckets[c] : /\ credit <= b.credit + Rate * (t - b.at)
                                 /\ \/ credit = Full
                                    \/ credit = b.credit + Rate * (t - b.at)
    BY <1>5, <1>7
  <2>2. credit <= Full /\ UNCHANGED now
    BY <1>1, <1>5, <1>7
  <2> QED BY <1>4, <1>9, <1>10, <1>11, <2>1, <2>2, AttemptBacked
<1>14. TriesTyped' /\ \A d \in Caller \ {c} : tries'[d] = tries[d]
  BY <1>11, <1>12, Counts
<1>15. Paid'
  <2>1. ASSUME k = 1, NEW s \in Times, s <= t PROVE Per * Since(c, s)' <= Full + Rate * (t - s)
    <3>1. PICK m \in Int : BackedUpTo(c, n, m)' /\ t <= m
      BY <1>13
    <3>2. s \in Nat /\ t \in Nat /\ s <= m /\ Rate \in Nat /\ Per \in Nat /\ Full \in Nat
      BY <2>1, <3>1, RateAssumption DEF Times, Full
    <3>3. n.credit = credit - k * Per /\ n.at = t
      BY <1>10
    <3>4. n.credit \in Nat
      BY <1>9, <2>1, <3>2, <3>3
    <3>5. Per * Since(c, s)' + n.credit <= Full + Rate * (t - s)
      BY <3>1, <3>2, <3>3 DEF BackedUpTo
    <3>6. Since(c, s)' \in Int
      <4>1. \A a, e \in Times : /\ t \in a..e => LetThrough(c, a, e)' = LetThrough(c, a, e) + k
        BY <1>11, <1>12, Counts
      <4>2. MaxNow \in Times /\ t \in s..MaxNow
        BY <2>1, <3>2, RateAssumption DEF Times
      <4>3. LetThrough(c, s, MaxNow) \in Nat
        BY <1>12, <4>2, LetThroughIsNat
      <4> QED BY <4>1, <4>2, <4>3 DEF Since
    <3>7. Per * Since(c, s)' \in Int /\ Rate * (t - s) \in Int
      <4>1. t - s \in Int
        BY <3>2
      <4> QED BY <3>2, <3>6, <4>1, Scale
    <3> QED BY <3>2, <3>4, <3>5, <3>7
  <2>2. k = 1 => \A s \in Times : s <= t => Per * Since(c, s)' <= Full + Rate * (t - s)
    BY <2>1
  <2> QED BY <1>11, <1>12, <2>2, AttemptPaid
<1>16. AskedRight'
  BY <1>1 DEF SignInInv, AskedRight
<1>17. buckets' = [d \in Caller |-> buckets'[d]]
  BY <1>6, <1>11
<1>18. \A b \in buckets'[c] : Backed(c, b)'
  BY <1>6, <1>11, <1>13
<1>19. buckets'[c] # {}
  BY <1>6, <1>11
<1>20. ASSUME NEW d \in Caller \ {c}
       PROVE  /\ \A b \in buckets'[d] : Backed(d, b)'
              /\ buckets'[d] = {} => Quiet(d)'
  <2>1. buckets'[d] = Kept(t)[d] /\ tries'[d] = tries[d] /\ now' = now
    BY <1>1, <1>6, <1>11, <1>14
  <2>2. \A s \in Times : Since(d, s)' = Since(d, s)
    BY <2>1 DEF Since, LetThrough
  <2>3. ASSUME NEW b \in buckets'[d] PROVE Backed(d, b)'
    <3>1. Backed(d, b)
      BY <1>6, <2>1 DEF SignInInv
    <3> QED BY <2>1, <2>2, <3>1 DEF Backed, BackedUpTo
  <2>4. ASSUME buckets'[d] = {} PROVE Quiet(d)'
    <3>1. Quiet(d)
      BY <1>6, <2>1, <2>4
    <3> QED BY <2>1, <2>2, <3>1 DEF Quiet
  <2> QED BY <2>3, <2>4
<1> QED BY <1>14, <1>15, <1>16, <1>17, <1>18, <1>19, <1>20 DEF SignInInv

(* Time passes: more has come back.                                        *)
LEMMA PassStep == ASSUME SignInInv, Pass PROVE SignInInv'
<1>1. now' = now + 1 /\ now < MaxNow /\ UNCHANGED <<asked, buckets, tries>>
  BY DEF Pass
<1>2. now \in Nat /\ now' \in Times /\ Rate \in Nat /\ Per \in Nat /\ Lag \in Nat
  BY <1>1, RateAssumption DEF SignInInv, AskedRight, Times
<1>3. AskedRight'
  <2>1. ASSUME NEW w \in Worker, NEW r \in asked[w]
        PROVE  r.who \in Caller /\ r.at \in Times /\ r.at <= now' /\ now' - r.at <= Lag
    <3>1. r.who \in Caller /\ r.at \in Times /\ r.at <= now
      BY DEF SignInInv, AskedRight
    <3>2. now' - r.at <= Lag
      BY DEF Pass
    <3>3. r.at \in Nat
      BY <3>1, RateAssumption DEF Times
    <3> QED BY <1>1, <1>2, <3>1, <3>2, <3>3
  <2> QED BY <1>1, <1>2, <2>1 DEF SignInInv, AskedRight
<1>4. \A c, s, t : LetThrough(c, s, t)' = LetThrough(c, s, t)
  BY <1>1 DEF LetThrough
<1>5. Paid' /\ TriesTyped'
  BY <1>1, <1>4 DEF SignInInv, Paid, TriesTyped
<1>6. ASSUME NEW c \in Caller, NEW b \in buckets[c] PROVE Backed(c, b)'
  <2>1. PICK m \in Int : BackedUpTo(c, b, m)
    BY DEF SignInInv, Backed
  <2>2. BackedUpTo(c, b, m)'
    BY <1>1, <1>2, <1>4, <2>1 DEF BackedUpTo, Since
  <2> QED BY <2>2 DEF SignInInv, Backed
<1>7. ASSUME NEW c \in Caller, Quiet(c) PROVE Quiet(c)'
  <2> SUFFICES ASSUME NEW s \in Times, Since(c, s) # 0
               PROVE  Per * Since(c, s) <= Rate * (now' - Lag - s)
    BY <1>4 DEF Quiet, Since
  <2>1. Per * Since(c, s) <= Rate * (now - Lag - s)
    BY <1>7 DEF Quiet
  <2>2. /\ now - Lag - s \in Int /\ now' - Lag - s \in Int
        /\ now - Lag - s <= now' - Lag - s
    BY <1>1, <1>2, RateAssumption DEF Times
  <2>3. /\ Rate * (now - Lag - s) <= Rate * (now' - Lag - s)
        /\ Rate * (now - Lag - s) \in Int /\ Rate * (now' - Lag - s) \in Int
    BY <1>2, <2>2, Scale
  <2>4. Per * Since(c, s) \in Int
    <3>1. Since(c, s) \in Nat
      BY SinceIsAll DEF SignInInv
    <3> QED BY <1>2, <3>1, Scale
  <2> QED BY <2>1, <2>3, <2>4
<1> QED BY <1>1, <1>3, <1>5, <1>6, <1>7 DEF SignInInv

(* The steps that only ask, and those of the other limiter.                *)
LEMMA SignInLeft ==
    ASSUME SignInInv, UNCHANGED <<now, buckets, tries>>, AskedRight'
    PROVE  SignInInv'
<1>1. /\ \A c, s, t : LetThrough(c, s, t)' = LetThrough(c, s, t)
      /\ \A c, s : Since(c, s)' = Since(c, s)
  BY DEF LetThrough, Since
<1>2. Paid' /\ TriesTyped'
  BY <1>1 DEF SignInInv, Paid, TriesTyped
<1>3. \A c, b : Backed(c, b)' <=> Backed(c, b)
  BY <1>1 DEF Backed, BackedUpTo
<1>4. \A c : Quiet(c)' <=> Quiet(c)
  BY <1>1 DEF Quiet
<1> QED BY <1>2, <1>3, <1>4 DEF SignInInv

(* A request that comes in is right about the time.                        *)
LEMMA AskRight ==
    ASSUME SignInInv, NEW w \in Worker, NEW c \in Caller, NEW b,
           asked' = [asked EXCEPT ![w] = {[who |-> c, body |-> b, at |-> now]}], UNCHANGED now
    PROVE  AskedRight'
<1>1. \A r \in asked'[w] : r.who = c /\ r.at = now
  BY DEF SignInInv, AskedRight
<1>2. now \in Nat /\ now - now <= Lag /\ now <= now
  BY RateAssumption DEF SignInInv, AskedRight, Times
<1> QED BY <1>1, <1>2 DEF SignInInv, AskedRight

(* The invariant holds in every state.                                     *)
LEMMA SignInHolds == LimitSpec => []SignInInv
<1>1. LimitInit => SignInInv
  <2> SUFFICES ASSUME LimitInit PROVE SignInInv
    OBVIOUS
  <2>1. TriesTyped /\ AskedRight
    BY RateAssumption DEF LimitInit, TriesTyped, AskedRight, Times
  <2>2. ASSUME NEW c \in Caller, NEW s \in Times, NEW t \in Times PROVE LetThrough(c, s, t) = 0
    <3>1. IsFiniteSet(s..t) /\ \A i \in s..t : tries[c][i] = 0
      BY Spans, RateAssumption DEF LimitInit, Times
    <3> QED BY <3>1, SumOfZeros DEF LetThrough
  <2>3. Paid
    <3> SUFFICES ASSUME NEW c \in Caller, NEW t \in Times, NEW s \in 0..t
                 PROVE  Per * LetThrough(c, s, t) <= Full + Rate * (t - s)
      BY DEF Paid
    <3>1. s \in Times /\ s \in Nat /\ t \in Nat /\ t - s \in Nat /\ Rate \in Nat /\ Per \in Nat
      BY RateAssumption DEF Times
    <3>2. Rate * (t - s) \in Nat /\ Full \in Nat /\ Per * 0 = 0
      BY <3>1, Scale DEF Full
    <3>3. LetThrough(c, s, t) = 0
      BY <2>2, <3>1
    <3> QED BY <3>2, <3>3
  <2>4. \A c \in Caller : Quiet(c)
    BY <2>2, RateAssumption DEF Quiet, Since, Times
  <2> QED BY <2>1, <2>3, <2>4 DEF LimitInit, SignInInv
<1>2. SignInInv /\ [LimitNext]_limitVars => SignInInv'
  <2> SUFFICES ASSUME SignInInv, [LimitNext]_limitVars PROVE SignInInv'
    OBVIOUS
  <2>1. ASSUME NEW w \in Worker, NEW c \in Caller, Attempt(w, c) PROVE SignInInv'
    BY <2>1, AskRight, SignInLeft DEF Attempt
  <2>2. ASSUME NEW w \in Worker, Allow(w) PROVE SignInInv'
    BY <2>2, AllowStep
  <2>3. ASSUME NEW w \in Worker, NEW c \in Caller, NEW b \in Body, OpenBody(w, c, b)
        PROVE  SignInInv'
    BY <2>3, AskRight, SignInLeft DEF OpenBody
  <2>4. ASSUME NEW w \in Worker, Observe(w) PROVE SignInInv'
    <3>1. asked' = [asked EXCEPT ![w] = {}] /\ UNCHANGED <<now, buckets, tries>>
      BY <2>4 DEF Observe
    <3>2. AskedRight'
      BY <3>1 DEF SignInInv, AskedRight
    <3> QED BY <3>1, <3>2, SignInLeft
  <2>5. CASE Pass
    BY <2>5, PassStep
  <2>6. CASE UNCHANGED limitVars
    BY <2>6, SignInLeft DEF limitVars, SignInInv, AskedRight
  <2> QED BY <2>1, <2>2, <2>3, <2>4, <2>5, <2>6 DEF LimitNext, SignInNext, BodyNext
<1> QED BY <1>1, <1>2, PTL DEF LimitSpec

(***************************************************************************)
(* Bodies.                                                                 *)
(***************************************************************************)
(* The bodies that a caller opened in the window before t, and those that  *)
(* the limiter holds entries for.                                          *)
Bodies(c, t) == {o.body : o \in {o \in opened : /\ o.who = c /\ o.at <= t
                                                /\ o.at >= t - Window + 2 * Lag}}
Held(vs) == {v.body : v \in vs}

(* The entry of an opened body, unless it is too old to be in a window.    *)
Remembered(o) ==
    \/ \E v \in seen[o.who] : v.body = o.body /\ o.at <= v.at + Lag
    \/ o.at < now - Window + Lag

(* The limiter holds one entry for a body, and no more than Limit.         *)
SeenRight ==
    /\ seen = [c \in Caller |-> seen[c]]
    /\ \A c \in Caller : /\ IsFiniteSet(seen[c]) /\ Cardinality(seen[c]) <= Limit
                         /\ \A v \in seen[c] : v.at \in Int
                         /\ \A u, v \in seen[c] : u.body = v.body => u = v

(* The invariant of the body limiter.                                      *)
BodyInv ==
    /\ SeenRight
    /\ \A o \in opened : o.who \in Caller /\ o.at \in Int /\ o.at <= now /\ Remembered(o)
    /\ \A c \in Caller, t \in Times : Cardinality(Bodies(c, t)) <= Limit

(* There are no more bodies than entries.                                  *)
LEMMA HeldFew ==
    ASSUME NEW vs, IsFiniteSet(vs), NEW bs \in SUBSET Held(vs)
    PROVE  IsFiniteSet(bs) /\ Cardinality(bs) <= Cardinality(vs)
<1> DEFINE f == [v \in vs |-> v.body]
<1>1. f \in Surjection(vs, Held(vs))
  BY DEF Surjection, Held
<1>2. IsFiniteSet(Held(vs)) /\ Cardinality(Held(vs)) <= Cardinality(vs)
  BY <1>1, FS_Surjection
<1>3. IsFiniteSet(bs) /\ Cardinality(bs) <= Cardinality(Held(vs))
  BY <1>2, FS_Subset
<1>4. Cardinality(bs) \in Nat /\ Cardinality(vs) \in Nat /\ Cardinality(Held(vs)) \in Nat
  BY <1>2, <1>3, FS_CardinalityType
<1> QED BY <1>2, <1>3, <1>4

(* Forgetting what left the window of a request loses nothing that counts. *)
LEMMA ForgottenIsOld ==
    ASSUME AskedRight, NEW t \in Int, t <= now, NEW v, v.at \in Int, ~(v.at >= t - Window),
           NEW o, o.at \in Int, o.at <= v.at + Lag
    PROVE  o.at < now - Window + Lag
BY RateAssumption DEF AskedRight, Times

(* Forgetting makes it fewer entries.                                      *)
LEMMA RecentIsFew ==
    ASSUME NEW vs, IsFiniteSet(vs), Cardinality(vs) <= Limit, NEW t
    PROVE  /\ IsFiniteSet(Recent(vs, t)) /\ Cardinality(Recent(vs, t)) <= Limit
           /\ Recent(vs, t) \subseteq vs
<1>1. Recent(vs, t) \in SUBSET vs
  BY DEF Recent
<1>2. IsFiniteSet(Recent(vs, t)) /\ Cardinality(Recent(vs, t)) <= Cardinality(vs)
  BY <1>1, FS_Subset
<1>3. Cardinality(vs) \in Nat /\ Cardinality(Recent(vs, t)) \in Nat
  BY <1>2, FS_CardinalityType
<1> QED BY <1>1, <1>2, <1>3, RateAssumption

(* Sweeping drops what a request's own check would drop.                   *)
LEMMA SweptRight ==
    ASSUME AskedRight, NEW t \in Times, t <= now, NEW s, s = [c \in Caller |-> s[c]],
           \A c \in Caller : /\ IsFiniteSet(s[c]) /\ Cardinality(s[c]) <= Limit
                             /\ \A v \in s[c] : v.at \in Int
                             /\ \A u, v \in s[c] : u.body = v.body => u = v
    PROVE  LET z == SweptSeen(s, t)
           IN  /\ z = [c \in Caller |-> z[c]]
               /\ \A c \in Caller : /\ IsFiniteSet(z[c]) /\ Cardinality(z[c]) <= Limit
                                    /\ \A v \in z[c] : v.at \in Int
                                    /\ \A u, v \in z[c] : u.body = v.body => u = v
                                    /\ z[c] = s[c] \/ z[c] = Recent(s[c], t)
<1> DEFINE z == SweptSeen(s, t)
<1>1. z = [c \in Caller |-> z[c]] /\ \A c \in Caller : z[c] = s[c] \/ z[c] = Recent(s[c], t)
  BY DEF SweptSeen
<1>2. \A c \in Caller : /\ IsFiniteSet(z[c]) /\ Cardinality(z[c]) <= Limit
                        /\ z[c] \subseteq s[c]
  <2> HIDE DEF z
  <2> QED BY <1>1, RecentIsFew
<1> HIDE DEF z
<1> QED BY <1>1, <1>2 DEF z

(* A request that is told what its caller holds now.                       *)
ToldSet(c, b, t) == {v \in Recent(seen[c], t) : v.body # b} \cup {[body |-> b, at |-> t]}

(* The entries stay right.                                                 *)
LEMMA ToldRight ==
    ASSUME BodyInv, AskedRight, NEW c \in Caller, NEW t \in Times, t <= now, NEW b,
           \/ \E v \in Recent(seen[c], t) : v.body = b
           \/ Cardinality(Recent(seen[c], t)) < Limit
    PROVE  /\ IsFiniteSet(ToldSet(c, b, t)) /\ Cardinality(ToldSet(c, b, t)) <= Limit
           /\ \A v \in ToldSet(c, b, t) : v.at \in Int
           /\ \A u, v \in ToldSet(c, b, t) : u.body = v.body => u = v
<1> DEFINE vs == Recent(seen[c], t)
           new == ToldSet(c, b, t)
<1> DEFINE others == {v \in vs : v.body # b}
           e == [body |-> b, at |-> t]
<1>1. /\ vs \subseteq seen[c] /\ IsFiniteSet(vs) /\ Cardinality(vs) <= Limit
      /\ Cardinality(vs) \in Nat
  <2>1. /\ vs \subseteq seen[c] /\ IsFiniteSet(vs) /\ Cardinality(vs) <= Limit
    BY RecentIsFew DEF BodyInv, SeenRight
  <2> QED BY <2>1, FS_CardinalityType
<1>2. e.body = b /\ e.at = t /\ e \notin others /\ t \in Int
  BY DEF Times
<1>3. others \in SUBSET vs /\ IsFiniteSet(others) /\ Cardinality(others) \in Nat
  <2>1. others \in SUBSET vs
    OBVIOUS
  <2> QED BY <1>1, <2>1, FS_Subset, FS_CardinalityType
<1> HIDE DEF e
<1>4. IsFiniteSet(new) /\ Cardinality(new) = Cardinality(others) + 1
  <2>1. new = others \cup {e}
    BY DEF e, ToldSet
  <2> HIDE DEF others
  <2> QED BY <1>2, <1>3, <2>1, FS_AddElement
<1>5. Cardinality(others) < Limit
  <2>1. CASE \E v \in vs : v.body = b
    <3>1. others # vs
      BY <2>1
    <3> HIDE DEF others
    <3>2. Cardinality(others) <= Cardinality(vs) /\ Cardinality(others) # Cardinality(vs)
      BY <1>1, <1>3, <3>1, FS_Subset
    <3> QED BY <1>1, <1>3, <3>2, RateAssumption
  <2>2. CASE Cardinality(vs) < Limit
    <3> HIDE DEF others
    <3>1. Cardinality(others) <= Cardinality(vs)
      BY <1>1, <1>3, FS_Subset
    <3> QED BY <1>1, <1>3, <2>2, <3>1, RateAssumption
  <2> QED BY <2>1, <2>2
<1>6. Cardinality(new) <= Limit
  <2> HIDE DEF others
  <2> QED BY <1>3, <1>4, <1>5, RateAssumption
<1>7. \A u \in others, v \in others : u.body = v.body => u = v
  BY <1>1 DEF BodyInv, SeenRight
<1>8. \A v \in others : v.body # b /\ v.at \in Int
  BY <1>1 DEF BodyInv, SeenRight
<1>9. new = others \cup {e}
  BY DEF e, ToldSet
<1> HIDE DEF others
<1> QED BY <1>2, <1>4, <1>6, <1>7, <1>8, <1>9

(* Fewer entries, or fresher ones, and later times.                        *)
LEMMA StillRemembered ==
    ASSUME AskedRight, SeenRight, NEW o \in opened, o.who \in Caller, o.at \in Int, Remembered(o),
           o.at <= now, UNCHANGED now,
           \A v \in seen[o.who] :
              \/ \E x \in seen'[o.who] : x.body = v.body /\ (x = v \/ (x.at \in Int /\ now <= x.at + Lag))
              \/ \E t \in Times : t <= now /\ ~(v.at >= t - Window)
    PROVE  Remembered(o)'
<1>1. CASE o.at < now - Window + Lag
  BY <1>1 DEF Remembered
<1>2. ASSUME NEW v \in seen[o.who], v.body = o.body, o.at <= v.at + Lag PROVE Remembered(o)'
  <2>1. v.at \in Int /\ now \in Int /\ Lag \in Int
    BY RateAssumption DEF SeenRight, AskedRight, Times
  <2>2. ASSUME NEW t \in Times, t <= now, ~(v.at >= t - Window) PROVE Remembered(o)'
    <3>1. t \in Int
      BY RateAssumption DEF Times
    <3>2. o.at < now - Window + Lag
      BY <1>2, <2>1, <2>2, <3>1, ForgottenIsOld
    <3> QED BY <3>2 DEF Remembered
  <2>3. ASSUME NEW x \in seen'[o.who], x.body = v.body, x = v PROVE Remembered(o)'
    BY <1>2, <2>3 DEF Remembered
  <2>4. ASSUME NEW x \in seen'[o.who], x.body = v.body, now <= x.at + Lag, x.at \in Int
        PROVE Remembered(o)'
    <3>1. o.at <= x.at + Lag
      BY <2>1, <2>4, RateAssumption
    <3> QED BY <1>2, <2>4, <3>1 DEF Remembered
  <2> QED BY <2>2, <2>3, <2>4
<1> QED BY <1>1, <1>2 DEF Remembered

(* Opening a body: the windows that it falls into only show bodies that    *)
(* the caller holds an entry for.                                          *)
LEMMA OpenedFew ==
    ASSUME AskedRight, SeenRight', UNCHANGED now, NEW c \in Caller, NEW r, r.who = c, r.at \in Times,
           now - r.at <= Lag, \E v \in seen'[c] : v.body = r.body,
           \A o \in opened' : o.who \in Caller /\ o.at \in Int /\ o.at <= now /\ Remembered(o)',
           NEW t \in Times, r.at <= t, r.at >= t - Window + 2 * Lag
    PROVE  Cardinality(Bodies(c, t)') <= Limit
<1>1. Bodies(c, t)' \in SUBSET Held(seen'[c])
  <2> SUFFICES ASSUME NEW o \in opened', o.who = c, o.at >= t - Window + 2 * Lag
               PROVE  \E v \in seen'[c] : v.body = o.body
    BY DEF Bodies, Held
  <2>1. t \in Int /\ r.at \in Int /\ o.at \in Int /\ now \in Int /\ Lag \in Int /\ Window \in Int
    BY RateAssumption DEF AskedRight, Times
  <2>2. ~(o.at < now - Window + Lag)
    BY <2>1
  <2> QED BY <2>2 DEF Remembered
<1>2. IsFiniteSet(seen'[c]) /\ Cardinality(seen'[c]) <= Limit
  BY DEF SeenRight
<1>3. IsFiniteSet(Bodies(c, t)') /\ Cardinality(Bodies(c, t)') <= Cardinality(seen'[c])
  BY <1>1, <1>2, HeldFew
<1>4. Cardinality(Bodies(c, t)') \in Nat /\ Cardinality(seen'[c]) \in Nat
  BY <1>2, <1>3, FS_CardinalityType
<1> QED BY <1>2, <1>3, <1>4, RateAssumption

(* Opening a body, a new one, a known one, or one too many.                *)
LEMMA ObserveStep == ASSUME AskedRight, BodyInv, NEW w \in Worker, Observe(w) PROVE BodyInv'
<1> DEFINE Kept(r) == Recent(seen[r.who], r.at)
           Others(r) == {v \in Kept(r) : v.body # r.body}
           Told(r) == [seen EXCEPT ![r.who] = Others(r) \cup {[body |-> r.body, at |-> r.at]}]
<1>1. PICK r \in asked[w] :
        /\ \/ Others(r) # Kept(r) /\ seen' = Told(r) /\ opened' = opened \cup {r}
           \/ /\ Others(r) = Kept(r) /\ Cardinality(Kept(r)) < Limit
              /\ seen' = SweptSeen(Told(r), r.at) /\ opened' = opened \cup {r}
           \/ /\ seen' = [seen EXCEPT ![r.who] = Kept(r)] /\ UNCHANGED opened
        /\ UNCHANGED now
  BY DEF Observe
<1>2. /\ r.who \in Caller /\ r.at \in Times /\ r.at <= now /\ now - r.at <= Lag
      /\ now \in Int /\ r.at \in Int /\ now <= r.at + Lag /\ Lag \in Int
  <2>1. r.who \in Caller /\ r.at \in Times /\ r.at <= now /\ now - r.at <= Lag
    BY DEF AskedRight
  <2> QED BY <2>1, RateAssumption DEF AskedRight, Times
<1> DEFINE c == r.who
           new == Others(r) \cup {[body |-> r.body, at |-> r.at]}
<1>3. /\ IsFiniteSet(Kept(r)) /\ Cardinality(Kept(r)) <= Limit /\ Kept(r) \subseteq seen[c]
      /\ \A v \in Kept(r) : v.at \in Int
      /\ \A u, v \in Kept(r) : u.body = v.body => u = v
  <2>1. IsFiniteSet(seen[c]) /\ Cardinality(seen[c]) <= Limit
    BY <1>2 DEF BodyInv, SeenRight
  <2>2. IsFiniteSet(Kept(r)) /\ Cardinality(Kept(r)) <= Limit /\ Kept(r) \subseteq seen[c]
    BY <2>1, RecentIsFew
  <2> QED BY <1>2, <2>2 DEF BodyInv, SeenRight
<1>4. ASSUME SeenRight',
             \A d \in Caller : \A v \in seen[d] :
                \/ \E x \in seen'[d] : x.body = v.body /\ (x = v \/ (x.at \in Int /\ now <= x.at + Lag))
                \/ \E t \in Times : t <= now /\ ~(v.at >= t - Window),
             \/ opened' = opened
             \/ opened' = opened \cup {r} /\ \E v \in seen'[c] : v.body = r.body /\ r.at <= v.at + Lag
      PROVE  BodyInv'
  <2>1. ASSUME NEW o \in opened
        PROVE  o.who \in Caller /\ o.at \in Int /\ o.at <= now /\ Remembered(o)'
    <3>1. o.who \in Caller /\ o.at \in Int /\ o.at <= now /\ Remembered(o) /\ SeenRight
      BY DEF BodyInv
    <3>2. \A v \in seen[o.who] :
             \/ \E x \in seen'[o.who] : x.body = v.body /\ (x = v \/ (x.at \in Int /\ now <= x.at + Lag))
             \/ \E t \in Times : t <= now /\ ~(v.at >= t - Window)
      BY <1>4, <3>1
    <3> QED BY <1>1, <3>1, <3>2, StillRemembered
  <2>2. ASSUME NEW o \in opened'
        PROVE  o.who \in Caller /\ o.at \in Int /\ o.at <= now /\ Remembered(o)'
    <3>1. CASE o \in opened
      BY <2>1, <3>1
    <3>2. CASE o = r /\ opened' = opened \cup {r}
      BY <1>2, <1>4, <2>1, <3>2 DEF Remembered
    <3> QED BY <1>4, <3>1, <3>2
  <2>3. ASSUME NEW d \in Caller, NEW t \in Times PROVE Cardinality(Bodies(d, t)') <= Limit
    <3>1. CASE Bodies(d, t)' = Bodies(d, t)
      BY <3>1 DEF BodyInv
    <3>2. CASE opened' # opened /\ d = c /\ r.at <= t /\ r.at >= t - Window + 2 * Lag
      <4>1. \E v \in seen'[c] : v.body = r.body
        BY <1>4, <2>1, <3>2
      <4> QED BY <1>1, <1>2, <1>4, <2>2, <3>2, <4>1, OpenedFew
    <3>3. CASE opened' = opened \/ ~(d = c /\ r.at <= t /\ r.at >= t - Window + 2 * Lag)
      <4>1. Bodies(d, t)' = Bodies(d, t)
        BY <1>4, <3>3 DEF Bodies
      <4> QED BY <3>1, <4>1
    <3> QED BY <1>4, <3>2, <3>3
  <2> QED BY <1>1, <1>4, <2>2, <2>3 DEF BodyInv
<1>5. ASSUME \/ \E v \in Kept(r) : v.body = r.body
             \/ Cardinality(Kept(r)) < Limit
      PROVE  /\ IsFiniteSet(new) /\ Cardinality(new) <= Limit
             /\ \A v \in new : v.at \in Int
             /\ \A u, v \in new : u.body = v.body => u = v
  <2>1. PICK d \in Caller, t \in Times, b \in {r.body} : d = r.who /\ t = r.at /\ b = r.body
    BY <1>2
  <2>2. new = ToldSet(d, b, t) /\ Kept(r) = Recent(seen[d], t) /\ t <= now
    BY <1>2, <2>1 DEF ToldSet
  <2>3. (\E v \in Recent(seen[d], t) : v.body = b) \/ Cardinality(Recent(seen[d], t)) < Limit
    <3> HIDE DEF Kept
    <3> QED BY <1>5, <2>1, <2>2
  <2> HIDE DEF new
  <2>4. /\ IsFiniteSet(ToldSet(d, b, t)) /\ Cardinality(ToldSet(d, b, t)) <= Limit
        /\ \A v \in ToldSet(d, b, t) : v.at \in Int
        /\ \A u, v \in ToldSet(d, b, t) : u.body = v.body => u = v
    BY <2>2, <2>3, ToldRight
  <2> QED BY <2>2, <2>4
<1>6. Told(r) = [d \in Caller |-> Told(r)[d]] /\ Told(r)[c] = new
      /\ \A d \in Caller \ {c} : Told(r)[d] = seen[d]
  BY <1>2 DEF BodyInv, SeenRight
<1>7. \A v \in seen[c] : \/ v \in Others(r)
                          \/ v.body = r.body
                          \/ ~(v.at >= r.at - Window)
  BY DEF Recent
<1>8. CASE Others(r) # Kept(r) /\ seen' = Told(r) /\ opened' = opened \cup {r}
  <2>1. \E v \in Kept(r) : v.body = r.body
    BY <1>8
  <2>2. SeenRight'
    BY <1>5, <1>6, <1>8, <2>1 DEF BodyInv, SeenRight
  <2>3. [body |-> r.body, at |-> r.at] \in seen'[c]
    BY <1>6, <1>8
  <2>4. ASSUME NEW d \in Caller, NEW v \in seen[d]
        PROVE  \/ \E x \in seen'[d] : x.body = v.body /\ (x = v \/ (x.at \in Int /\ now <= x.at + Lag))
               \/ \E t \in Times : t <= now /\ ~(v.at >= t - Window)
    <3>1. CASE d # c
      BY <1>6, <1>8, <3>1
    <3>2. CASE d = c
      BY <1>2, <1>6, <1>7, <1>8, <2>3, <3>2
    <3> QED BY <3>1, <3>2
  <2>5. \E v \in seen'[c] : v.body = r.body /\ r.at <= v.at + Lag
    BY <1>2, <2>3, RateAssumption
  <2> QED BY <1>4, <1>8, <2>2, <2>4, <2>5
<1>9. CASE /\ Others(r) = Kept(r) /\ Cardinality(Kept(r)) < Limit
           /\ seen' = SweptSeen(Told(r), r.at) /\ opened' = opened \cup {r}
  <2>1. PICK s : s = Told(r)
    OBVIOUS
  <2>2. PICK t \in Times : t = r.at
    BY <1>2
  <2>3. /\ s = [d \in Caller |-> s[d]]
        /\ \A d \in Caller : /\ IsFiniteSet(s[d]) /\ Cardinality(s[d]) <= Limit
                             /\ \A v \in s[d] : v.at \in Int
                             /\ \A u, v \in s[d] : u.body = v.body => u = v
    BY <1>5, <1>6, <1>9, <2>1 DEF BodyInv, SeenRight
  <2>4. seen' = SweptSeen(s, t) /\ t <= now
    BY <1>2, <1>9, <2>1, <2>2
  <2>5. /\ seen' = [d \in Caller |-> seen'[d]]
        /\ \A d \in Caller : /\ IsFiniteSet(seen'[d]) /\ Cardinality(seen'[d]) <= Limit
                             /\ \A v \in seen'[d] : v.at \in Int
                             /\ \A u, v \in seen'[d] : u.body = v.body => u = v
                             /\ seen'[d] = s[d] \/ seen'[d] = Recent(s[d], t)
    BY <2>3, <2>4, SweptRight
  <2>6. SeenRight'
    BY <2>5 DEF SeenRight
  <2>7. \A d \in Caller : \A v \in s[d] : v \in seen'[d] \/ ~(v.at >= t - Window)
    BY <2>5 DEF Recent
  <2>8. [body |-> r.body, at |-> r.at] \in seen'[c]
    <3>1. [body |-> r.body, at |-> r.at] \in s[c]
      BY <1>6, <2>1
    <3>2. r.at >= t - Window
      BY <1>2, <2>2, RateAssumption
    <3> QED BY <1>2, <2>7, <3>1, <3>2
  <2>9. ASSUME NEW d \in Caller, NEW v \in seen[d]
        PROVE  \/ \E x \in seen'[d] : x.body = v.body /\ (x = v \/ (x.at \in Int /\ now <= x.at + Lag))
               \/ \E e \in Times : e <= now /\ ~(v.at >= e - Window)
    <3>1. CASE d # c
      <4>1. v \in s[d]
        BY <1>6, <2>1, <3>1
      <4> QED BY <2>4, <2>7, <4>1
    <3>2. CASE d = c
      <4>1. CASE v \in Others(r)
        <5>1. v \in s[d]
          BY <1>6, <2>1, <3>2, <4>1
        <5> QED BY <2>4, <2>7, <5>1
      <4>2. CASE v.body = r.body
        BY <1>2, <2>8, <3>2, <4>2
      <4>3. CASE ~(v.at >= r.at - Window)
        BY <1>2, <4>3
      <4> QED BY <1>7, <3>2, <4>1, <4>2, <4>3
    <3> QED BY <3>1, <3>2
  <2>10. \E v \in seen'[c] : v.body = r.body /\ r.at <= v.at + Lag
    BY <1>2, <2>8, RateAssumption
  <2> QED BY <1>4, <1>9, <2>6, <2>9, <2>10
<1>10. CASE seen' = [seen EXCEPT ![r.who] = Kept(r)] /\ UNCHANGED opened
  <2>1. /\ seen' = [d \in Caller |-> seen'[d]] /\ seen'[c] = Kept(r)
        /\ \A d \in Caller \ {c} : seen'[d] = seen[d]
    BY <1>2, <1>10 DEF BodyInv, SeenRight
  <2>2. SeenRight'
    <3> HIDE DEF Kept
    <3> QED BY <1>3, <2>1 DEF BodyInv, SeenRight
  <2>3. ASSUME NEW d \in Caller, NEW v \in seen[d]
        PROVE  \/ \E x \in seen'[d] : x.body = v.body /\ (x = v \/ (x.at \in Int /\ now <= x.at + Lag))
               \/ \E e \in Times : e <= now /\ ~(v.at >= e - Window)
    <3>1. v \in seen'[d] \/ (d = c /\ ~(v.at >= r.at - Window))
      BY <2>1 DEF Recent
    <3> QED BY <1>2, <3>1
  <2> QED BY <1>4, <1>10, <2>2, <2>3
<1> QED BY <1>1, <1>8, <1>9, <1>10

(* The invariant holds in every state.                                     *)
LEMMA BodyHolds == LimitSpec => []BodyInv
<1>1. LimitInit => BodyInv
  <2> SUFFICES ASSUME LimitInit PROVE BodyInv
    OBVIOUS
  <2>1. SeenRight
    BY FS_EmptySet, RateAssumption DEF LimitInit, SeenRight
  <2>2. ASSUME NEW c \in Caller, NEW t \in Times PROVE Cardinality(Bodies(c, t)) <= Limit
    <3>1. Bodies(c, t) = {}
      BY DEF LimitInit, Bodies
    <3> QED BY <3>1, FS_EmptySet, RateAssumption
  <2> QED BY <2>1, <2>2 DEF LimitInit, BodyInv
<1>2. AskedRight /\ BodyInv /\ [LimitNext]_limitVars => BodyInv'
  <2> SUFFICES ASSUME AskedRight, BodyInv, [LimitNext]_limitVars PROVE BodyInv'
    OBVIOUS
  <2>1. ASSUME now \in Int, now' \in Int, now <= now', UNCHANGED <<seen, opened>> PROVE BodyInv'
    <3>1. \A o \in opened : o.at \in Int /\ Remembered(o) => Remembered(o)'
      BY <2>1, RateAssumption DEF Remembered
    <3>2. \A c, t : Bodies(c, t)' = Bodies(c, t)
      BY <2>1 DEF Bodies
    <3>3. \A o \in opened' : o.who \in Caller /\ o.at \in Int /\ o.at <= now' /\ Remembered(o)'
      BY <2>1, <3>1 DEF BodyInv
    <3>4. SeenRight'
      BY <2>1 DEF BodyInv, SeenRight
    <3> QED BY <3>2, <3>3, <3>4 DEF BodyInv
  <2>2. now \in Int /\ now <= now /\ now <= now + 1 /\ now + 1 \in Int
    BY RateAssumption DEF AskedRight, Times
  <2>3. ASSUME NEW w \in Worker, Observe(w) PROVE BodyInv'
    BY <2>3, ObserveStep
  <2>4. ASSUME NEW w \in Worker, Allow(w) PROVE BodyInv'
    <3>1. UNCHANGED <<now, seen, opened>>
      BY <2>4 DEF Allow
    <3> QED BY <2>1, <2>2, <3>1
  <2>5. CASE Pass
    BY <2>1, <2>2, <2>5 DEF Pass
  <2>6. ASSUME NEW w \in Worker, NEW c \in Caller, Attempt(w, c) PROVE BodyInv'
    BY <2>1, <2>2, <2>6 DEF Attempt
  <2>7. ASSUME NEW w \in Worker, NEW c \in Caller, NEW b \in Body, OpenBody(w, c, b) PROVE BodyInv'
    BY <2>1, <2>2, <2>7 DEF OpenBody
  <2>8. CASE UNCHANGED limitVars
    BY <2>1, <2>2, <2>8 DEF limitVars
  <2> QED BY <2>3, <2>4, <2>5, <2>6, <2>7, <2>8 DEF LimitNext, SignInNext, BodyNext
<1>3. SignInInv => AskedRight
  BY DEF SignInInv
<1> QED BY <1>1, <1>2, <1>3, SignInHolds, PTL DEF LimitSpec

(* Neither limit is exceeded, for any rate, window and number of callers,  *)
(* though requests reach the limiter in another order than they read the   *)
(* clock, and though buckets and entries that were idle are dropped:       *)
(* provided no request is held up for more than half a bucket's period.    *)
THEOREM LimitsHoldCorrect == LimitSpec => []LimitsHold
<1>1. SignInInv /\ BodyInv => LimitsHold
  BY DEF SignInInv, Paid, BodyInv, Bodies, LimitsHold, Times, Full
<1> QED BY <1>1, SignInHolds, BodyHolds, PTL

(***************************************************************************)
(* Paging.  A cursor cuts a list in two: the rows that are not below it    *)
(* have been listed, and the rows below it have not, as long as they stood *)
(* still.                                                                  *)
(***************************************************************************)
LEMMA BelowOne ==
    ASSUME NEW a \in Int, NEW b \in Int PROVE Below(<<a>>, <<b>>) <=> a < b
<1>1. Len(<<a>>) = 1 /\ <<a>>[1] = a /\ <<b>>[1] = b
  OBVIOUS
<1>2. 1 .. 1 = {1} /\ 1 .. (1 - 1) = {}
  OBVIOUS
<1> QED BY <1>1, <1>2 DEF Below

LEMMA BelowTwo ==
    ASSUME NEW a \in Int, NEW b \in Int, NEW c \in Int, NEW d \in Int
    PROVE  Below(<<a, b>>, <<c, d>>) <=> a < c \/ (a = c /\ b < d)
<1> DEFINE k == <<a, b>>
           l == <<c, d>>
<1>1. Len(k) = 2 /\ k[1] = a /\ k[2] = b /\ l[1] = c /\ l[2] = d
  OBVIOUS
<1>2. 1 .. 2 = {1, 2} /\ 1 .. (1 - 1) = {} /\ 1 .. (2 - 1) = {1}
  OBVIOUS
<1> HIDE DEF k, l
<1>3. Below(k, l) <=> (k[1] < l[1] \/ (k[2] < l[2] /\ k[1] = l[1]))
  BY <1>1, <1>2 DEF Below
<1> QED BY <1>1, <1>3 DEF k, l

(* The keys of one order: none is empty, and they are strictly ordered.    *)
KeysOf(n) == IF n = 1 THEN {<<a>> : a \in Int} ELSE {<<a, b>> : a \in Int, b \in Int}

LEMMA KeysHaveTheirNumbers ==
    /\ \A a \in Int : <<a>> \in KeysOf(1)
    /\ \A a, b \in Int : <<a, b>> \in KeysOf(2)
    /\ \A a, b \in Int : <<a>> = <<b>> => a = b
    /\ \A a, b, c, d \in Int : <<a, b>> = <<c, d>> => b = d
<1>1. \A a \in Int : <<a>> \in KeysOf(1)
  BY DEF KeysOf
<1>2. \A a, b \in Int : <<a, b>> \in KeysOf(2)
  BY DEF KeysOf
<1>3. \A a, b \in Int : <<a>> = <<b>> => a = b
  OBVIOUS
<1>4. \A a, b, c, d \in Int : <<a, b>> = <<c, d>> => b = d
  OBVIOUS
<1> QED BY <1>1, <1>2, <1>3, <1>4

LEMMA KeysOrdered ==
    ASSUME NEW n
    PROVE  /\ \A k \in KeysOf(n) : k # <<>> /\ ~Below(k, k)
           /\ \A k, l, m \in KeysOf(n) : Below(k, l) /\ Below(l, m) => Below(k, m)
           /\ \A k, l \in KeysOf(n) : k = l \/ Below(k, l) \/ Below(l, k)
<1>1. CASE n = 1
  <2>1. \A k \in KeysOf(n) : \E a \in Int : k = <<a>>
    BY <1>1 DEF KeysOf
  <2>2. \A a \in Int : <<a>> # <<>>
    OBVIOUS
  <2> QED BY <2>1, <2>2, BelowOne
<1>2. CASE n # 1
  <2>1. \A k \in KeysOf(n) : \E a \in Int, b \in Int : k = <<a, b>>
    BY <1>2 DEF KeysOf
  <2>2. ASSUME NEW k \in KeysOf(n) PROVE k # <<>> /\ ~Below(k, k)
    <3>1. PICK a \in Int, b \in Int : k = <<a, b>>
      BY <2>1
    <3>2. ~(a < a \/ (a = a /\ b < b))
      OBVIOUS
    <3>3. ~Below(<<a, b>>, <<a, b>>)
      BY <3>2, BelowTwo
    <3> QED BY <3>1, <3>3
  <2>3. ASSUME NEW k \in KeysOf(n), NEW l \in KeysOf(n), NEW m \in KeysOf(n),
               Below(k, l), Below(l, m)
        PROVE  Below(k, m)
    <3>1. PICK a \in Int, b \in Int : k = <<a, b>>
      BY <2>1
    <3>2. PICK c \in Int, d \in Int : l = <<c, d>>
      BY <2>1
    <3>3. PICK e \in Int, f \in Int : m = <<e, f>>
      BY <2>1
    <3>4. (a < c \/ (a = c /\ b < d)) /\ (c < e \/ (c = e /\ d < f))
      BY <2>3, <3>1, <3>2, <3>3, BelowTwo
    <3>5. a < e \/ (a = e /\ b < f)
      BY <3>4
    <3> QED BY <3>1, <3>3, <3>5, BelowTwo
  <2>4. ASSUME NEW k \in KeysOf(n), NEW l \in KeysOf(n)
        PROVE  k = l \/ Below(k, l) \/ Below(l, k)
    <3>1. PICK a \in Int, b \in Int : k = <<a, b>>
      BY <2>1
    <3>2. PICK c \in Int, d \in Int : l = <<c, d>>
      BY <2>1
    <3>3. \/ a = c /\ b = d
          \/ a < c \/ (a = c /\ b < d)
          \/ c < a \/ (c = a /\ d < b)
      OBVIOUS
    <3> QED BY <3>1, <3>2, <3>3, BelowTwo
  <2> QED BY <2>2, <2>3, <2>4
<1> QED BY <1>1, <1>2

(* Rows with keys of their own.                                            *)
Keyed(S, key, n) ==
    /\ IsFiniteSet(S)
    /\ \A i \in S : key[i] \in KeysOf(n)
    /\ \A i, j \in S : key[i] = key[j] => i = j

(* They stand in the order of the keys, the greatest first.                *)
LEMMA InOrderFacts ==
    ASSUME NEW S, NEW key, NEW n, Keyed(S, key, n)
    PROVE  LET all == InOrder(S, key)
           IN  /\ all \in Seq(S) /\ Len(all) \in Nat
               /\ \A i \in S : \E m \in 1 .. Len(all) : all[m] = i
               /\ \A l, m \in 1 .. Len(all) : l < m <=> Below(key[all[m]], key[all[l]])
<1> DEFINE ahead == [i \in S |-> {j \in S : Below(key[i], key[j])}]
           all == InOrder(S, key)
<1>1. StrictOrder(S, ahead)
  <2>1. IsFiniteSet(S) /\ ahead \in [S -> SUBSET S]
    BY DEF Keyed
  <2>2. \A i, j \in S : j \in ahead[i] <=> Below(key[i], key[j])
    OBVIOUS
  <2>3. \A i \in S : i \notin ahead[i]
    BY KeysOrdered DEF Keyed
  <2>4. \A i \in S : \A j \in ahead[i] : ahead[j] \subseteq ahead[i]
    <3> SUFFICES ASSUME NEW i \in S, NEW j \in ahead[i], NEW m \in ahead[j]
                 PROVE  m \in ahead[i]
      OBVIOUS
    <3>1. j \in S /\ Below(key[i], key[j])
      OBVIOUS
    <3>2. m \in S /\ Below(key[j], key[m])
      BY <3>1
    <3>3. Below(key[i], key[m])
      BY <3>1, <3>2, KeysOrdered DEF Keyed
    <3> QED BY <3>2, <3>3
  <2>5. \A i, j \in S : i = j \/ i \in ahead[j] \/ j \in ahead[i]
    BY KeysOrdered DEF Keyed
  <2> HIDE DEF ahead
  <2> QED BY <2>1, <2>3, <2>4, <2>5 DEF StrictOrder
<1>2. all = Ranked(S, ahead)
  BY DEF InOrder
<1>3. \A i, j \in S : j \in ahead[i] <=> Below(key[i], key[j])
  OBVIOUS
<1> HIDE DEF ahead, all
<1>4. LET s == all
          m == Cardinality(S)
      IN  /\ m \in Nat /\ s \in [1 .. m -> S] /\ s \in Seq(S) /\ Len(s) = m
          /\ \A x \in S : Cardinality(ahead[x]) + 1 \in 1 .. m
                          /\ s[Cardinality(ahead[x]) + 1] = x
          /\ \A i, j \in 1 .. m : s[i] \in ahead[s[j]] <=> i < j
  <2>1. LET s == Ranked(S, ahead)
            m == Cardinality(S)
        IN  /\ m \in Nat /\ DOMAIN s = 1 .. m /\ s \in [1 .. m -> S] /\ s \in Seq(S) /\ Len(s) = m
            /\ \A x \in S : Cardinality(ahead[x]) + 1 \in 1 .. m
                            /\ s[Cardinality(ahead[x]) + 1] = x
            /\ \A i \in 1 .. m : Cardinality(ahead[s[i]]) = i - 1
            /\ \A i, j \in 1 .. m : s[i] \in ahead[s[j]] <=> i < j
            /\ \A i, j \in 1 .. m : s[i] = s[j] => i = j
    BY ONLY <1>1, RankedFacts
  <2> QED BY ONLY <1>2, <2>1
<1>5. \A i \in S : \E m \in 1 .. Len(all) : all[m] = i
  BY <1>4
<1>6. \A l, m \in 1 .. Len(all) : l < m <=> Below(key[all[m]], key[all[l]])
  BY <1>3, <1>4
<1> QED BY <1>4, <1>5, <1>6 DEF all

(* A page is what is behind the cursor, down to the next cursor.           *)
LEMMA PageFacts ==
    ASSUME NEW S, NEW key, NEW n, Keyed(S, key, n), NEW after \in KeysOf(n) \cup {<<>>}
    PROVE  LET p == Page(S, key, after)
           IN  /\ p.next \in KeysOf(n) \cup {<<>>}
               /\ p.next = <<>> => ToSet(p.items) = Behind(S, key, after)
               /\ p.next # <<>> =>
                    /\ ToSet(p.items) = {i \in Behind(S, key, after) : ~Below(key[i], p.next)}
                    /\ after = <<>> \/ Below(p.next, after)
<1> DEFINE B == Behind(S, key, after)
           all == InOrder(B, key)
           got == Fetched(S, key, after)
           p == Page(S, key, after)
<1>1. B \in SUBSET S
  BY DEF Behind
<1>2. Keyed(B, key, n)
  BY <1>1, FS_Subset DEF Keyed
<1>3. /\ all \in Seq(B) /\ Len(all) \in Nat
      /\ \A i \in B : \E m \in 1 .. Len(all) : all[m] = i
      /\ \A l, m \in 1 .. Len(all) : l < m <=> Below(key[all[m]], key[all[l]])
  <2> HIDE DEF B
  <2> QED BY <1>2, InOrderFacts
<1>4. got = SubSeq(all, 1, IF Len(all) > PageSize THEN PageSize + 1 ELSE Len(all))
  BY DEF Fetched
<1>5. /\ p.items = IF Len(got) > PageSize THEN SubSeq(got, 1, PageSize) ELSE got
      /\ p.next = IF Len(got) > PageSize THEN key[got[PageSize]] ELSE <<>>
  BY DEF Page
<1>6. \A i \in B : key[i] \in KeysOf(n) /\ (after = <<>> \/ Below(key[i], after))
  BY <1>2 DEF Keyed, Behind
<1>7. PageSize \in Nat \ {0}
  BY PagingAssumption
<1> HIDE DEF B, all, got, p
<1>8. \A i \in 1 .. Len(all) : all[i] \in B
  BY <1>3
<1>9. CASE Len(all) <= PageSize
  <2>1. got = SubSeq(all, 1, Len(all))
    BY <1>3, <1>4, <1>7, <1>9
  <2>2. got = all
    BY <1>3, <2>1, SubSeqFull
  <2>3. ~(Len(got) > PageSize)
    BY <1>3, <1>7, <1>9, <2>2
  <2>4. p.items = all /\ p.next = <<>>
    BY <1>5, <2>2, <2>3
  <2>5. ToSet(all) = B
    BY <1>3, <1>8 DEF ToSet
  <2> QED BY <2>4, <2>5 DEF p, B
<1>10. CASE Len(all) > PageSize
  <2>0. /\ 1 .. PageSize \subseteq 1 .. Len(all) /\ PageSize \in 1 .. PageSize
        /\ 1 .. PageSize \subseteq 1 .. PageSize + 1
    <3>1. PICK N \in Nat : N = Len(all) /\ N > PageSize
      BY <1>3, <1>10
    <3> QED BY ONLY <1>7, <3>1
  <2>1. got = SubSeq(all, 1, PageSize + 1)
    BY <1>4, <1>10
  <2>2. /\ Len(got) = PageSize + 1
        /\ \A i \in 1 .. PageSize + 1 : got[i] = all[i]
    <3>1. PageSize + 1 \in Int /\ \A i \in 1 .. PageSize + 1 : all[i] \in B
      BY <1>3, <1>7, <1>8, <1>10
    <3>2. /\ Len(got) = IF 1 <= PageSize + 1 THEN (PageSize + 1) - 1 + 1 ELSE 0
          /\ \A i \in 1 .. (PageSize + 1) - 1 + 1 : got[i] = all[1 + i - 1]
      BY <2>1, <3>1, SubSeqProperties
    <3> QED BY <1>7, <3>2
  <2>3. p.items = SubSeq(got, 1, PageSize) /\ p.next = key[got[PageSize]]
    BY <1>5, <1>7, <2>2
  <2>4. /\ Len(p.items) = PageSize
        /\ p.items \in Seq(B)
        /\ \A i \in 1 .. PageSize : p.items[i] = all[i]
    <3>1. PageSize \in Int /\ \A i \in 1 .. PageSize : got[i] \in B
      BY <1>7, <1>8, <2>0, <2>2
    <3>2. /\ SubSeq(got, 1, PageSize) \in Seq(B)
          /\ Len(SubSeq(got, 1, PageSize)) = IF 1 <= PageSize THEN PageSize - 1 + 1 ELSE 0
          /\ \A i \in 1 .. PageSize - 1 + 1 : SubSeq(got, 1, PageSize)[i] = got[1 + i - 1]
      BY <3>1, SubSeqProperties
    <3> QED BY <1>7, <2>2, <2>3, <3>2
  <2>5. PICK last \in B : last = all[PageSize] /\ p.next = key[last]
    BY <1>8, <2>0, <2>2, <2>3
  <2>6. ToSet(p.items) = {all[i] : i \in 1 .. PageSize}
    <3>1. DOMAIN p.items = 1 .. PageSize
      BY <1>7, <2>4
    <3> QED BY <2>4, <3>1 DEF ToSet
  <2>7. \A m \in 1 .. Len(all) : m <= PageSize <=> ~Below(key[all[m]], p.next)
    <3> TAKE m \in 1 .. Len(all)
    <3>1. PageSize \in 1 .. Len(all)
      BY <1>3, <1>7, <1>10
    <3>2. PageSize < m <=> Below(key[all[m]], key[all[PageSize]])
      BY <1>3, <3>1
    <3>3. PageSize < m <=> ~(m <= PageSize)
      BY <1>3, <1>7
    <3> QED BY <2>5, <3>2, <3>3
  <2>8. ToSet(p.items) = {i \in B : ~Below(key[i], p.next)}
    <3>1. ASSUME NEW i \in B, ~Below(key[i], p.next) PROVE i \in ToSet(p.items)
      <4>1. PICK m \in 1 .. Len(all) : all[m] = i
        BY <1>3
      <4>2. m \in 1 .. PageSize
        <5>1. m <= PageSize
          BY <2>7, <3>1, <4>1
        <5> QED BY ONLY <1>3, <1>7, <5>1
      <4> QED BY <2>6, <4>1, <4>2
    <3>2. ASSUME NEW i \in ToSet(p.items) PROVE i \in B /\ ~Below(key[i], p.next)
      <4>1. PICK m \in 1 .. PageSize : all[m] = i
        BY <2>6
      <4>2. m \in 1 .. Len(all) /\ m <= PageSize
        BY <1>3, <1>7, <1>10
      <4> QED BY <1>8, <2>7, <4>1, <4>2
    <3> QED BY <3>1, <3>2
  <2>9. p.next \in KeysOf(n) /\ (after = <<>> \/ Below(p.next, after))
    BY <1>6, <2>5
  <2>10. p.next # <<>>
    BY <2>9, KeysOrdered
  <2> QED BY <2>8, <2>9, <2>10 DEF p, B
<1> QED BY <1>3, <1>7, <1>9, <1>10

-----------------------------------------------------------------------------
(* The key of a list in an order, and how many numbers it has.             *)
Width(list, sort) ==
    IF list \in {"catalog", "ledger"} \/ (list = "comments" /\ sort = "popular")
    THEN 2 ELSE 1

SortKey(list, sort) ==
    CASE list = "shelf"           -> [i \in Item |-> <<-i>>]
      [] list = "writer_chapters" -> [i \in Item |-> <<rows[i].weight>>]
      [] Width(list, sort) = 2    -> ByWeight
      [] OTHER                    -> ById

KeyOf(i) == SortKey(walk.list, walk.sort)[i]

(* What the walk has met of a row that stood still.                        *)
MetSoFar(i) ==
    IF walk.over THEN listed[i] = 1 \/ (walk.sort = "search" /\ listed[i] = 0)
    ELSE IF walk.cursor.keys = <<>> \/ Below(KeyOf(i), walk.cursor.keys) THEN listed[i] = 0
    ELSE listed[i] = 1

Walk == [list : Lists, sort : UNION {Sorts(l) : l \in Lists}, over : BOOLEAN,
         cursor : [sort : {""} \cup UNION {Sorts(l) : l \in Lists},
                   keys : KeysOf(1) \cup KeysOf(2) \cup {<<>>}]]

PagingOK ==
    /\ walk \in Walk /\ walk.sort \in Sorts(walk.list)
    /\ \/ walk.cursor = FirstPage
       \/ /\ walk.cursor.sort = walk.sort /\ walk.sort # "search"
          /\ walk.cursor.keys \in KeysOf(Width(walk.list, walk.sort))
    /\ rows \in [Item -> [there : BOOLEAN, fits : BOOLEAN, weight : Weight]]
    /\ listed \in [Item -> Nat]
    /\ NumbersDiffer
    /\ steady \subseteq Shows(walk.list, walk.sort)
    /\ \A i \in steady : MetSoFar(i)

LEMMA PageOfWalk ==
    ASSUME NEW list \in Lists, NEW sort \in Sorts(list), NEW after, sort # "search"
    PROVE  PageOf(list, sort, after) = Page(Shows(list, sort), SortKey(list, sort), after)
<1> USE DEF PageOf, Shows, SortKey, Width, Sorts
<1>1. CASE list = "comments"
  BY <1>1 DEF ListComments
<1>2. CASE list = "catalog"
  BY <1>2 DEF CatalogNovels
<1>3. CASE list = "shelf"
  BY <1>3 DEF ListShelf
<1>4. CASE list = "ledger"
  BY <1>4 DEF ListLedger
<1>5. CASE list = "writer_chapters"
  BY <1>5 DEF WriterChapters
<1>6. CASE list = "notifications"
  BY <1>6 DEF ListNotifications
<1>7. CASE list \in {"reviews", "bookmarks", "earnings", "writer_novels"}
  BY <1>7 DEF ListReviews, ListBookmarks, ListEarnings, WriterNovels
<1> QED BY <1>1, <1>2, <1>3, <1>4, <1>5, <1>6, <1>7 DEF Lists

(* What a list shows has a key of its own in each of the list's orders.    *)
LEMMA ShownAreKeyed ==
    ASSUME rows \in [Item -> [there : BOOLEAN, fits : BOOLEAN, weight : Weight]],
           NumbersDiffer, walk.list \in Lists, NEW sort \in Sorts(walk.list)
    PROVE  /\ Keyed(Shows(walk.list, sort), SortKey(walk.list, sort), Width(walk.list, sort))
           /\ Shows(walk.list, sort) \subseteq Item
<1> DEFINE S == Shows(walk.list, sort)
           key == SortKey(walk.list, sort)
           n == Width(walk.list, sort)
<1>1. S \subseteq Present /\ Present \subseteq Item /\ IsFiniteSet(S)
  <2>1. S \subseteq Present /\ Present \subseteq Item
    BY DEF Shows, Fitting, Present
  <2>2. IsFiniteSet(Item)
    BY PagingAssumption
  <2> HIDE DEF S
  <2> QED BY <2>1, <2>2, FS_Subset
<1>2. \A i \in Item : i \in Int /\ rows[i].weight \in Int
  <2> TAKE i \in Item
  <2>1. rows[i].weight \in Weight
    OBVIOUS
  <2>2. Weight \subseteq Nat /\ Item \subseteq Nat
    BY PagingAssumption
  <2>3. rows[i].weight \in Nat /\ i \in Nat
    BY <2>1, <2>2
  <2> QED BY ONLY <2>3
<1> SUFFICES /\ \A i \in S : key[i] \in KeysOf(n)
             /\ \A i, j \in S : key[i] = key[j] => i = j
  BY <1>1 DEF Keyed
<1>b. \A i \in S : i \in Int /\ rows[i].weight \in Int
  <2> HIDE DEF S
  <2> QED BY <1>1, <1>2
<1>3. CASE walk.list = "shelf"
  <2>1. n = 1 /\ \A i \in S : key[i] = <<-i>>
    BY <1>1, <1>3 DEF Width, SortKey
  <2>2. \A i, j \in Int : -i \in Int /\ (-i = -j => i = j)
    OBVIOUS
  <2>3. \A i, j \in Int : <<-i>> \in KeysOf(1) /\ (<<-i>> = <<-j>> => i = j)
    BY ONLY <2>2, KeysHaveTheirNumbers
  <2> HIDE DEF S, key, n
  <2> QED BY <1>1, <1>2, <2>1, <2>3
<1>4. CASE walk.list = "writer_chapters"
  <2>1. n = 1 /\ \A i \in S : key[i] = <<rows[i].weight>>
    BY <1>1, <1>4 DEF Width, SortKey
  <2>2. \A i, j \in S : rows[i].weight = rows[j].weight => i = j
    BY <1>1, <1>4 DEF NumbersDiffer
  <2> HIDE DEF S, key, n
  <2>3. \A i \in S : key[i] \in KeysOf(n)
    <3> TAKE i \in S
    <3>1. <<rows[i].weight>> \in KeysOf(1)
      BY <1>b, KeysHaveTheirNumbers
    <3> QED BY <2>1, <3>1
  <2>4. \A i, j \in S : key[i] = key[j] => rows[i].weight = rows[j].weight
    BY ONLY <1>b, <2>1, KeysHaveTheirNumbers
  <2> QED BY ONLY <2>2, <2>3, <2>4
<1>5. CASE n = 2
  <2>1. \A i \in S : key[i] = <<rows[i].weight, i>>
    BY <1>1, <1>5 DEF Width, SortKey, ByWeight
  <2> HIDE DEF S, key, n
  <2>2. \A i \in S : key[i] \in KeysOf(n)
    <3> TAKE i \in S
    <3>1. <<rows[i].weight, i>> \in KeysOf(2)
      BY <1>b, KeysHaveTheirNumbers
    <3> QED BY <1>5, <2>1, <3>1
  <2>3. \A i, j \in S : key[i] = key[j] => i = j
    BY ONLY <1>b, <2>1, KeysHaveTheirNumbers
  <2> QED BY ONLY <2>2, <2>3
<1>6. CASE n # 2 /\ walk.list \notin {"shelf", "writer_chapters"}
  <2>1. n = 1 /\ \A i \in S : key[i] = <<i>>
    BY <1>1, <1>6 DEF Width, SortKey, ById
  <2> HIDE DEF S, key, n
  <2>2. \A i \in S : key[i] \in KeysOf(n)
    BY ONLY <1>b, <2>1, KeysHaveTheirNumbers
  <2>3. \A i, j \in S : key[i] = key[j] => i = j
    BY ONLY <1>b, <2>1, KeysHaveTheirNumbers
  <2> QED BY ONLY <2>2, <2>3
<1> QED BY <1>3, <1>4, <1>5, <1>6

LEMMA KeysAreKeys ==
    ASSUME NEW list, NEW sort
    PROVE  KeysOf(Width(list, sort)) \subseteq KeysOf(1) \cup KeysOf(2)
  BY DEF Width

LEMMA PagingOKInit == PagingInit => PagingOK
<1> SUFFICES ASSUME PagingInit PROVE PagingOK
  OBVIOUS
<1>a. PICK list \in Lists : \E sort \in Sorts(list) :
        walk = [list |-> list, sort |-> sort, cursor |-> FirstPage, over |-> FALSE]
  BY DEF PagingInit
<1>1. PICK sort \in Sorts(list) :
        walk = [list |-> list, sort |-> sort, cursor |-> FirstPage, over |-> FALSE]
  BY <1>a
<1>2. walk \in Walk /\ walk.sort \in Sorts(walk.list) /\ walk.cursor = FirstPage
  BY <1>1 DEF Walk, FirstPage
<1>3. rows \in [Item -> [there : BOOLEAN, fits : BOOLEAN, weight : Weight]]
  BY DEF PagingInit
<1>4. steady \subseteq Item /\ steady = Shows(walk.list, walk.sort)
  BY DEF PagingInit, Shows, Fitting, Present
<1>5. \A i \in steady : MetSoFar(i)
  BY <1>1, <1>4 DEF MetSoFar, FirstPage, PagingInit
<1> QED BY <1>2, <1>3, <1>4, <1>5 DEF PagingOK, PagingInit

(* A page: the rows that it lists are those between the two cursors.       *)
LEMMA PagingOKNextPage == ASSUME PagingOK, NextPage PROVE PagingOK'
<1> DEFINE S == Shows(walk.list, walk.sort)
           key == SortKey(walk.list, walk.sort)
           n == Width(walk.list, walk.sort)
           after == walk.cursor.keys
           p == PageOf(walk.list, walk.sort, after)
<1>1. /\ ~walk.over /\ UNCHANGED <<rows, steady>>
      /\ listed' = [i \in Item |-> listed[i] + (IF i \in ToSet(p.items) THEN 1 ELSE 0)]
      /\ walk' = IF p.next = <<>> THEN [walk EXCEPT !.over = TRUE]
                 ELSE [walk EXCEPT !.cursor = [sort |-> walk.sort, keys |-> p.next]]
  BY DEF NextPage
<1>2. /\ walk \in Walk /\ walk.sort \in Sorts(walk.list) /\ listed \in [Item -> Nat]
      /\ steady \subseteq S /\ \A i \in steady : MetSoFar(i)
  BY DEF PagingOK
<1>3. Keyed(S, key, n) /\ S \subseteq Item
  BY ShownAreKeyed DEF PagingOK, Walk
<1>4. after \in KeysOf(n) \cup {<<>>} /\ (walk.sort = "search" => after = <<>>)
  <2>2. CASE walk.cursor # FirstPage
    <3>1. walk.sort # "search" /\ walk.cursor.keys \in KeysOf(Width(walk.list, walk.sort))
      BY <2>2 DEF PagingOK
    <3> QED BY <3>1
  <2>3. after = <<>> => after \in KeysOf(n) \cup {<<>>}
    OBVIOUS
  <2>4. FirstPage.keys = <<>>
    BY DEF FirstPage
  <2>5. CASE walk.cursor = FirstPage
    <3>1. after = <<>>
      BY <2>4, <2>5
    <3> QED BY <2>3, <3>1
  <2> QED BY <2>2, <2>5
<1>5. listed' \in [Item -> Nat]
  <2> HIDE DEF p
  <2> QED BY <1>1, <1>2
<1>6. \A i \in steady : listed'[i] = listed[i] + (IF i \in ToSet(p.items) THEN 1 ELSE 0)
                        /\ listed[i] \in Nat /\ i \in S
  <2> HIDE DEF p, S
  <2> QED BY <1>1, <1>2, <1>3
<1>7. \A i \in steady : listed[i] = IF after = <<>> \/ Below(key[i], after) THEN 0 ELSE 1
  BY <1>1, <1>2 DEF MetSoFar, KeyOf
<1>8. CASE walk.sort = "search"
  <2>1. walk.list = "catalog"
    <3>1. walk.list \in Lists
      BY <1>2 DEF Walk
    <3> QED BY <1>2, <1>8, <3>1 DEF Sorts, Lists
  <2>2. p.next = <<>>
    BY <1>8, <2>1 DEF PageOf, CatalogNovels, Page
  <2>3. after = <<>>
    BY <1>4, <1>8
  <2>4. walk' = [walk EXCEPT !.over = TRUE]
    BY <1>1, <2>2
  <2>5. walk' \in Walk /\ walk'.sort = walk.sort /\ walk'.list = walk.list
        /\ walk'.cursor = walk.cursor /\ walk'.over
    BY <1>2, <2>4 DEF Walk
  <2>6. \A i \in steady : listed'[i] \in {0, 1}
    <3> HIDE DEF p, S, after, key
    <3> QED BY <1>6, <1>7, <2>3
  <2>7. \A i \in steady : MetSoFar(i)'
    <3> HIDE DEF p
    <3> QED BY <1>8, <2>5, <2>6 DEF MetSoFar
  <2> QED BY <1>1, <1>2, <1>5, <2>5, <2>7
          DEF PagingOK, NumbersDiffer, Shows, Present, Fitting
<1>9. CASE walk.sort # "search"
  <2>1. p = Page(S, key, after)
    BY <1>2, <1>9, PageOfWalk DEF Walk
  <2>2. /\ p.next \in KeysOf(n) \cup {<<>>}
        /\ p.next = <<>> => ToSet(p.items) = Behind(S, key, after)
        /\ p.next # <<>> =>
             /\ ToSet(p.items) = {i \in Behind(S, key, after) : ~Below(key[i], p.next)}
             /\ after = <<>> \/ Below(p.next, after)
    <3> HIDE DEF S, key, n, after, p
    <3> QED BY <1>3, <1>4, <2>1, PageFacts
  <2>3. \A i \in S : key[i] \in KeysOf(n)
    BY <1>3 DEF Keyed
  <2>4. CASE p.next = <<>>
    <3>1. walk' = [walk EXCEPT !.over = TRUE]
      BY <1>1, <2>4
    <3>2. walk' \in Walk /\ walk'.sort = walk.sort /\ walk'.list = walk.list
          /\ walk'.cursor = walk.cursor /\ walk'.over
      BY <1>2, <3>1 DEF Walk
    <3>3. \A i \in steady : listed'[i] = 1
      <4> TAKE i \in steady
      <4>1. i \in ToSet(p.items) <=> after = <<>> \/ Below(key[i], after)
        <5> HIDE DEF S, key, n, after, p
        <5> QED BY <1>6, <2>2, <2>4 DEF Behind
      <4> HIDE DEF S, key, n, after, p
      <4> QED BY <1>6, <1>7, <4>1
    <3>4. \A i \in steady : MetSoFar(i)'
      <4> HIDE DEF p
      <4> QED BY <3>2, <3>3 DEF MetSoFar
    <3> QED BY <1>1, <1>2, <1>5, <3>2, <3>4
            DEF PagingOK, NumbersDiffer, Shows, Present, Fitting
  <2>5. CASE p.next # <<>>
    <3>1. walk' = [walk EXCEPT !.cursor = [sort |-> walk.sort, keys |-> p.next]]
      BY <1>1, <2>5
    <3>2. PICK next \in KeysOf(n) : next = p.next
      <4> HIDE DEF p
      <4> QED BY <2>2, <2>5
    <3>3. next \in KeysOf(1) \cup KeysOf(2)
      BY KeysAreKeys
    <3>4. /\ walk' \in Walk /\ walk'.sort = walk.sort /\ walk'.list = walk.list
          /\ walk'.cursor = [sort |-> walk.sort, keys |-> next] /\ ~walk'.over
      <4> DEFINE cursor == [sort |-> walk.sort, keys |-> next]
                 Cursors == [sort : {""} \cup UNION {Sorts(l) : l \in Lists},
                             keys : KeysOf(1) \cup KeysOf(2) \cup {<<>>}]
      <4>1. walk.sort \in UNION {Sorts(l) : l \in Lists}
        BY <1>2 DEF Walk
      <4>2. cursor \in Cursors
        BY <3>3, <4>1
      <4>3. walk' = [walk EXCEPT !.cursor = cursor]
        BY <3>1, <3>2
      <4>4. walk \in [list : Lists, sort : UNION {Sorts(l) : l \in Lists}, over : BOOLEAN,
                      cursor : Cursors]
        BY <1>2 DEF Walk
      <4> HIDE DEF p, cursor, Cursors
      <4>5. /\ walk' \in [list : Lists, sort : UNION {Sorts(l) : l \in Lists}, over : BOOLEAN,
                          cursor : Cursors]
            /\ walk'.sort = walk.sort /\ walk'.list = walk.list
            /\ walk'.cursor = cursor /\ walk'.over = walk.over
        BY ONLY <4>2, <4>3, <4>4
      <4> QED BY <1>1, <4>5 DEF Walk, cursor, Cursors
    <3>5. next # <<>>
      BY KeysOrdered
    <3>6. \A i \in steady : listed'[i] = IF Below(key[i], next) THEN 0 ELSE 1
      <4> TAKE i \in steady
      <4>1. i \in ToSet(p.items) <=>
              (after = <<>> \/ Below(key[i], after)) /\ ~Below(key[i], next)
        <5> HIDE DEF S, key, n, after, p
        <5> QED BY <1>6, <2>2, <2>5, <3>2 DEF Behind
      <4>2. Below(key[i], next) => after = <<>> \/ Below(key[i], after)
        <5>1. after = <<>> \/ Below(next, after)
          <6> HIDE DEF S, key, n, after, p
          <6> QED BY <2>2, <2>5, <3>2
        <5>2. key[i] \in KeysOf(n)
          BY <1>6, <2>3
        <5> HIDE DEF S, key, n, after, p
        <5> QED BY <1>4, <5>1, <5>2, KeysOrdered
      <4> HIDE DEF S, key, n, after, p
      <4> QED BY <1>6, <1>7, <4>1, <4>2
    <3>7. \A i \in steady : KeyOf(i)' = key[i]
      BY <1>1, <3>4 DEF KeyOf, SortKey, ByWeight, ById
    <3>8. \A i \in steady : MetSoFar(i)'
      <4> HIDE DEF p, key
      <4> QED BY <3>4, <3>5, <3>6, <3>7 DEF MetSoFar
    <3> QED BY <1>1, <1>2, <1>5, <1>9, <3>4, <3>8
            DEF PagingOK, NumbersDiffer, Shows, Present, Fitting
  <2> QED BY <2>4, <2>5
<1> QED BY <1>8, <1>9

(* Another order: nothing has been met in it yet.                          *)
LEMMA PagingOKChangeSort ==
    ASSUME PagingOK, NEW sort \in Sorts(walk.list), ChangeSort(sort) PROVE PagingOK'
<1>1. /\ walk \in Walk /\ walk.sort \in Sorts(walk.list) /\ sort # walk.sort
      /\ rows \in [Item -> [there : BOOLEAN, fits : BOOLEAN, weight : Weight]]
  BY DEF PagingOK, ChangeSort
<1>2. walk.list \in Lists /\ sort # ""
  <2>1. walk.list \in Lists
    BY <1>1 DEF Walk
  <2> QED BY <2>1 DEF Sorts, Lists
<1>3. /\ ~walk.over /\ UNCHANGED rows
      /\ walk' = [walk EXCEPT !.sort = sort,
                             !.cursor = IF DecodeCursorFor(walk.cursor, sort)
                                        THEN walk.cursor ELSE FirstPage]
      /\ listed' = [i \in Item |-> 0] /\ steady' = Shows(walk.list, sort)
  BY DEF ChangeSort
<1>4. (IF DecodeCursorFor(walk.cursor, sort) THEN walk.cursor ELSE FirstPage) = FirstPage
  <2>1. CASE walk.cursor = FirstPage
    BY <2>1
  <2>2. CASE walk.cursor # FirstPage
    <3>1. walk.cursor.sort = walk.sort
      BY <2>2 DEF PagingOK
    <3> QED BY <1>1, <2>2, <3>1 DEF DecodeCursorFor
  <2> QED BY <2>1, <2>2
<1>5. walk' = [walk EXCEPT !.sort = sort, !.cursor = FirstPage]
  BY <1>3, <1>4
<1>6. /\ walk' \in Walk /\ walk'.sort = sort /\ walk'.list = walk.list
      /\ walk'.cursor = FirstPage /\ ~walk'.over
  <2> DEFINE SomeSort == UNION {Sorts(l) : l \in Lists}
             Cursors == [sort : {""} \cup SomeSort, keys : KeysOf(1) \cup KeysOf(2) \cup {<<>>}]
  <2>1. sort \in SomeSort
    BY <1>2
  <2>2. FirstPage \in Cursors
    BY DEF FirstPage
  <2>3. walk \in [list : Lists, sort : SomeSort, over : BOOLEAN, cursor : Cursors]
    BY <1>1 DEF Walk
  <2> HIDE DEF SomeSort, Cursors
  <2>4. /\ walk' \in [list : Lists, sort : SomeSort, over : BOOLEAN, cursor : Cursors]
        /\ walk'.sort = sort /\ walk'.list = walk.list
        /\ walk'.cursor = FirstPage /\ walk'.over = walk.over
    BY ONLY <1>5, <2>1, <2>2, <2>3
  <2> QED BY <1>3, <2>4 DEF Walk, SomeSort, Cursors
<1>7. (steady \subseteq Shows(walk.list, walk.sort))'
  BY <1>3, <1>6 DEF Shows, Fitting, Present
<1>8. \A i \in steady' : i \in Item
  BY <1>3 DEF Shows, Fitting, Present
<1>9. \A i \in steady' : MetSoFar(i)'
  <2>1. walk'.cursor.keys = <<>>
    <3>1. FirstPage.keys = <<>>
      BY DEF FirstPage
    <3> QED BY <1>6, <3>1
  <2>2. \A i \in steady' : listed'[i] = 0
    BY <1>3, <1>8
  <2> QED BY <1>6, <2>1, <2>2 DEF MetSoFar
<1>10. listed' \in [Item -> Nat]
  BY <1>3
<1>11. NumbersDiffer'
  BY <1>3, <1>6 DEF PagingOK, NumbersDiffer, Present
<1> QED BY <1>1, <1>3, <1>6, <1>7, <1>9, <1>10, <1>11 DEF PagingOK

(* Of the rows that stood still, one that comes, goes, is filtered         *)
(* differently or moves is none.                                           *)
LEMMA PagingOKDisturbed ==
    ASSUME PagingOK, NEW i \in Item, NEW w \in Weight,
           Appear(i) \/ Vanish(i) \/ Refit(i) \/ Reweigh(i, w)
    PROVE  PagingOK'
<1> DEFINE S == Shows(walk.list, walk.sort)
           Row == [there : BOOLEAN, fits : BOOLEAN, weight : Weight]
<1>1. rows \in [Item -> Row] /\ steady \subseteq S /\ walk.list \in Lists
      /\ walk.sort \in Sorts(walk.list) /\ NumbersDiffer
  BY DEF PagingOK, Walk
<1>2. PICK row \in Row :
        /\ rows' = [rows EXCEPT ![i] = row]
        /\ \/ row = [rows[i] EXCEPT !.there = TRUE] /\ steady' = steady /\ ~rows[i].there
           \/ row = [rows[i] EXCEPT !.there = FALSE] /\ steady' = steady \ {i}
           \/ row = [rows[i] EXCEPT !.fits = ~rows[i].fits]
              /\ steady' = steady \cap S'
           \/ /\ row = [rows[i] EXCEPT !.weight = w] /\ walk.list # "ledger"
              /\ steady' = IF Movable(walk.list, walk.sort) THEN steady \ {i} ELSE steady
  <2>1. rows[i] \in Row
    BY <1>1
  <2>2. /\ [rows[i] EXCEPT !.there = TRUE] \in Row
        /\ [rows[i] EXCEPT !.there = FALSE] \in Row
        /\ [rows[i] EXCEPT !.fits = ~rows[i].fits] \in Row
        /\ [rows[i] EXCEPT !.weight = w] \in Row
    BY <2>1
  <2>3. CASE Appear(i)
    BY <2>2, <2>3 DEF Appear, Disturbed
  <2>4. CASE Vanish(i)
    BY <2>2, <2>4 DEF Vanish, Disturbed
  <2>5. CASE Refit(i)
    BY <2>2, <2>5 DEF Refit, Disturbed
  <2>6. CASE Reweigh(i, w)
    BY <2>2, <2>6 DEF Reweigh, Disturbed
  <2> QED BY <2>3, <2>4, <2>5, <2>6
<1>3. UNCHANGED <<walk, listed>> /\ NumbersDiffer'
  BY DEF Appear, Vanish, Refit, Reweigh, Disturbed
<1>4. rows' \in [Item -> Row] /\ rows'[i] = row /\ \A j \in Item \ {i} : rows'[j] = rows[j]
  BY <1>1, <1>2
<1>5. rows[i] \in Row
  BY <1>1
<1>6. steady' \subseteq steady /\ steady' \subseteq S' /\ steady \subseteq Item
  <2>1. steady \subseteq Item
    BY <1>1 DEF Shows, Fitting, Present
  <2>2. ASSUME NEW j \in steady, j # i PROVE j \in S'
    BY <1>1, <1>3, <1>4, <2>1, <2>2 DEF Shows, Fitting, Present
  <2>3. ASSUME i \in steady, row.there = rows[i].there, row.fits = rows[i].fits
        PROVE  i \in S'
    BY <1>1, <1>3, <1>4, <2>1, <2>3 DEF Shows, Fitting, Present
  <2>4. i \in steady => rows[i].there
    BY <1>1 DEF Shows, Fitting, Present
  <2> HIDE DEF S
  <2>5. i \in steady' => i \in steady /\ i \in S'
    <3>1. row = [rows[i] EXCEPT !.weight = w] => row.there = rows[i].there /\ row.fits = rows[i].fits
      BY <1>5
    <3> QED BY <1>2, <2>3, <2>4, <3>1
  <2> QED BY <1>2, <2>1, <2>2, <2>5
<1>7. \A j \in steady' : KeyOf(j)' = KeyOf(j)
  <2> TAKE j \in steady'
  <2>1. j \in Item
    BY <1>6
  <2>2. CASE rows'[j].weight = rows[j].weight
    BY <1>3, <2>1, <2>2 DEF KeyOf, SortKey, ById, ByWeight
  <2>3. CASE rows'[j].weight # rows[j].weight
    <3>1. j = i /\ row.weight # rows[i].weight
      BY <1>4, <2>1, <2>3
    <3>2. /\ [rows[i] EXCEPT !.there = TRUE].weight = rows[i].weight
          /\ [rows[i] EXCEPT !.there = FALSE].weight = rows[i].weight
          /\ [rows[i] EXCEPT !.fits = ~rows[i].fits].weight = rows[i].weight
      BY <1>5
    <3>3. walk.list # "ledger" /\ ~Movable(walk.list, walk.sort)
      BY <1>2, <3>1, <3>2
    <3>4. walk.list # "writer_chapters" /\ Width(walk.list, walk.sort) # 2
      BY <1>1, <3>3 DEF Movable, Width
    <3> QED BY <1>3, <2>1, <3>4 DEF KeyOf, SortKey, ById
  <2> QED BY <2>2, <2>3
<1>8. \A j \in steady' : MetSoFar(j)'
  <2> TAKE j \in steady'
  <2>1. MetSoFar(j) /\ KeyOf(j)' = KeyOf(j)
    BY <1>6, <1>7 DEF PagingOK
  <2> QED BY <1>3, <2>1 DEF MetSoFar
<1> QED BY <1>3, <1>4, <1>6, <1>8 DEF PagingOK

(* A walk to the end meets every row that stood still once, for every      *)
(* list, size of a page, and number of rows and moves.                     *)
THEOREM ListedOnceCorrect == PagingSpec => []ListedOnce
<1>1. PagingOK /\ [PagingNext]_pagingVars => PagingOK'
  <2> SUFFICES ASSUME PagingOK, [PagingNext]_pagingVars PROVE PagingOK'
    OBVIOUS
  <2>1. CASE UNCHANGED pagingVars
    <3>1. UNCHANGED <<rows, walk, listed, steady>>
      BY <2>1 DEF pagingVars
    <3>2. \A i \in steady : MetSoFar(i) => MetSoFar(i)'
      BY <3>1 DEF MetSoFar, KeyOf, SortKey, ById, ByWeight
    <3> QED BY <3>1, <3>2 DEF PagingOK, NumbersDiffer, Shows, Present, Fitting
  <2>2. ASSUME NEW i \in Item, Appear(i) \/ Vanish(i) \/ Refit(i) PROVE PagingOK'
    <3>1. rows[i].weight \in Weight
      BY DEF PagingOK
    <3> QED BY <2>2, <3>1, PagingOKDisturbed
  <2>3. ASSUME NEW i \in Item, NEW w \in Weight, Reweigh(i, w) PROVE PagingOK'
    BY <2>3, PagingOKDisturbed
  <2>4. ASSUME NEW sort \in Sorts(walk.list), ChangeSort(sort) PROVE PagingOK'
    BY <2>4, PagingOKChangeSort
  <2> QED BY <2>1, <2>2, <2>3, <2>4, PagingOKNextPage DEF PagingNext
<1>2. PagingOK => ListedOnce
  <2> SUFFICES ASSUME PagingOK PROVE ListedOnce
    OBVIOUS
  <2>1. \A i \in steady : listed[i] \in {0, 1}
                          /\ (walk.over /\ walk.sort # "search" => listed[i] = 1)
    BY DEF PagingOK, MetSoFar
  <2> QED BY <2>1 DEF ListedOnce
<1> QED BY <1>1, <1>2, PagingOKInit, PTL DEF PagingSpec
=============================================================================
