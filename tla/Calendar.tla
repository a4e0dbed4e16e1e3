--------------------------------- MODULE Calendar ---------------------------------
(***************************************************************************)
(* When a job has its next turn (jobs/scheduler.go).  Time is counted in   *)
(* slots; a day has Slots of them and a week Week days.  Months have the   *)
(* lengths of MonthDays, over and over; time 0 begins the first of them.   *)
(* The operational timezone is Zone slots ahead of the clock.              *)
(***************************************************************************)
EXTENDS Integers, Sequences, FiniteSets, FiniteSetsExt, Functions

CONSTANTS Slots, Week, MonthDays, Zone

ASSUME CalendarAssumption ==
    /\ Slots \in Nat \ {0} /\ Week \in Nat \ {0} /\ Zone \in 0..(Slots - 1)
    /\ MonthDays \in Seq(Nat \ {0}) /\ MonthDays # <<>>

YearDays == SumFunctionOnSet(MonthDays, DOMAIN MonthDays)

Local(t)     == t + Zone
Day(t)       == t \div Slots                    \* of a local time
At(day, s)   == day * Slots + s                 \* time.Date, AddDate
Weekday(day) == day % Week

(* Month m, counted from 0: its length and its first day.                  *)
LastDay(m)  == MonthDays[1 + (m % Len(MonthDays))]
FirstDay(m) == SumFunctionOnSet([k \in 0..(m - 1) |-> LastDay(k)], 0..(m - 1))
Month(day)  == CHOOSE m \in 0..day : FirstDay(m) <= day /\ day < FirstDay(m + 1)

(* Not strictly after: the turn of this moment has been taken.             *)
(* Mutant: it is taken once more.                                          *)
LongPassed(candidate, local) == candidate < local
Passed(candidate, local) == candidate <= local

Every(after, gap) == after + gap

DailyCandidate(local, s) ==
    LET today == At(Day(local), s)
    IN  IF Passed(today, local) THEN today + Slots ELSE today
NextDailyAt(after, s) == DailyCandidate(Local(after), s) - Zone

NextWeeklyAt(after, w, s) ==
    LET first == Day(DailyCandidate(Local(after), s))
        wait  == CHOOSE k \in 0..(Week - 1) : Weekday(first + k) = w
    IN  At(first + wait, s) - Zone

(* A day beyond the month's length lands on its last.                      *)
MonthlyCandidate(m, d, s) == At(FirstDay(m) + Min({d, LastDay(m)}) - 1, s)
NextMonthlyAt(after, d, s) ==
    LET local == Local(after)
        m     == Month(Day(local))
    IN  (IF Passed(MonthlyCandidate(m, d, s), local)
         THEN MonthlyCandidate(m + 1, d, s)
         ELSE MonthlyCandidate(m, d, s)) - Zone

-----------------------------------------------------------------------------
(* Local time u is the first after t that is slot s of one of the days.    *)
IsFirst(u, t, s, days) ==
    /\ t < u /\ u % Slots = s /\ Day(u) \in days
    /\ \A v \in (t + 1)..(u - 1) : v % Slots = s => Day(v) \notin days

Weekdays(w)  == {day \in Nat : Weekday(day) = w}
Monthdays(d) == {day \in Nat : \E m \in 0..day : day = FirstDay(m) + Min({d, LastDay(m)}) - 1}
=============================================================================
