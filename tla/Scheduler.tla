--------------------------------- MODULE Scheduler ---------------------------------
(***************************************************************************)
(* The background jobs and who runs them (jobs/scheduler.go, registry.go,  *)
(* withJobLock in jobs.go).  Every replica of the server has a scheduler,  *)
(* a single goroutine that waits for the job that is due first, runs it,   *)
(* whatever comes of it, and asks for its next turn when it is over.  A    *)
(* run takes the job's advisory lock or is skipped.                        *)
(*                                                                         *)
(* Time is the calendar's; it goes round in Cycle slots, and what is due   *)
(* is kept as the time that is left, below zero for what is late.  A job   *)
(* that is due starts before the time moves on, unless its replica is busy.*)
(***************************************************************************)
EXTENDS Calendar

CONSTANTS
    Replica,
    Schedules,      \* Seq of rules, in the order in which jobs are added
    MaxRun,         \* [DOMAIN Schedules -> Nat]: the longest run of each
    MaxStops        \* bound: replicas that are stopped

Job   == DOMAIN Schedules
Cycle == YearDays * Week * Slots

ASSUME SchedulerAssumption ==
    /\ Schedules # <<>>
    /\ Schedules \in Seq([rule : {"every", "daily", "weekly", "monthly"},
                          gap : Nat, day : Nat, slot : 0..(Slots - 1)])
    /\ \A j \in Job : LET s == Schedules[j]
                      IN  /\ s.rule = "every" => s.gap > 0
                          /\ s.rule = "weekly" => s.day < Week
                          /\ s.rule = "monthly" => s.day > 0
    /\ MaxRun \in [Job -> Nat] /\ MaxStops \in Nat /\ 0 \notin Replica

VARIABLES
    clock,      \* 0..Cycle - 1
    due,        \* [Replica -> [Job -> Int]]: time left until the next turn
    running,    \* [Replica -> [job, age]]: job 0 for none
    lock,       \* [Job -> Replica \cup {0}]: who holds pg_advisory_xact_lock
    up,         \* replicas that run
    stops

schedulerVars == <<clock, due, running, lock, up, stops>>

NoRun == [job |-> 0, age |-> 0]

(* Schedule.Next, as the time from now.                                    *)
NextTurn(j, now) ==
    LET s == Schedules[j]
    IN  CASE s.rule = "every"   -> Every(now, s.gap) - now
          [] s.rule = "daily"   -> NextDailyAt(now, s.slot) - now
          [] s.rule = "weekly"  -> NextWeeklyAt(now, s.day, s.slot) - now
          [] s.rule = "monthly" -> NextMonthlyAt(now, s.day, s.slot) - now
FirstTurns == [j \in Job |-> NextTurn(j, clock)]

SchedulerInit ==
    /\ clock \in 0..(Cycle - 1)
    /\ due = [r \in Replica |-> FirstTurns]
    /\ running = [r \in Replica |-> NoRun]
    /\ lock = [j \in Job |-> 0]
    /\ up = Replica /\ stops = 0

-----------------------------------------------------------------------------
Ready(r) == r \in up /\ running[r] = NoRun

(* earliest: the job that is due first, of several the one added first.    *)
(* Mutant: the first job that is due, in the order of the list.            *)
FirstDue(r) ==
    LET ready == {j \in Job : due[r][j] <= 0}
    IN  IF ready = {} THEN Min(Job) ELSE Min(ready)
Earliest(r) ==
    CHOOSE j \in Job : \A i \in Job : \/ due[r][j] < due[r][i]
                                      \/ due[r][j] = due[r][i] /\ j <= i
Waiting(r) == Ready(r) /\ due[r][Earliest(r)] <= 0

Reschedule(r, j) == due' = [due EXCEPT ![r][j] = NextTurn(j, clock)]

(* The timer fires; the job takes its lock, or another replica has it and  *)
(* this turn is skipped.                                                   *)
RunJob(r) ==
    /\ Waiting(r)
    /\ LET j == Earliest(r)
       IN  IF lock[j] = 0
           THEN /\ lock' = [lock EXCEPT ![j] = r]
                /\ running' = [running EXCEPT ![r] = [job |-> j, age |-> 0]]
                /\ UNCHANGED due
           ELSE Reschedule(r, j) /\ UNCHANGED <<lock, running>>
    /\ UNCHANGED <<clock, up, stops>>

(* The run is over, done or failed: its transaction gives the lock back.   *)
FinishJob(r) ==
    /\ running[r] # NoRun
    /\ LET j == running[r].job
       IN  lock' = [lock EXCEPT ![j] = 0] /\ Reschedule(r, j)
    /\ running' = [running EXCEPT ![r] = NoRun]
    /\ UNCHANGED <<clock, up, stops>>

(* A replica stops, in the middle of a run or not, which the database      *)
(* rolls back; one that starts asks for all the next turns.                *)
(* Mutant: the lock is the session's, which the pool keeps open.           *)
StillHeld(r) == lock
Abandoned(r) == [j \in Job |-> IF lock[j] = r THEN 0 ELSE lock[j]]
Stop(r) ==
    /\ r \in up /\ stops < MaxStops
    /\ stops' = stops + 1
    /\ up' = up \ {r}
    /\ running' = [running EXCEPT ![r] = NoRun]
    /\ lock' = Abandoned(r)
    /\ due' = [due EXCEPT ![r] = [j \in Job |-> 0]]
    /\ UNCHANGED clock
StartUp(r) ==
    /\ r \notin up
    /\ up' = up \cup {r}
    /\ due' = [due EXCEPT ![r] = FirstTurns]
    /\ UNCHANGED <<clock, running, lock, stops>>

Tick ==
    /\ \A r \in up : /\ ~Waiting(r)
                     /\ running[r] # NoRun => running[r].age < MaxRun[running[r].job]
    /\ clock' = (clock + 1) % Cycle
    /\ due' = [r \in Replica |->
                 IF r \in up THEN [j \in Job |-> due[r][j] - 1] ELSE due[r]]
    /\ running' = [r \in Replica |->
                     IF running[r] = NoRun THEN NoRun
                     ELSE [running[r] EXCEPT !.age = @ + 1]]
    /\ UNCHANGED <<lock, up, stops>>

SchedulerNext ==
    \/ \E r \in Replica : RunJob(r) \/ FinishJob(r) \/ Stop(r) \/ StartUp(r)
    \/ Tick

(* Time goes on, and a replica that runs goes on with it.                  *)
SchedulerSpec ==
    /\ SchedulerInit /\ [][SchedulerNext]_schedulerVars
    /\ WF_schedulerVars(Tick)
    /\ \A r \in Replica : /\ WF_schedulerVars(RunJob(r)) /\ WF_schedulerVars(FinishJob(r))
                          /\ WF_schedulerVars(StartUp(r))

-----------------------------------------------------------------------------
(* A job never waits for more than one run of each of the others, however  *)
(* long they take and however often they are due: none is starved by a job *)
(* with a short interval (Run, earliest).                                  *)
NoJobIsStarved ==
    \A r \in up, j \in Job :
        \/ running[r].job = j
        \/ due[r][j] >= 0 - SumFunctionOnSet(MaxRun, Job \ {j})

(* The turn that a job asks for is the first one strictly after now, in    *)
(* the operational timezone: no day of the rule is passed over, in months  *)
(* of any length (Schedule.Next: "the first run strictly after").          *)
TurnsAreFirst ==
    \A j \in Job :
        LET s     == Schedules[j]
            first == clock + NextTurn(j, clock) + Zone
        IN  /\ s.rule = "daily"   => IsFirst(first, clock + Zone, s.slot, Nat)
            /\ s.rule = "weekly"  => IsFirst(first, clock + Zone, s.slot, Weekdays(s.day))
            /\ s.rule = "monthly" => IsFirst(first, clock + Zone, s.slot, Monthdays(s.day))

(* Every job is run again and again, though replicas skip the turns that   *)
(* another has taken, runs fail and a replica stops in the middle of one   *)
(* (withJobLock: the lock goes with the transaction).                      *)
JobsKeepRunning ==
    \A j \in Job : []<>(\E r \in Replica : running[r].job = j)
=============================================================================
