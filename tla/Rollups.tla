---------------------------------- MODULE Rollups ----------------------------------
(***************************************************************************)
(* What becomes of the readers' traffic (StatsRollupJob and PartitionJob   *)
(* in jobs/jobs.go): read events and sales of a day are folded into the    *)
(* chapters' and the novel's figures of that day, and the table of events  *)
(* gets a partition for every month.  One novel.                           *)
(*                                                                         *)
(* An event whose month has no partition goes into the DEFAULT one, and    *)
(* the database refuses to create a partition whose rows lie there.        *)
(***************************************************************************)
EXTENDS Integers, FiniteSets, Functions

CONSTANTS
    Story,          \* chapters
    Hours,          \* hours of a day
    ServerZone,     \* hours by which the worker's local time is ahead of UTC
    DaysPerMonth,
    MaxDays, MaxTraffic                             \* bounds for TLC

ASSUME RollupAssumption ==
    /\ IsFiniteSet(Story) /\ Hours \in Nat \ {0} /\ ServerZone \in 0..(Hours - 1)
    /\ DaysPerMonth \in Nat \ {0} /\ MaxDays \in Nat /\ MaxTraffic \in Nat

Days   == 0..MaxDays
Months == 0..(MaxDays \div DaysPerMonth + 1)

VARIABLES
    instant,    \* hours in UTC
    reads,      \* [Story -> [Days -> Nat]]: chapter_read_events
    sales,      \* [Story -> [Days -> Nat]]: coins of unlocks and tips
    daily,      \* [Story -> [Days -> a chapter_daily_stats row, or NoStats]]
    total,      \* [Days -> a novel_daily_stats row, or NoStats]
    parts,      \* months with a partition
    strays,     \* months with events in the DEFAULT partition
    turned,     \* months whose PartitionJob has run
    traffic

rollupVars == <<instant, reads, sales, daily, total, parts, strays, turned, traffic>>

NoStats == [reads |-> 0, coins |-> -1]

RollupInit ==
    /\ instant = 0
    /\ reads = [c \in Story |-> [d \in Days |-> 0]]
    /\ sales = [c \in Story |-> [d \in Days |-> 0]]
    /\ daily = [c \in Story |-> [d \in Days |-> NoStats]]
    /\ total = [d \in Days |-> NoStats]
    /\ parts = {} /\ strays = {} /\ turned = {} /\ traffic = 0

-----------------------------------------------------------------------------
Today        == instant \div Hours
MonthOf(day) == day \div DaysPerMonth

(* RecordRead: an event, in its month's partition or the DEFAULT one.      *)
RecordRead(c) ==
    /\ traffic < MaxTraffic /\ traffic' = traffic + 1
    /\ reads' = [reads EXCEPT ![c][Today] = @ + 1]
    /\ strays' = strays \cup ({MonthOf(Today)} \ parts)
    /\ UNCHANGED <<instant, sales, daily, total, parts, turned>>
Sell(c) ==
    /\ traffic < MaxTraffic /\ traffic' = traffic + 1
    /\ sales' = [sales EXCEPT ![c][Today] = @ + 1]
    /\ UNCHANGED <<instant, reads, daily, total, parts, strays, turned>>

(* StatsRollupJob: the day before the worker's today.  Only chapters that  *)
(* were read get a row; the novel's is the sum of those rows.              *)
(* Mutant: the day that is not over.                                       *)
CurrentDay == (instant + ServerZone) \div Hours
RollupDay == (instant + ServerZone) \div Hours - 1
Folded(c, d) == [reads |-> reads[c][d], coins |-> sales[c][d]]
StatsRollup ==
    LET d    == RollupDay
        read == {c \in Story : reads[c][d] > 0}
        rows == {c \in Story : daily'[c][d] # NoStats}
    IN  /\ d >= 0
        /\ daily' = [c \in Story |-> IF c \in read
                                     THEN [daily[c] EXCEPT ![d] = Folded(c, d)]
                                     ELSE daily[c]]
        /\ total' = IF rows = {} THEN total
                    ELSE [total EXCEPT ![d] =
                   [reads |-> SumFunctionOnSet([c \in Story |-> daily'[c][d].reads], rows),
                    coins |-> SumFunctionOnSet([c \in Story |-> daily'[c][d].coins], rows)]]
        /\ UNCHANGED <<instant, reads, sales, parts, strays, turned, traffic>>

(* PartitionJob: this month's partition and the next, both or none.        *)
(* Mutant: this month only.                                                *)
ThisMonth == {0}
Offsets == {0, 1}
Wanted  == {MonthOf(Today) + o : o \in Offsets}
CreatePartitions ==
    /\ parts' = IF strays \cap (Wanted \ parts) = {} THEN parts \cup Wanted ELSE parts
    /\ turned' = turned \cup {MonthOf(Today)}
    /\ UNCHANGED <<instant, reads, sales, daily, total, strays, traffic>>

HourGoes ==
    /\ instant < (MaxDays + 1) * Hours - 1 /\ instant' = instant + 1
    /\ UNCHANGED <<reads, sales, daily, total, parts, strays, turned, traffic>>

RollupNext ==
    \/ \E c \in Story : RecordRead(c) \/ Sell(c)
    \/ StatsRollup \/ CreatePartitions \/ HourGoes

RollupSpec == RollupInit /\ [][RollupNext]_rollupVars

-----------------------------------------------------------------------------
(* The figures of a day are final: they hold all the reads and all the     *)
(* coins of each chapter that was read, and the novel's are their sum,     *)
(* whatever happens later and however often the job runs.  This is so      *)
(* while the worker's local time is UTC (StatsRollupJob.Run).              *)
FiguresFinal ==
    ServerZone = 0 =>
      \A d \in Days :
        LET rows == {c \in Story : daily[c][d] # NoStats}
        IN  /\ \A c \in rows : daily[c][d] = [reads |-> reads[c][d], coins |-> sales[c][d]]
            /\ rows # {} =>
                 /\ total[d].reads = SumFunctionOnSet([c \in Story |-> reads[c][d]], Story)
                 /\ total[d].coins = SumFunctionOnSet([c \in Story |-> sales[c][d]], rows)

(* Events stay out of the DEFAULT partition while every month's job has    *)
(* run, the first before the first event: the month after each is always   *)
(* provided for (PartitionJob.Run).                                        *)
Prepared == \A m \in Months : m < MonthOf(Today) => m \in turned
NoStrays ==
    [][Prepared /\ strays = {} /\ 0 \in turned => strays' = {}]_rollupVars

(* jobs.go says of PartitionJob: "This month and next, so a month boundary *)
(* never finds itself without a partition."  So when the month after one   *)
(* in which the job has run has begun, its partition is there.             *)
BoundaryHasPartition ==
    MonthOf(Today) > 0 /\ MonthOf(Today) - 1 \in turned => MonthOf(Today) \in parts
=============================================================================
