-------------------------------- MODULE MCOffice --------------------------------
(* The translators' side of the site, its jobs and its server for TLC.     *)
(* Their components share no state here, so each instance looks at one of  *)
(* them while the others stand still.                                      *)
EXTENDS Series, Manuscript, Glossary, MCPayouts, MCBundle,
        Scheduler, BonusExpiry, Rollups, RateLimit, Paging

VARIABLE lane       \* the component that this instance looks at

Lanes == {"series", "manuscript", "glossary", "payouts", "bundle", "scheduler",
          "expiry", "rollups", "signin", "bodies", "paging"}

(* A series of two or three books; an order that leaves one out, and one   *)
(* that names a book twice and one that is no member.                      *)
MCWish == {<<3, 1>>, <<2, 1, 2, 9>>}
TwoBooks == book[1].series = "A" /\ book[2].series = "A" /\ book[3].series # "B"
NoBooks  == \A n \in Book : book[n] = Loose

(* One job of each rule; the short one may run as long as it waits.        *)
MCRule(rule, gap, day, slot) == [rule |-> rule, gap |-> gap, day |-> day, slot |-> slot]
MCSchedules == <<MCRule("every", 1, 0, 0), MCRule("daily", 0, 0, 1),
                 MCRule("weekly", 0, 1, 0), MCRule("monthly", 0, 3, 1)>>
MCMaxRun    == <<1, 2, 1, 1>>
MCMonths    == <<3, 1>>

(* Three rows, or two chapters, and no more than one missing.              *)
Walkable ==
    /\ Cardinality(Present) >= 2
    /\ walk.list = "writer_chapters" \/ \A i \in Item : rows[i].weight < 2
FirstWalk == walk.list = "reviews" /\ \A i \in Item : rows[i].there /\ rows[i].weight = 0

MCInit ==
    /\ lane \in Lanes
    /\ SeriesInit /\ IF lane = "series" THEN TwoBooks ELSE NoBooks
    /\ ManuscriptInit /\ settings = [price |-> 2, free |-> 1]
    /\ \E n \in Number : resolved = {<<n, ResolveArcID(n)>>} /\ chapters[1].no = n
                         /\ (lane # "manuscript" => n = 1)
    /\ GlossaryInit /\ PayoutsInit /\ PricesInit
    /\ SchedulerInit /\ (lane # "scheduler" => clock = 0)
    /\ ExpiryInit /\ (lane # "expiry" => \A u \in Saver : bonus[u] = 0)
    /\ RollupInit /\ LimitInit
    /\ PagingInit /\ IF lane = "paging" THEN Walkable ELSE FirstWalk

byWriters == <<seriesVars, manuscriptVars, glossaryVars, payoutVars, prices>>
byJobs    == <<schedulerVars, expiryVars, rollupVars>>
byServer  == <<limitVars, pagingVars>>

WritersNext ==
    \/ lane = "series" /\ SeriesNext
       /\ UNCHANGED <<manuscriptVars, glossaryVars, payoutVars, prices>>
    \/ lane = "manuscript" /\ ManuscriptNext
       /\ UNCHANGED <<seriesVars, glossaryVars, payoutVars, prices>>
    \/ lane = "glossary" /\ GlossaryNext
       /\ UNCHANGED <<seriesVars, manuscriptVars, payoutVars, prices>>
    \/ lane = "payouts" /\ PayoutsNext
       /\ UNCHANGED <<seriesVars, manuscriptVars, glossaryVars, prices>>
    \/ lane = "bundle" /\ PricesNext
       /\ UNCHANGED <<seriesVars, manuscriptVars, glossaryVars, payoutVars>>

JobsNext ==
    \/ lane = "scheduler" /\ SchedulerNext /\ UNCHANGED <<expiryVars, rollupVars>>
    \/ lane = "expiry" /\ ExpiryNext /\ UNCHANGED <<schedulerVars, rollupVars>>
    \/ lane = "rollups" /\ RollupNext /\ UNCHANGED <<schedulerVars, expiryVars>>

ServerNext ==
    \/ lane = "signin" /\ SignInNext /\ UNCHANGED pagingVars
    \/ lane = "bodies" /\ BodyNext /\ now' < MaxNow /\ UNCHANGED pagingVars
    \/ lane = "paging" /\ PagingNext /\ UNCHANGED limitVars

MCNext ==
    /\ UNCHANGED lane
    /\ \/ WritersNext /\ UNCHANGED <<byJobs, byServer>>
       \/ JobsNext /\ UNCHANGED <<byWriters, byServer>>
       \/ ServerNext /\ UNCHANGED <<byWriters, byJobs>>

all == <<lane, byWriters, byJobs, byServer>>

(* The fairness of SchedulerSpec.                                          *)
Scheduled(A) == lane = "scheduler" /\ A /\ UNCHANGED <<lane, expiryVars, rollupVars,
                                                       byWriters, byServer>>
MCSpec ==
    /\ MCInit /\ [][MCNext]_all
    /\ WF_all(Scheduled(Tick))
    /\ \A r \in Replica : /\ WF_all(Scheduled(RunJob(r))) /\ WF_all(Scheduled(FinishJob(r)))
                          /\ WF_all(Scheduled(StartUp(r)))

(* The scheduler's liveness, where it is looked at.                         *)
SchedulerKeepsRunning == lane = "scheduler" => JobsKeepRunning
=============================================================================
