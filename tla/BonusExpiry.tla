-------------------------------- MODULE BonusExpiry --------------------------------
(***************************************************************************)
(* The nightly write-off of lapsed bonus coins (BonusExpiryJob in          *)
(* jobs/jobs.go, ExpiryCandidates and ExpireBonus of the wallet).  The run *)
(* is one transaction: it selects a batch of readers, writes off one after *)
(* the other, and goes on until a batch is not full; it keeps the rows it  *)
(* has written locked until its end.  Readers spend and top up meanwhile,  *)
(* which writes off their own lapsed bonus (module Wallet).                *)
(*                                                                         *)
(* A bonus lasts longer than a day, so no reader is written off twice on a *)
(* day, and the key of the write-off, which carries the date, is new.      *)
(***************************************************************************)
EXTENDS Integers, FiniteSets, FiniteSetsExt

CONSTANTS
    Saver,          \* readers, by user_id
    Batch,          \* readers selected at a time
    BonusTTL,       \* hours that a bonus lasts
    MaxHour, MaxGrants                              \* bounds for TLC

ASSUME ExpiryAssumption ==
    /\ Saver \subseteq Nat /\ IsFiniteSet(Saver) /\ Batch \in Nat \ {0}
    /\ BonusTTL \in Nat \ {0} /\ MaxHour \in Nat /\ MaxGrants \in Nat

VARIABLES
    bonus,      \* [Saver -> 0 for none, or the hour at which it lapses]
    job,        \* [step, now, size, batch, wrote]: the run, or how the last one ended
    hour,
    overtaken,  \* readers who spent or topped up since the run began
    grants, outages

expiryVars == <<bonus, job, hour, overtaken, grants, outages>>

(* "done" when the run has committed, "failed" when it returned an error.  *)
Over  == {"idle", "done", "failed"}
NoJob == [step |-> "idle", now |-> 0, size |-> 0, batch |-> {}, wrote |-> {}]

ExpiryInit ==
    /\ bonus \in [Saver -> {0, 1, 2}]
    /\ job = NoJob /\ hour = 1 /\ overtaken = {} /\ grants = 0 /\ outages = 0

-----------------------------------------------------------------------------
Lapsed(u, t) == bonus[u] # 0 /\ bonus[u] <= t

(* What the run sees of reader u: its own write-offs, too.  Of them it     *)
(* takes the first ones by user_id.                                        *)
Candidate(u) == u \notin job.wrote /\ Lapsed(u, job.now)
ExpiryCandidates ==
    LET all == {u \in Saver : Candidate(u)}
    IN  {u \in all : Cardinality({v \in all : v < u}) < Batch}

BeginRun ==
    /\ job.step \in Over
    /\ job' = [NoJob EXCEPT !.step = "select", !.now = hour]
    /\ overtaken' = {}
    /\ UNCHANGED <<bonus, hour, grants, outages>>

SelectBatch ==
    /\ job.step = "select"
    /\ job' = [job EXCEPT !.batch = ExpiryCandidates, !.step = "write",
                          !.size = Cardinality(ExpiryCandidates)]
    /\ UNCHANGED <<bonus, hour, overtaken, grants, outages>>

(* Apply locks the reader's row.  A bonus that has gone since the select   *)
(* is an error (planFor), and the error ends the run: all is rolled back.  *)
Ended(how) == job' = [NoJob EXCEPT !.step = how]
WriteOff ==
    /\ job.step = "write" /\ job.batch # {}
    /\ LET u == Min(job.batch)
       IN  IF Lapsed(u, job.now)
           THEN job' = [job EXCEPT !.batch = @ \ {u}, !.wrote = @ \cup {u},
                                   !.step = IF job.batch = {u} THEN "next" ELSE "write"]
           ELSE Ended("failed")
    /\ UNCHANGED <<bonus, hour, overtaken, grants, outages>>

(* A batch that was full may not have been the last.                       *)
(* Mutant: the run is one batch.                                           *)
OneBatch == TRUE
LastBatch == job.size < Batch
NextBatch ==
    /\ job.step = "next" /\ ~LastBatch
    /\ job' = [job EXCEPT !.step = "select"]
    /\ UNCHANGED <<bonus, hour, overtaken, grants, outages>>
CommitRun ==
    /\ \/ job.step = "next" /\ LastBatch
       \/ job.step = "write" /\ job.batch = {}
    /\ bonus' = [u \in Saver |-> IF u \in job.wrote THEN 0 ELSE bonus[u]]
    /\ Ended("done")
    /\ UNCHANGED <<hour, overtaken, grants, outages>>
RunFails ==
    /\ job.step \notin Over /\ outages = 0 /\ outages' = 1
    /\ Ended("failed")
    /\ UNCHANGED <<bonus, hour, overtaken, grants>>

(* A reader's own operations, once the run has let go of the row.          *)
Spend(u) ==
    /\ u \notin job.wrote /\ bonus[u] # 0
    /\ bonus' = [bonus EXCEPT ![u] = 0]
    /\ overtaken' = overtaken \cup {u}
    /\ UNCHANGED <<job, hour, grants, outages>>
TopUp(u) ==
    /\ u \notin job.wrote /\ grants < MaxGrants
    /\ grants' = grants + 1
    /\ bonus' = [bonus EXCEPT ![u] = hour + BonusTTL]
    /\ overtaken' = overtaken \cup {u}
    /\ UNCHANGED <<job, hour, outages>>
HourPasses ==
    /\ hour < MaxHour /\ hour' = hour + 1
    /\ UNCHANGED <<bonus, job, overtaken, grants, outages>>

ExpiryNext ==
    \/ BeginRun \/ SelectBatch \/ WriteOff \/ NextBatch \/ CommitRun \/ RunFails
    \/ \E u \in Saver : Spend(u) \/ TopUp(u)
    \/ HourPasses

ExpirySpec == ExpiryInit /\ [][ExpiryNext]_expiryVars

-----------------------------------------------------------------------------
(* A run that commits leaves no bonus that had lapsed when it began,       *)
(* whoever spends or tops up meanwhile and however many batches there are, *)
(* and it never takes one that had not.  It fails, and leaves them all,    *)
(* only because the database does or because a reader whom it had selected *)
(* and not yet written was faster (BonusExpiryJob.Run).                    *)
NightlyWriteOff ==
    [][job.step \notin Over /\ job'.step \in Over =>
         /\ \A u \in Saver : bonus'[u] # bonus[u] => Lapsed(u, job.now)
         /\ job'.step = "done" =>
              \A u \in Saver : bonus'[u] = 0 \/ bonus'[u] > job.now
         /\ job'.step = "failed" =>
              outages' # outages \/ overtaken \cap job.batch # {}]_expiryVars
=============================================================================
