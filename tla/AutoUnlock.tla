------------------------------ MODULE AutoUnlock ------------------------------
(***************************************************************************)
(* The auto-unlock fan-out (jobs/autounlock.go): every replica of the      *)
(* worker scans, once in a while, for subscribers who lack a chapter that  *)
(* was published since they subscribed, and debits each of them in a       *)
(* transaction of its own.  The advisory lock covers the scan only, so     *)
(* replicas debit, record and crash at the same time, on candidates whose  *)
(* price, cap and subscription may have changed since they were scanned.   *)
(*                                                                         *)
(* One novel.  A debit is one step on a wallet of spendable coins, as      *)
(* module Shop describes it and module Wallet implements it.               *)
(***************************************************************************)
EXTENDS Integers, FiniteSets

CONSTANTS
    Reader,          \* user ids; the scan orders by them
    Chapter,
    Replica,         \* workers that run the scheduler
    Price,           \* list prices
    Cap,             \* caps that readers set; 0 is no cap
    Opening,         \* [Reader -> Nat]: coins at the start
    TopUp,           \* coins that a top-up brings
    Batch, Window, RetryAfter, MaxAttempts,         \* the job's settings
    Events,          \* what readers and the translator do in this instance
    Faults,          \* what may go wrong in this instance
    MaxFaults, MaxTime, MaxCoins                    \* bounds for TLC

ASSUME SetAssumption   == /\ Reader \subseteq Nat
                          /\ IsFiniteSet(Reader)
                          /\ IsFiniteSet(Chapter)
                          /\ IsFiniteSet(Replica)
ASSUME MoneyAssumption == /\ Price \subseteq Nat
                          /\ Cap \subseteq Nat
                          /\ Opening \in [Reader -> Nat]
                          /\ TopUp \in Nat
ASSUME JobAssumption   == /\ Batch \in Nat \ {0}
                          /\ Window \in Nat
                          /\ RetryAfter \in Nat
                          /\ MaxAttempts \in Nat \ {0}
ASSUME FaultAssumption == Faults \subseteq {"crash", "record", "debit", "reply"}
ASSUME BoundAssumption == /\ MaxFaults \in Nat
                          /\ MaxTime \in Nat
                          /\ MaxCoins \in Nat

VARIABLES
    now,
    coins,      \* [Reader -> Nat]
    owned,      \* [Reader -> SUBSET Chapter]: chapter_unlocks
    auto,       \* [Reader -> SUBSET Chapter]: the keys autounlock:<user>:<chapter>
    sub,        \* [Reader -> Subscription \cup {NoSub}]
    sale,       \* [Chapter -> [price, published, at]]
    attempts,   \* [Pair -> attempt row]: auto_unlock_attempts
    notified,   \* SUBSET Pair: the notices "your wallet was short"
    tried,      \* [Pair -> Nat]: how often a run took the pair up, recorded or
                \* not, counted up to MaxTries
    job,        \* [Replica -> a run in progress or Idle]
    faults      \* how often something went wrong so far

vars == <<now, coins, owned, auto, sub, sale, attempts, notified, tried, job, faults>>
market  == <<sub, sale>>
readers == <<coins, owned, auto>>

-----------------------------------------------------------------------------

Pair         == Reader \X Chapter
Subscription == [active: BOOLEAN, cap: Nat, since: Nat]
NoSub        == [active |-> FALSE, cap |-> 0, since |-> -1]
Outcomes     == {"unlocked", "insufficient", "over_cap", "skipped"}
NoAttempt    == [outcome |-> "none", count |-> 0, at |-> 0]

AttemptRow   == [outcome: Outcomes \cup {"none"}, count: Nat, at: Nat]

(* A scanned pair, with the price, the cap and the publication time that   *)
(* the scan saw.                                                           *)
AutoUnlockCandidate == [user: Reader, chapter: Chapter, price: Nat, cap: Nat, at: Nat]

PairOf(c) == <<c.user, c.chapter>>
NoCandidate == [user |-> 0]

RunState == [step: {"idle", "next", "debit", "record"}, at: Nat,
             todo: SUBSET AutoUnlockCandidate,
             on: AutoUnlockCandidate \cup {NoCandidate},
             price: Nat, outcome: Outcomes \cup {"none"}]

Idle == [step |-> "idle", at |-> 0, todo |-> {}, on |-> NoCandidate,
         price |-> 0, outcome |-> "none"]

ForSale(c) == sale[c].published /\ sale[c].price > 0

(* Mutant: a lack of coins is tried again for ever.                        *)
MayTryForEver(p) ==
    \/ attempts[p] = NoAttempt
    \/ /\ attempts[p].outcome = "insufficient"
       /\ attempts[p].at <= now - RetryAfter

(* Nothing but a lack of coins is tried again, later and not for ever.     *)
MayTry(p) ==
    \/ attempts[p] = NoAttempt
    \/ /\ attempts[p].outcome = "insufficient"
       /\ attempts[p].count < MaxAttempts
       /\ attempts[p].at <= now - RetryAfter

(* The pairs that the scan selects, before its limit.                      *)
Due == {p \in Pair :
          LET u == p[1]
              c == p[2]
          IN  /\ sub[u].active
              /\ ForSale(c)
              /\ sale[c].at >= sub[u].since
              /\ sale[c].at >= now - Window
              /\ c \notin owned[u]
              /\ MayTry(p)}

Scanned(p) == [user |-> p[1], chapter |-> p[2], price |-> sale[p[2]].price,
               cap |-> sub[p[1]].cap, at |-> sale[p[2]].at]

(* The order of the scan, and of the run that works through it.            *)
Earlier(c, d) == c.at < d.at \/ (c.at = d.at /\ c.user < d.user)

-----------------------------------------------------------------------------
(* A run of the job.                                                       *)

(* The scan, in one transaction under the job's lock.  (A replica that     *)
(* does not get the lock does nothing.)                                    *)
AutoUnlockCandidates(r) ==
    LET all == {Scanned(p) : p \in Due}
    IN  /\ job[r] = Idle
        /\ \E todo \in SUBSET all :
              /\ Cardinality(todo) =
                    IF Cardinality(all) < Batch THEN Cardinality(all) ELSE Batch
              /\ \A c \in todo : \A d \in all \ todo : ~Earlier(d, c)
              /\ todo # {}
              /\ job' = [job EXCEPT ![r] = [Idle EXCEPT !.step = "next", !.at = now,
                                                        !.todo = todo]]
        /\ UNCHANGED <<now, readers, market, attempts, notified, tried, faults>>

(* Tries are counted up to here: so many would be too many (TriesBounded). *)
MaxTries == MaxAttempts + Cardinality(Replica) + MaxFaults

(* The run of r takes candidate c, its next one, to step "step".           *)
Take(r, c, step, price, outcome) ==
    /\ job[r].step = "next"
    /\ c \in job[r].todo
    /\ \A d \in job[r].todo : ~Earlier(d, c)
    /\ job' = [job EXCEPT ![r] =
                  [job[r] EXCEPT !.step = step, !.todo = job[r].todo \ {c},
                                 !.on = c, !.price = price, !.outcome = outcome]]
    /\ tried' = [tried EXCEPT ![PairOf(c)] = IF @ < MaxTries THEN @ + 1 ELSE @]
    /\ UNCHANGED <<now, readers, market, attempts, notified, faults>>

(* Mutant: no cap is taken for a cap of nothing.                           *)
OverCapOfZero(c) == c.price > c.cap

OverCap(c) == c.cap > 0 /\ c.price > c.cap

TakeOverCap(r, c) == OverCap(c) /\ Take(r, c, "record", 0, "over_cap")

(* AutoUnlockChapter reads the sale again before it builds its command.    *)
TakeNotForSale(r, c) ==
    /\ ~OverCap(c)
    /\ ~ForSale(c.chapter)
    /\ Take(r, c, "record", 0, "skipped")

TakeForSale(r, c) ==
    /\ ~OverCap(c)
    /\ ForSale(c.chapter)
    /\ Take(r, c, "debit", sale[c.chapter].price, "none")

(* The debit is over and has the outcome "outcome".                        *)
Decide(r, outcome) ==
    /\ job[r].step = "debit"
    /\ job' = [job EXCEPT ![r] = [job[r] EXCEPT !.step = "record", !.price = 0,
                                                !.outcome = outcome]]
    /\ UNCHANGED <<now, market, attempts, tried>>

(* Mutant: the wallet does not look whether the chapter is owned already.  *)
ChargeAgain(r) ==
    LET u == job[r].on.user
        c == job[r].on.chapter
    IN  /\ coins[u] >= job[r].price
        /\ coins' = [coins EXCEPT ![u] = @ - job[r].price]
        /\ owned' = [owned EXCEPT ![u] = @ \cup {c}]
        /\ auto'  = [auto  EXCEPT ![u] = @ \cup {c}]

Charge(r) ==
    LET u == job[r].on.user
        c == job[r].on.chapter
    IN  /\ c \notin owned[u]
        /\ coins[u] >= job[r].price
        /\ coins' = [coins EXCEPT ![u] = @ - job[r].price]
        /\ owned' = [owned EXCEPT ![u] = @ \cup {c}]
        /\ auto'  = [auto  EXCEPT ![u] = @ \cup {c}]

(* The key was used: an earlier attempt's debit is the answer.             *)
DebitReplay(r) ==
    /\ Decide(r, "unlocked")
    /\ job[r].on.chapter \in auto[job[r].on.user]
    /\ UNCHANGED <<readers, notified, faults>>

(* Mutant: a chapter that the reader bought meanwhile counts as unlocked.  *)
DebitOwnedAsUnlocked(r) ==
    /\ Decide(r, "unlocked")
    /\ job[r].on.chapter \in owned[job[r].on.user] \ auto[job[r].on.user]
    /\ UNCHANGED <<readers, notified, faults>>

DebitOwned(r) ==
    /\ Decide(r, "skipped")
    /\ job[r].on.chapter \in owned[job[r].on.user] \ auto[job[r].on.user]
    /\ UNCHANGED <<readers, notified, faults>>

DebitShort(r) ==
    /\ Decide(r, "insufficient")
    /\ job[r].on.chapter \notin owned[job[r].on.user]
    /\ coins[job[r].on.user] < job[r].price
    /\ notified' = notified \cup {PairOf(job[r].on)}
    /\ UNCHANGED <<readers, faults>>

DebitCommit(r) ==
    /\ Decide(r, "unlocked")
    /\ Charge(r)
    /\ UNCHANGED <<notified, faults>>

-----------------------------------------------------------------------------

Fault(kind) ==
    /\ kind \in Faults
    /\ faults < MaxFaults
    /\ faults' = faults + 1

(* Any other error counts as a lack of coins: the transaction failed, or   *)
(* it committed and the answer was lost.                                   *)
DebitFails(r) ==
    /\ Decide(r, "insufficient")
    /\ \/ Fault("debit") /\ UNCHANGED readers
       \/ Fault("reply") /\ Charge(r)
    /\ UNCHANGED notified

(* The run goes on to its next candidate, or ends.                         *)
Continue(r) ==
    /\ job[r].step = "record"
    /\ job' = [job EXCEPT ![r] =
                  IF job[r].todo = {} THEN Idle
                  ELSE [Idle EXCEPT !.step = "next", !.at = job[r].at,
                                    !.todo = job[r].todo]]
    /\ UNCHANGED <<now, readers, market, notified, tried>>

(* Mutant: a row that is there already is kept (DO NOTHING on conflict).   *)
RecordedFirst(row, outcome, at) ==
    IF row = NoAttempt THEN [outcome |-> outcome, count |-> 1, at |-> at] ELSE row

Recorded(row, outcome, at) ==
    [outcome |-> outcome, count |-> row.count + 1, at |-> at]

RecordAutoUnlockAttempt(r) ==
    /\ Continue(r)
    /\ attempts' = [attempts EXCEPT ![PairOf(job[r].on)] =
                      Recorded(@, job[r].outcome, job[r].at)]
    /\ UNCHANGED faults

(* The write of the attempt fails; that is logged, and the run goes on.    *)
RecordFails(r) == Continue(r) /\ Fault("record") /\ UNCHANGED attempts

Crash(r) ==
    /\ job[r] # Idle
    /\ Fault("crash")
    /\ job' = [job EXCEPT ![r] = Idle]
    /\ UNCHANGED <<now, readers, market, attempts, notified, tried>>

-----------------------------------------------------------------------------
(* Readers, the translator and the clock.                                  *)

(* Only the wallets change: a reader buys a chapter by hand or coins.      *)
UnlockChapter(u, c) ==
    /\ "buy" \in Events
    /\ ForSale(c)
    /\ c \notin owned[u]
    /\ coins[u] >= sale[c].price
    /\ coins' = [coins EXCEPT ![u] = @ - sale[c].price]
    /\ owned' = [owned EXCEPT ![u] = @ \cup {c}]
    /\ UNCHANGED <<now, auto, market, attempts, notified, tried, job, faults>>

CompletePurchase(u) ==
    /\ "topup" \in Events
    /\ coins[u] + TopUp <= MaxCoins
    /\ coins' = [coins EXCEPT ![u] = @ + TopUp]
    /\ UNCHANGED <<now, owned, auto, market, attempts, notified, tried, job, faults>>

Market(newSub, newSale) ==
    /\ sub' = newSub
    /\ sale' = newSale
    /\ UNCHANGED <<now, readers, attempts, notified, tried, job, faults>>

(* An upsert: a subscription that exists keeps the time it was created.    *)
UpsertSubscription(u, active, cap) ==
    /\ "subscribe" \in Events
    /\ Market([sub EXCEPT ![u] = [active |-> active, cap |-> cap,
                                  since |-> IF @ = NoSub THEN now ELSE @.since]], sale)

DeleteSubscription(u) ==
    /\ "cancel" \in Events
    /\ Market([sub EXCEPT ![u] = NoSub], sale)

PublishChapter(c) ==
    /\ "publish" \in Events
    /\ Market(sub, [sale EXCEPT ![c] = [price |-> @.price, published |-> TRUE,
                                      at |-> now]])

UnpublishChapter(c) ==
    /\ "unpublish" \in Events
    /\ Market(sub, [sale EXCEPT ![c] = [price |-> @.price, published |-> FALSE,
                                      at |-> 0]])

SetPrice(c, price) ==
    /\ "reprice" \in Events
    /\ Market(sub, [sale EXCEPT ![c].price = price])

Tick ==
    /\ now < MaxTime
    /\ now' = now + 1
    /\ UNCHANGED <<readers, market, attempts, notified, tried, job, faults>>

-----------------------------------------------------------------------------

Init ==
    /\ now = 0
    /\ coins = Opening
    /\ owned = [u \in Reader |-> {}]
    /\ auto = [u \in Reader |-> {}]
    /\ sub \in [Reader -> {NoSub} \cup
                          {[active |-> TRUE, cap |-> cap, since |-> 0] : cap \in Cap}]
    /\ \E price \in [Chapter -> Price] :
          sale = [c \in Chapter |-> [price |-> price[c], published |-> FALSE, at |-> 0]]
    /\ attempts = [p \in Pair |-> NoAttempt]
    /\ notified = {}
    /\ tried = [p \in Pair |-> 0]
    /\ job = [r \in Replica |-> Idle]
    /\ faults = 0

Debit(r) == \/ DebitReplay(r)
            \/ DebitOwned(r)
            \/ DebitShort(r)
            \/ DebitCommit(r)

(* What a run does when nothing goes wrong.                                *)
Run(r) == \/ AutoUnlockCandidates(r)
          \/ \E c \in job[r].todo : \/ TakeOverCap(r, c)
                                    \/ TakeNotForSale(r, c)
                                    \/ TakeForSale(r, c)
          \/ Debit(r)
          \/ RecordAutoUnlockAttempt(r)

Next ==
    \/ \E r \in Replica : Run(r) \/ DebitFails(r) \/ RecordFails(r) \/ Crash(r)
    \/ \E u \in Reader : \/ \E c \in Chapter : UnlockChapter(u, c)
                         \/ CompletePurchase(u)
                         \/ \E active \in BOOLEAN, cap \in Cap :
                               UpsertSubscription(u, active, cap)
                         \/ DeleteSubscription(u)
    \/ \E c \in Chapter : \/ PublishChapter(c)
                          \/ UnpublishChapter(c)
                          \/ \E price \in Price : SetPrice(c, price)
    \/ Tick

Spec == Init /\ [][Next]_vars

(* The scheduler starts the job again and again on every replica that is   *)
(* up, and a run that does not crash goes on to its end.  Nothing is       *)
(* assumed of readers, translators or faults.                              *)
FairSpec == Spec /\ \A r \in Replica : WF_vars(Run(r))

-----------------------------------------------------------------------------

TypeOK ==
    /\ now \in 0 .. MaxTime
    /\ coins \in [Reader -> Nat]
    /\ owned \in [Reader -> SUBSET Chapter]
    /\ auto \in [Reader -> SUBSET Chapter]
    /\ sub \in [Reader -> Subscription \cup {NoSub}]
    /\ sale \in [Chapter -> [price: Nat, published: BOOLEAN, at: Nat]]
    /\ attempts \in [Pair -> AttemptRow]
    /\ notified \subseteq Pair
    /\ tried \in [Pair -> Nat]
    /\ job \in [Replica -> RunState]
    /\ faults \in 0 .. MaxFaults

(* The job does not nag on: a pair is taken up MaxAttempts times, once     *)
(* more for every other replica that had it in hand already when the last  *)
(* of them was recorded, and once more for every fault (a crash, an        *)
(* attempt whose record was lost), for such a try is not in the log.       *)
TriesBounded ==
    \A p \in Pair : tried[p] < MaxAttempts + Cardinality(Replica) + faults

(* The log says "unlocked" only of a chapter that an auto-unlock debited   *)
(* and that the reader owns, also when the reader bought it at the same    *)
(* time or another replica was faster.                                     *)
LogTruthful ==
    \A p \in Pair : attempts[p].outcome = "unlocked" =>
        p[2] \in auto[p[1]] /\ p[2] \in owned[p[1]]

(* Nobody pays for a chapter that they have: coins only leave a wallet in  *)
(* a step that gives its reader a chapter they did not have, at its price  *)
(* of the moment or one that a run in progress read.                       *)
PaysForNewChapters ==
    [][\A u \in Reader : coins'[u] < coins[u] =>
          \E c \in owned'[u] \ owned[u] :
             coins[u] - coins'[u] \in {sale[c].price} \cup
                {job[r].price : r \in {q \in Replica : job[q].on.user = u}}]_vars

(* The scan drains: every pair that is due is decided (or stops being due),*)
(* although a batch is small, some readers are always short of coins, runs *)
(* crash and attempts fail to be recorded.                                 *)
EveryPairDecided == \A p \in Pair : p \in Due ~> p \notin Due

(* A subscriber lacks a chapter published since they subscribed, although  *)
(* their wallet holds the price of every chapter and their cap allows it.  *)
Missing(p) ==
    LET u == p[1]
        c == p[2]
    IN  /\ sub[u].active
        /\ ForSale(c)
        /\ sale[c].at >= sub[u].since
        /\ c \notin owned[u]
        /\ coins[u] >= sale[c].price * Cardinality(Chapter)
        /\ sub[u].cap = 0 \/ sub[u].cap >= sale[c].price

(* Who misses a chapter that was not tried yet gets it, crashes of the     *)
(* worker notwithstanding (unless a run has found them short before they   *)
(* topped up, and is about to record that).                                *)
Untried(p) ==
    /\ attempts[p] = NoAttempt
    /\ ~\E r \in Replica : /\ job[r].outcome = "insufficient"
                           /\ PairOf(job[r].on) = p

PayingSubscriberServed ==
    \A p \in Pair : Missing(p) /\ Untried(p) ~> p[2] \in owned[p[1]]

(* Documented, but not so: a reader never pays more for an auto-unlock     *)
(* than the cap they set (the cap is compared with the price of the scan,  *)
(* the price paid is read later).                                          *)
AutoDebitWithinCap ==
    [][\A u \in Reader : auto'[u] # auto[u] /\ sub[u].active /\ sub[u].cap > 0 =>
          coins[u] - coins'[u] <= sub[u].cap]_vars
=============================================================================
