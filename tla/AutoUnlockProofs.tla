--------------------------- MODULE AutoUnlockProofs ---------------------------
(***************************************************************************)
(* Proofs about AutoUnlock, for any number of readers, chapters, replicas, *)
(* faults and attempts.                                                    *)
(***************************************************************************)
EXTENDS AutoUnlock, FiniteSetTheorems, TLAPS

(* The steps of Next that are not steps of a replica.                      *)
Outside ==
    \/ \E u \in Reader : \/ \E c \in Chapter : UnlockChapter(u, c)
                         \/ CompletePurchase(u)
                         \/ \E active \in BOOLEAN, cap \in Cap :
                               UpsertSubscription(u, active, cap)
                         \/ DeleteSubscription(u)
    \/ \E c \in Chapter : \/ PublishChapter(c)
                          \/ UnpublishChapter(c)
                          \/ \E price \in Price : SetPrice(c, price)
    \/ Tick

(* The steps of a replica by what they change.                             *)
Taking(r)   == \E c \in job[r].todo : \/ TakeOverCap(r, c)
                                      \/ TakeNotForSale(r, c)
                                      \/ TakeForSale(r, c)
Deciding(r) == Debit(r) \/ DebitFails(r)

LEMMA NextSteps ==
    ASSUME Next
    PROVE  \/ Outside
           \/ \E r \in Replica : \/ AutoUnlockCandidates(r)
                                 \/ Taking(r)
                                 \/ Deciding(r)
                                 \/ RecordAutoUnlockAttempt(r)
                                 \/ RecordFails(r)
                                 \/ Crash(r)
  BY DEF Next, Outside, Run, Taking, Deciding

-----------------------------------------------------------------------------
(* Type correctness.                                                       *)

LEMMA IdleOK == Idle \in RunState
  BY DEF Idle, RunState

LEMMA TypeInit == Init => TypeOK
<1> SUFFICES ASSUME Init PROVE TypeOK
  OBVIOUS
<1>1. sub \in [Reader -> Subscription \cup {NoSub}]
  <2>1. \A cap \in Cap : [active |-> TRUE, cap |-> cap, since |-> 0] \in Subscription
    BY MoneyAssumption DEF Subscription
  <2> QED BY <2>1 DEF Init
<1>2. sale \in [Chapter -> [price: Nat, published: BOOLEAN, at: Nat]]
  <2>1. PICK price \in [Chapter -> Price] :
           sale = [c \in Chapter |-> [price |-> price[c], published |-> FALSE, at |-> 0]]
    BY DEF Init
  <2>2. \A c \in Chapter : price[c] \in Nat
    BY MoneyAssumption
  <2> QED BY <2>1, <2>2
<1>3. NoAttempt \in AttemptRow
  BY DEF NoAttempt, AttemptRow
<1> QED BY <1>1, <1>2, <1>3, IdleOK, MoneyAssumption, BoundAssumption DEF Init, TypeOK

LEMMA ScannedType ==
    ASSUME TypeOK, NEW p \in Pair, sub[p[1]].active
    PROVE  Scanned(p) \in AutoUnlockCandidate /\ PairOf(Scanned(p)) = p
<1>1. p[1] \in Reader /\ p[2] \in Chapter /\ p = <<p[1], p[2]>>
  BY DEF Pair
<1>2. sub[p[1]].cap \in Nat /\ sale[p[2]].price \in Nat /\ sale[p[2]].at \in Nat
  BY <1>1 DEF TypeOK, Subscription, NoSub
<1> QED BY <1>1, <1>2 DEF Scanned, AutoUnlockCandidate, PairOf

LEMMA CandidatePair ==
    ASSUME NEW c \in AutoUnlockCandidate
    PROVE  PairOf(c) \in Pair
  BY DEF AutoUnlockCandidate, PairOf, Pair

(* What a charge does to the wallets.                                      *)
LEMMA ChargeType ==
    ASSUME TypeOK, NEW r \in Replica, job[r].step = "debit",
           job[r].on \in AutoUnlockCandidate, Charge(r)
    PROVE  /\ coins' \in [Reader -> Nat]
           /\ owned' \in [Reader -> SUBSET Chapter]
           /\ auto'  \in [Reader -> SUBSET Chapter]
<1>1. job[r].on.user \in Reader /\ job[r].on.chapter \in Chapter
  BY DEF AutoUnlockCandidate
<1>2. job[r].price \in Nat
  BY DEF TypeOK, RunState
<1>3. coins[job[r].on.user] - job[r].price \in Nat
  BY <1>1, <1>2 DEF TypeOK, Charge
<1> QED BY <1>1, <1>3 DEF TypeOK, Charge

(* A run that works on a candidate really has one, has it once, and does   *)
(* not have it in its list any more.                                       *)
RunOK(x) ==
    /\ x.step = "idle" => x.todo = {}
    /\ \A c, d \in x.todo : PairOf(c) = PairOf(d) => c = d
    /\ x.step \in {"debit", "record"} =>
          /\ x.on \in AutoUnlockCandidate
          /\ \A c \in x.todo : PairOf(c) # PairOf(x.on)
    /\ x.step = "record" => x.outcome \in Outcomes

RunsOK == \A r \in Replica : RunOK(job[r])

Known == TypeOK /\ RunsOK

LEMMA KnownInit == Init => Known
<1>1. RunOK(Idle)
  BY DEF RunOK, Idle
<1> QED BY <1>1, TypeInit DEF Init, Known, RunsOK

LEMMA OutsideKnown == ASSUME Known, Outside PROVE Known'
<1> USE DEF Known
<1>1. ASSUME NEW u \in Reader, NEW c \in Chapter, UnlockChapter(u, c) PROVE Known'
  <2>1. coins[u] - sale[c].price \in Nat
    BY <1>1 DEF UnlockChapter, TypeOK
  <2> QED BY <1>1, <2>1 DEF UnlockChapter, TypeOK, market, RunsOK
<1>2. ASSUME NEW u \in Reader, CompletePurchase(u) PROVE Known'
  BY <1>2, MoneyAssumption DEF CompletePurchase, TypeOK, market, RunsOK
<1>3. ASSUME NEW u \in Reader, NEW active \in BOOLEAN, NEW cap \in Cap,
             UpsertSubscription(u, active, cap)
      PROVE  Known'
  <2>1. (IF sub[u] = NoSub THEN now ELSE sub[u].since) \in Nat
    BY DEF TypeOK, Subscription, NoSub
  <2>2. cap \in Nat
    BY MoneyAssumption
  <2>3. sub' \in [Reader -> Subscription \cup {NoSub}]
    BY <1>3, <2>1, <2>2 DEF UpsertSubscription, Market, TypeOK, Subscription
  <2> QED BY <1>3, <2>3 DEF UpsertSubscription, Market, TypeOK, readers, RunsOK
<1>4. ASSUME NEW u \in Reader, DeleteSubscription(u) PROVE Known'
  BY <1>4 DEF DeleteSubscription, Market, TypeOK, readers, RunsOK
<1>5. ASSUME NEW c \in Chapter, PublishChapter(c) \/ UnpublishChapter(c) PROVE Known'
  <2>1. now \in Nat
    BY BoundAssumption DEF TypeOK
  <2>2. sale' \in [Chapter -> [price: Nat, published: BOOLEAN, at: Nat]]
    <3>1. PICK x \in [price: Nat, published: BOOLEAN, at: Nat] :
             sale' = [sale EXCEPT ![c] = x]
      <4>1. /\ [price |-> sale[c].price, published |-> TRUE, at |-> now]
                  \in [price: Nat, published: BOOLEAN, at: Nat]
            /\ [price |-> sale[c].price, published |-> FALSE, at |-> 0]
                  \in [price: Nat, published: BOOLEAN, at: Nat]
        BY <2>1 DEF TypeOK
      <4> QED BY <1>5, <4>1 DEF PublishChapter, UnpublishChapter, Market
    <3> QED BY <3>1 DEF TypeOK
  <2> QED BY <1>5, <2>2 DEF PublishChapter, UnpublishChapter, Market, TypeOK,
             readers, RunsOK
<1>6. ASSUME NEW c \in Chapter, NEW price \in Price, SetPrice(c, price) PROVE Known'
  BY <1>6, MoneyAssumption DEF SetPrice, Market, TypeOK, readers, RunsOK
<1>7. CASE Tick
  BY <1>7, BoundAssumption DEF Tick, TypeOK, readers, market, RunsOK
<1> QED BY <1>1, <1>2, <1>3, <1>4, <1>5, <1>6, <1>7 DEF Outside

LEMMA ScanKnown ==
    ASSUME Known, NEW r \in Replica, AutoUnlockCandidates(r)
    PROVE  Known'
<1>1. PICK todo \in SUBSET {Scanned(p) : p \in Due} :
         job' = [job EXCEPT ![r] = [Idle EXCEPT !.step = "next", !.at = now,
                                                !.todo = todo]]
  BY Zenon DEF AutoUnlockCandidates
<1>2. \A c \in todo : \E p \in Due : c = Scanned(p)
  BY <1>1
<1>3. \A p \in Due : p \in Pair /\ sub[p[1]].active
  BY DEF Due
<1>4. \A p \in Due : Scanned(p) \in AutoUnlockCandidate /\ PairOf(Scanned(p)) = p
  BY <1>3, ScannedType DEF Known
<1>5. todo \subseteq AutoUnlockCandidate
  BY <1>2, <1>4
<1>6. \A c, d \in todo : PairOf(c) = PairOf(d) => c = d
  BY <1>2, <1>4
<1>7. now \in Nat
  BY BoundAssumption DEF Known, TypeOK
<1> DEFINE x == [Idle EXCEPT !.step = "next", !.at = now, !.todo = todo]
<1>8. x \in RunState /\ RunOK(x)
  BY <1>5, <1>6, <1>7 DEF Idle, RunState, RunOK
<1> HIDE DEF x
<1>9. job' = [job EXCEPT ![r] = x]
  BY <1>1 DEF x
<1> QED BY <1>8, <1>9 DEF Known, TypeOK, RunsOK, AutoUnlockCandidates, readers, market

LEMMA TakeKnown ==
    ASSUME Known, NEW r \in Replica, Taking(r)
    PROVE  Known'
<1>1. PICK c \in job[r].todo, step \in {"debit", "record"}, price \in Nat,
           outcome \in Outcomes \cup {"none"} :
         /\ Take(r, c, step, price, outcome)
         /\ step = "record" => outcome \in Outcomes
  <2>1. ASSUME NEW c \in job[r].todo, TakeForSale(r, c)
        PROVE  sale[c.chapter].price \in Nat
    BY <2>1 DEF Known, TypeOK, RunState, AutoUnlockCandidate
  <2> QED BY <2>1 DEF Taking, TakeOverCap, TakeNotForSale, TakeForSale, Outcomes
<1>2. /\ job[r] \in RunState /\ RunOK(job[r])
      /\ c \in AutoUnlockCandidate
  BY DEF Known, TypeOK, RunsOK, RunState
<1> DEFINE x == [job[r] EXCEPT !.step = step, !.todo = job[r].todo \ {c},
                               !.on = c, !.price = price, !.outcome = outcome]
<1>3. x \in RunState
  BY <1>1, <1>2 DEF RunState
<1>4. RunOK(x)
  BY <1>1, <1>2 DEF RunState, RunOK
<1> HIDE DEF x
<1>5. job' = [job EXCEPT ![r] = x]
  BY <1>1 DEF Take, x
<1>6. tried' \in [Pair -> Nat]
  BY <1>1, <1>2, CandidatePair DEF Take, Known, TypeOK
<1> QED BY <1>1, <1>3, <1>4, <1>5, <1>6 DEF Known, TypeOK, RunsOK, Take, readers, market

LEMMA DecideKnown ==
    ASSUME Known, NEW r \in Replica, Deciding(r)
    PROVE  Known'
<1>1. PICK outcome \in Outcomes : Decide(r, outcome)
  BY DEF Deciding, Debit, DebitReplay, DebitOwned, DebitShort, DebitCommit,
         DebitFails, Outcomes
<1>2. /\ job[r] \in RunState /\ RunOK(job[r])
      /\ job[r].step = "debit"
      /\ job[r].on \in AutoUnlockCandidate
  BY <1>1 DEF Known, TypeOK, RunsOK, RunOK, Decide
<1> DEFINE x == [job[r] EXCEPT !.step = "record", !.price = 0, !.outcome = outcome]
<1>3. x \in RunState /\ RunOK(x)
  BY <1>1, <1>2 DEF RunState, RunOK
<1> HIDE DEF x
<1>4. job' = [job EXCEPT ![r] = x]
  BY <1>1 DEF Decide, x
<1>5. /\ coins' \in [Reader -> Nat]
      /\ owned' \in [Reader -> SUBSET Chapter]
      /\ auto'  \in [Reader -> SUBSET Chapter]
  BY <1>2, ChargeType DEF Deciding, Debit, DebitReplay, DebitOwned, DebitShort,
     DebitCommit, DebitFails, readers, Known, TypeOK
<1>6. notified' \subseteq Pair /\ faults' \in 0 .. MaxFaults
  BY <1>2, CandidatePair, BoundAssumption DEF Deciding, Debit, DebitReplay,
     DebitOwned, DebitShort, DebitCommit, DebitFails, Fault, Known, TypeOK
<1> QED BY <1>1, <1>3, <1>4, <1>5, <1>6 DEF Known, TypeOK, RunsOK, Decide, market

(* The state of a run that goes on, or ends, is well formed.               *)
LEMMA ContinueKnown ==
    ASSUME Known, NEW r \in Replica, Continue(r)
    PROVE  /\ job' \in [Replica -> RunState] /\ RunsOK'
           /\ job[r].on \in AutoUnlockCandidate
           /\ job[r].outcome \in Outcomes
<1>1. job[r] \in RunState /\ RunOK(job[r]) /\ job[r].step = "record"
  BY DEF Known, TypeOK, RunsOK, Continue
<1> DEFINE x == IF job[r].todo = {} THEN Idle
                ELSE [Idle EXCEPT !.step = "next", !.at = job[r].at,
                                  !.todo = job[r].todo]
<1>2. x \in RunState /\ RunOK(x)
  BY <1>1 DEF RunState, RunOK, Idle
<1> HIDE DEF x
<1>3. job' = [job EXCEPT ![r] = x]
  BY DEF Continue, x
<1> QED BY <1>1, <1>2, <1>3 DEF Known, TypeOK, RunsOK, RunOK

LEMMA RecordKnown ==
    ASSUME Known, NEW r \in Replica, RecordAutoUnlockAttempt(r) \/ RecordFails(r)
    PROVE  Known'
<1>1. Continue(r)
  BY DEF RecordAutoUnlockAttempt, RecordFails
<1>2. /\ job' \in [Replica -> RunState] /\ RunsOK'
      /\ job[r].on \in AutoUnlockCandidate
      /\ job[r].outcome \in Outcomes
  BY <1>1, ContinueKnown
<1>3. attempts' \in [Pair -> AttemptRow]
  <2>1. PairOf(job[r].on) \in Pair /\ job[r].at \in Nat
    BY <1>2, CandidatePair DEF Known, TypeOK, RunState
  <2>2. Recorded(attempts[PairOf(job[r].on)], job[r].outcome, job[r].at) \in AttemptRow
    BY <1>2, <2>1 DEF Recorded, AttemptRow, Known, TypeOK
  <2> QED BY <2>1, <2>2 DEF RecordAutoUnlockAttempt, RecordFails, Known, TypeOK
<1>4. faults' \in 0 .. MaxFaults
  BY BoundAssumption DEF RecordAutoUnlockAttempt, RecordFails, Fault, Known, TypeOK
<1> QED BY <1>1, <1>2, <1>3, <1>4 DEF Continue, Known, TypeOK, readers, market

LEMMA CrashKnown == ASSUME Known, NEW r \in Replica, Crash(r) PROVE Known'
<1>1. Idle \in RunState /\ RunOK(Idle)
  BY DEF Idle, RunState, RunOK
<1> QED BY <1>1, BoundAssumption DEF Crash, Fault, Known, TypeOK, RunsOK, readers, market

LEMMA KnownNext == Known /\ [Next]_vars => Known'
<1> SUFFICES ASSUME Known, [Next]_vars PROVE Known'
  OBVIOUS
<1>1. CASE UNCHANGED vars
  BY <1>1 DEF vars, Known, TypeOK, RunsOK
<1>2. CASE Next
  BY <1>2, NextSteps, OutsideKnown, ScanKnown, TakeKnown, DecideKnown, RecordKnown,
     CrashKnown
<1> QED BY <1>1, <1>2

(* Every reachable state is well typed; no interleaving of replicas,       *)
(* purchases and faults takes more coins from a wallet than it holds.      *)
THEOREM KnownCorrect == Spec => []Known
<1> QED BY KnownInit, KnownNext, PTL DEF Spec

THEOREM AutoUnlockTypeCorrect == Spec => []TypeOK
<1>1. Known => TypeOK
  BY DEF Known
<1> QED BY <1>1, KnownCorrect, PTL

-----------------------------------------------------------------------------
(* The bound on tries.                                                     *)

(* The replicas that still have to record an attempt of pair p.            *)
Holds(x, p) ==
    \/ \E c \in x.todo : PairOf(c) = p
    \/ x.step \in {"debit", "record"} /\ PairOf(x.on) = p

Holders(p) == {r \in Replica : Holds(job[r], p)}

(* Every attempt that is recorded or in hand counts.                       *)
Bounded(p) ==
    attempts[p].count + Cardinality(Holders(p)) < MaxAttempts + Cardinality(Replica)

AllBounded == \A p \in Pair : Bounded(p)

LEMMA HoldersFinite ==
    ASSUME NEW p \in Pair
    PROVE  /\ Cardinality(Replica) \in Nat
           /\ IsFiniteSet(Holders(p)) /\ Cardinality(Holders(p)) \in Nat
           /\ Cardinality(Holders(p)) <= Cardinality(Replica)
  BY SetAssumption, FS_CardinalityType, FS_Subset DEF Holders

LEMMA BoundedInit == Init => AllBounded
<1> SUFFICES ASSUME Init, NEW p \in Pair PROVE Bounded(p)
  BY DEF AllBounded
<1>1. Holders(p) = {}
  BY DEF Init, Holders, Holds, Idle
<1>2. attempts[p].count = 0
  BY DEF Init, NoAttempt
<1>3. Cardinality(Holders(p)) = 0 /\ Cardinality(Replica) \in Nat
  BY <1>1, FS_EmptySet, HoldersFinite
<1> QED BY <1>2, <1>3, JobAssumption DEF Bounded

(* Nobody takes the pair in hand and nobody records it.                    *)
LEMMA BoundedKept ==
    ASSUME Known, AllBounded, NEW p \in Pair, attempts'[p].count = attempts[p].count,
           \A q \in Replica : Holds(job'[q], p) => Holds(job[q], p)
    PROVE  Bounded(p)'
<1>1. Holders(p)' \subseteq Holders(p)
  BY DEF Holders
<1>2. Cardinality(Holders(p)') <= Cardinality(Holders(p))
      /\ Cardinality(Holders(p)') \in Nat
  BY <1>1, HoldersFinite, FS_Subset, FS_CardinalityType
<1>3. attempts[p].count \in Nat
  BY DEF Known, TypeOK, AttemptRow
<1> HIDE DEF Holders
<1> QED BY <1>2, <1>3, HoldersFinite, JobAssumption DEF Bounded, AllBounded

LEMMA ScanBounded ==
    ASSUME Known, AllBounded, NEW r \in Replica, AutoUnlockCandidates(r)
    PROVE  AllBounded'
<1> SUFFICES ASSUME NEW p \in Pair PROVE Bounded(p)'
  BY DEF AllBounded
<1>1. PICK todo \in SUBSET {Scanned(q) : q \in Due} :
         job' = [job EXCEPT ![r] = [Idle EXCEPT !.step = "next", !.at = now,
                                                !.todo = todo]]
  BY Zenon DEF AutoUnlockCandidates
<1>2. attempts' = attempts
  BY DEF AutoUnlockCandidates
<1>3. attempts[p].count \in Nat
  BY DEF Known, TypeOK, AttemptRow
<1>4. CASE p \in Due
  <2>1. attempts[p].count < MaxAttempts
    BY <1>4, JobAssumption DEF Due, MayTry, NoAttempt
  <2>2. /\ Holders(p)' \subseteq Replica
        /\ Cardinality(Holders(p)') \in Nat
        /\ Cardinality(Holders(p)') <= Cardinality(Replica)
    BY SetAssumption, FS_CardinalityType, FS_Subset DEF Holders
  <2> HIDE DEF Holders
  <2> QED BY <1>2, <1>3, <2>1, <2>2, HoldersFinite, JobAssumption DEF Bounded
<1>5. CASE p \notin Due
  <2>1. \A c \in todo : PairOf(c) # p
    <3>1. \A q \in Due : PairOf(Scanned(q)) = q
      BY ScannedType DEF Due, Known
    <3> QED BY <1>5, <3>1
  <2>2. ~Holds(job'[r], p)
    BY <1>1, <2>1 DEF Known, TypeOK, Holds, Idle
  <2>3. \A q \in Replica \ {r} : job'[q] = job[q]
    BY <1>1 DEF Known, TypeOK
  <2> QED BY <1>2, <2>2, <2>3, BoundedKept
<1> QED BY <1>4, <1>5

LEMMA TakeBounded ==
    ASSUME Known, AllBounded, NEW r \in Replica, Taking(r) \/ Deciding(r) \/ Crash(r)
    PROVE  AllBounded'
<1> SUFFICES ASSUME NEW p \in Pair PROVE Bounded(p)'
  BY DEF AllBounded
<1>1. attempts' = attempts
  BY DEF Taking, TakeOverCap, TakeNotForSale, TakeForSale, Take, Deciding, Debit,
     DebitReplay, DebitOwned, DebitShort, DebitCommit, DebitFails, Decide, Crash
<1>2. \A q \in Replica \ {r} : job'[q] = job[q]
  BY DEF Taking, TakeOverCap, TakeNotForSale, TakeForSale, Take, Deciding, Debit,
     DebitReplay, DebitOwned, DebitShort, DebitCommit, DebitFails, Decide, Crash,
     Known, TypeOK
<1>3. Holds(job'[r], p) => Holds(job[r], p)
  <2>1. CASE Taking(r)
    <3>1. PICK c, step, price, outcome :
           c \in job[r].todo /\ Take(r, c, step, price, outcome)
      BY <2>1 DEF Taking, TakeOverCap, TakeNotForSale, TakeForSale
    <3>2. c \in job[r].todo /\ job'[r].todo = job[r].todo \ {c} /\ job'[r].on = c
      BY <3>1 DEF Take, Known, TypeOK, RunState
    <3> QED BY <3>2 DEF Holds
  <2>2. CASE Deciding(r)
    <3>1. PICK outcome : Decide(r, outcome)
      BY <2>2 DEF Deciding, Debit, DebitReplay, DebitOwned, DebitShort, DebitCommit,
         DebitFails
    <3>2. /\ job'[r].todo = job[r].todo /\ job'[r].on = job[r].on
          /\ job[r].step = "debit"
      BY <3>1 DEF Decide, Known, TypeOK, RunState
    <3> QED BY <3>2 DEF Holds
  <2>3. CASE Crash(r)
    BY <2>3 DEF Crash, Known, TypeOK, Holds, Idle
  <2> QED BY <2>1, <2>2, <2>3
<1> QED BY <1>1, <1>2, <1>3, BoundedKept

(* What goes on without its candidate does not hold it any more.           *)
LEMMA ContinueHolds ==
    ASSUME Known, NEW r \in Replica, Continue(r)
    PROVE  /\ PairOf(job[r].on) \in Pair
           /\ Holds(job[r], PairOf(job[r].on)) /\ ~Holds(job'[r], PairOf(job[r].on))
           /\ \A p \in Pair : Holds(job'[r], p) => Holds(job[r], p)
           /\ \A q \in Replica \ {r} : job'[q] = job[q]
<1>1. job[r] \in RunState /\ RunOK(job[r]) /\ job[r].step = "record"
  BY DEF Known, TypeOK, RunsOK, Continue
<1>2. /\ job[r].on \in AutoUnlockCandidate
      /\ \A c \in job[r].todo : PairOf(c) # PairOf(job[r].on)
  BY <1>1 DEF RunOK
<1>3. job'[r].todo = job[r].todo /\ job'[r].step \in {"idle", "next"}
  BY DEF Continue, Known, TypeOK, Idle
<1>4. \A q \in Replica \ {r} : job'[q] = job[q]
  BY DEF Continue, Known, TypeOK
<1> QED BY <1>1, <1>2, <1>3, <1>4, CandidatePair DEF Holds

LEMMA RecordBounded ==
    ASSUME Known, AllBounded, NEW r \in Replica,
           RecordAutoUnlockAttempt(r) \/ RecordFails(r)
    PROVE  AllBounded'
<1>1. Continue(r)
  BY DEF RecordAutoUnlockAttempt, RecordFails
<1>9. PICK p \in Pair : p = PairOf(job[r].on)
  BY <1>1, ContinueHolds
<1>2. p \in Pair /\ Holds(job[r], p) /\ ~Holds(job'[r], p)
  BY <1>1, <1>9, ContinueHolds
<1>3. \A q \in Pair : \A s \in Replica : Holds(job'[s], q) => Holds(job[s], q)
  BY <1>1, ContinueHolds
<1>4. \A q \in Pair \ {p} : attempts'[q] = attempts[q]
  BY <1>2, <1>9 DEF RecordAutoUnlockAttempt, RecordFails, Known, TypeOK
<1>5. ASSUME NEW q \in Pair, q # p PROVE Bounded(q)'
  BY <1>3, <1>4, <1>5, BoundedKept
<1>6. Bounded(p)'
  <2>1. /\ attempts[p].count \in Nat
        /\ attempts'[p].count \in {attempts[p].count, attempts[p].count + 1}
    BY <1>2, <1>9 DEF RecordAutoUnlockAttempt, RecordFails, Recorded, Known, TypeOK, AttemptRow
  <2>2. Holders(p)' \subseteq Holders(p) \ {r} /\ r \in Holders(p)
    BY <1>2, <1>3 DEF Holders
  <2>3. /\ IsFiniteSet(Holders(p) \ {r})
        /\ Cardinality(Holders(p) \ {r}) = Cardinality(Holders(p)) - 1
    BY <1>2, <2>2, HoldersFinite, FS_RemoveElement
  <2>4. /\ Cardinality(Holders(p)') \in Nat
        /\ Cardinality(Holders(p)') <= Cardinality(Holders(p)) - 1
    BY <2>2, <2>3, FS_Subset, FS_CardinalityType
  <2>5. Bounded(p)
    BY <1>2 DEF AllBounded
  <2> HIDE DEF Holders
  <2> QED BY <1>2, <2>1, <2>4, <2>5, HoldersFinite, JobAssumption DEF Bounded
<1> QED BY <1>5, <1>6 DEF AllBounded

LEMMA BoundedNext == Known /\ AllBounded /\ [Next]_vars => AllBounded'
<1> SUFFICES ASSUME Known, AllBounded, [Next]_vars PROVE AllBounded'
  OBVIOUS
<1>1. CASE UNCHANGED <<attempts, job>>
  <2>1. \A p \in Pair : Bounded(p)'
    BY <1>1, BoundedKept
  <2> QED BY <2>1 DEF AllBounded
<1>2. CASE Outside
  BY <1>1, <1>2 DEF Outside, UnlockChapter, CompletePurchase, UpsertSubscription,
     DeleteSubscription, PublishChapter, UnpublishChapter, SetPrice, Market, Tick
<1>3. CASE UNCHANGED vars
  BY <1>1, <1>3 DEF vars
<1> QED BY <1>2, <1>3, NextSteps, ScanBounded, TakeBounded, RecordBounded

(* The replicas that have taken pair p up and did not record it yet.       *)
Working(p) == {r \in Replica : job[r].step \in {"debit", "record"} /\ PairOf(job[r].on) = p}

(* A try is recorded, or about to be, or a fault kept it out of the log.   *)
Counted(p) == tried[p] <= attempts[p].count + Cardinality(Working(p)) + faults

AllCounted == \A p \in Pair : Counted(p)

LEMMA WorkingFinite ==
    ASSUME NEW p \in Pair
    PROVE  /\ IsFiniteSet(Working(p)) /\ Cardinality(Working(p)) \in Nat
           /\ Cardinality(Working(p)) <= Cardinality(Holders(p))
<1>1. Working(p) \subseteq Holders(p)
  BY DEF Working, Holders, Holds
<1> QED BY <1>1, HoldersFinite, FS_Subset, FS_CardinalityType

LEMMA CountedInit == Init => AllCounted
<1> SUFFICES ASSUME Init, NEW p \in Pair PROVE Counted(p)
  BY DEF AllCounted
<1>1. Cardinality(Working(p)) \in Nat
  BY WorkingFinite
<1> QED BY <1>1 DEF Init, Counted, NoAttempt

(* What a step of replica r alone does to those that work on a pair.       *)
LEMMA WorkingChange ==
    ASSUME NEW r \in Replica, \A q \in Replica \ {r} : job'[q] = job[q],
           NEW p \in Pair
    PROVE  /\ Cardinality(Working(p)') \in Nat
           /\ Cardinality(Working(p)') >= Cardinality(Working(p)) - 1
           /\ r \notin Working(p) \/ r \in Working(p)' =>
                 Cardinality(Working(p)') >= Cardinality(Working(p))
           /\ r \notin Working(p) /\ r \in Working(p)' =>
                 Cardinality(Working(p)') = Cardinality(Working(p)) + 1
<1> DEFINE W == Working(p)
           V == Working(p)'
<1>1. V \ {r} = W \ {r}
  BY DEF Working
<1>2. IsFiniteSet(W) /\ Cardinality(W) \in Nat
  BY WorkingFinite
<1>3. IsFiniteSet(V)
  <2>1. V \subseteq Replica
    BY DEF Working
  <2> QED BY <2>1, SetAssumption, FS_Subset
<1> HIDE DEF W, V
<1>4. Cardinality(V) \in Nat
  BY <1>3, FS_CardinalityType
<1>5. /\ Cardinality(W \ {r}) = IF r \in W THEN Cardinality(W) - 1 ELSE Cardinality(W)
      /\ Cardinality(V \ {r}) = IF r \in V THEN Cardinality(V) - 1 ELSE Cardinality(V)
  BY <1>2, <1>3, FS_RemoveElement
<1>6. /\ Cardinality(V) >= Cardinality(W) - 1
      /\ r \notin W \/ r \in V => Cardinality(V) >= Cardinality(W)
      /\ r \notin W /\ r \in V => Cardinality(V) = Cardinality(W) + 1
  <2>1. Cardinality(V \ {r}) = Cardinality(W \ {r})
    BY ONLY <1>1
  <2> QED BY ONLY <1>2, <1>4, <1>5, <2>1
<1> QED BY <1>4, <1>6 DEF W, V

LEMMA ReplicaCounted ==
    ASSUME Known, AllCounted, NEW r \in Replica, NEW p \in Pair,
           \/ AutoUnlockCandidates(r) \/ Taking(r) \/ Deciding(r)
           \/ RecordAutoUnlockAttempt(r) \/ RecordFails(r) \/ Crash(r)
    PROVE  Counted(p)'
<1>1. \A q \in Replica \ {r} : job'[q] = job[q]
  <2>1. CASE AutoUnlockCandidates(r)
    <3>1. PICK todo : job' = [job EXCEPT ![r] = [Idle EXCEPT !.step = "next",
                                                             !.at = now, !.todo = todo]]
      BY <2>1, Zenon DEF AutoUnlockCandidates
    <3> QED BY <3>1 DEF Known, TypeOK
  <2>2. CASE ~AutoUnlockCandidates(r)
    BY <2>2 DEF Taking, TakeOverCap, TakeNotForSale, TakeForSale, Take, Deciding, Debit,
       DebitReplay, DebitOwned, DebitShort, DebitCommit, DebitFails, Decide,
       RecordAutoUnlockAttempt, RecordFails, Continue, Crash, Known, TypeOK
  <2> QED BY <2>1, <2>2
<1>2. /\ attempts[p].count \in Nat /\ tried[p] \in Nat /\ faults \in Nat
      /\ Cardinality(Working(p)) \in Nat
      /\ tried[p] <= attempts[p].count + Cardinality(Working(p)) + faults
  BY WorkingFinite DEF Known, TypeOK, AttemptRow, AllCounted, Counted
<1>3. /\ Cardinality(Working(p)') \in Nat
      /\ Cardinality(Working(p)') >= Cardinality(Working(p)) - 1
      /\ r \notin Working(p) \/ r \in Working(p)' =>
            Cardinality(Working(p)') >= Cardinality(Working(p))
      /\ r \notin Working(p) /\ r \in Working(p)' =>
            Cardinality(Working(p)') = Cardinality(Working(p)) + 1
  BY <1>1, WorkingChange
<1>4. CASE AutoUnlockCandidates(r)
  <2>1. r \notin Working(p)
    <3>1. job[r] = Idle
      BY <1>4, Zenon DEF AutoUnlockCandidates
    <3> QED BY <3>1 DEF Working, Idle
  <2>2. UNCHANGED <<attempts, tried, faults>>
    BY <1>4 DEF AutoUnlockCandidates
  <2> HIDE DEF Working
  <2> QED BY <1>2, <1>3, <2>1, <2>2 DEF Counted
<1>5. CASE Taking(r)
  <2>0. PICK c \in job[r].todo, step \in {"debit", "record"} :
           \E price, outcome : Take(r, c, step, price, outcome)
    BY <1>5 DEF Taking, TakeOverCap, TakeNotForSale, TakeForSale
  <2>1. PICK price, outcome : Take(r, c, step, price, outcome)
    BY <2>0
  <2>2. /\ r \notin Working(p)
        /\ job'[r].step \in {"debit", "record"} /\ job'[r].on = c
    BY <2>1 DEF Take, Working, Known, TypeOK, RunState
  <2>3. /\ UNCHANGED <<attempts, faults>>
        /\ tried'[p] \in {tried[p], IF p = PairOf(c) THEN tried[p] + 1 ELSE tried[p]}
    BY <2>1 DEF Take, Known, TypeOK
  <2>4. p = PairOf(c) => r \in Working(p)'
    BY <2>2 DEF Working
  <2> HIDE DEF Working
  <2> QED BY <1>2, <1>3, <2>2, <2>3, <2>4 DEF Counted
<1>6. CASE Deciding(r)
  <2>1. PICK outcome : Decide(r, outcome)
    BY <1>6 DEF Deciding, Debit, DebitReplay, DebitOwned, DebitShort, DebitCommit,
       DebitFails
  <2>2. job'[r].step = "record" /\ job'[r].on = job[r].on /\ job[r].step = "debit"
    BY <2>1 DEF Decide, Known, TypeOK, RunState
  <2>3. r \notin Working(p) \/ r \in Working(p)'
    BY <2>2 DEF Working
  <2>4. UNCHANGED <<attempts, tried>> /\ faults' \in {faults, faults + 1}
    BY <1>6, <2>1 DEF Deciding, Debit, DebitReplay, DebitOwned, DebitShort, DebitCommit,
       DebitFails, Decide, Fault
  <2> HIDE DEF Working
  <2> QED BY <1>2, <1>3, <2>3, <2>4 DEF Counted
<1>7. CASE RecordAutoUnlockAttempt(r)
  <2>1. PairOf(job[r].on) \in Pair /\ UNCHANGED <<tried, faults>>
    BY <1>7, ContinueHolds DEF RecordAutoUnlockAttempt, Continue
  <2>2. attempts'[p].count = IF p = PairOf(job[r].on) THEN attempts[p].count + 1
                             ELSE attempts[p].count
    BY <1>7, <2>1 DEF RecordAutoUnlockAttempt, Recorded, Known, TypeOK
  <2>3. p # PairOf(job[r].on) => r \notin Working(p)
    BY DEF Working
  <2> HIDE DEF Working
  <2> QED BY <1>2, <1>3, <2>1, <2>2, <2>3 DEF Counted
<1>8. CASE RecordFails(r) \/ Crash(r)
  <2>1. UNCHANGED <<attempts, tried>> /\ faults' = faults + 1
    BY <1>8 DEF RecordFails, Crash, Continue, Fault
  <2> HIDE DEF Working
  <2> QED BY <1>2, <1>3, <2>1 DEF Counted
<1> QED BY <1>4, <1>5, <1>6, <1>7, <1>8

LEMMA CountedNext == Known /\ AllCounted /\ [Next]_vars => AllCounted'
<1> SUFFICES ASSUME Known, AllCounted, [Next]_vars PROVE AllCounted'
  OBVIOUS
<1>1. CASE UNCHANGED <<attempts, job, tried, faults>>
  BY <1>1 DEF AllCounted, Counted, Working
<1>2. CASE Outside
  BY <1>1, <1>2 DEF Outside, UnlockChapter, CompletePurchase, UpsertSubscription,
     DeleteSubscription, PublishChapter, UnpublishChapter, SetPrice, Market, Tick
<1>3. CASE UNCHANGED vars
  BY <1>1, <1>3 DEF vars
<1>4. ASSUME NEW r \in Replica,
             \/ AutoUnlockCandidates(r) \/ Taking(r) \/ Deciding(r)
             \/ RecordAutoUnlockAttempt(r) \/ RecordFails(r) \/ Crash(r)
      PROVE  AllCounted'
  <2>1. \A p \in Pair : Counted(p)'
    BY <1>4, ReplicaCounted
  <2> QED BY <2>1 DEF AllCounted
<1> QED BY <1>2, <1>3, <1>4, NextSteps

(* However many replicas overlap, a pair is taken up at most MaxAttempts   *)
(* times, once more per other replica and once more per fault.             *)
THEOREM TriesBoundedCorrect == Spec => []TriesBounded
<1>1. Known /\ AllBounded /\ AllCounted => TriesBounded
  <2> SUFFICES ASSUME Known, AllBounded, AllCounted, NEW p \in Pair
               PROVE  tried[p] < MaxAttempts + Cardinality(Replica) + faults
    BY DEF TriesBounded
  <2>1. attempts[p].count \in Nat /\ tried[p] \in Nat /\ faults \in Nat
    BY DEF Known, TypeOK, AttemptRow
  <2> QED BY <2>1, HoldersFinite, WorkingFinite, JobAssumption
          DEF AllBounded, Bounded, AllCounted, Counted
<1> QED BY <1>1, BoundedInit, BoundedNext, CountedInit, CountedNext, KnownCorrect, PTL
        DEF Spec

-----------------------------------------------------------------------------
(* The log, and who pays for what.                                         *)

Unlocked(u, c) == c \in auto[u] /\ c \in owned[u]

(* A run that is about to record "unlocked" tells the truth.               *)
Truthful ==
    /\ \A u \in Reader : auto[u] \subseteq owned[u]
    /\ \A r \in Replica : job[r].step = "record" /\ job[r].outcome = "unlocked" =>
          Unlocked(job[r].on.user, job[r].on.chapter)
    /\ LogTruthful

LEMMA TruthfulInit == Init => Truthful
  BY DEF Init, Truthful, LogTruthful, Idle, NoAttempt

(* A decision buys the chapter at hand or nothing.                         *)
LEMMA DecisionBuys ==
    ASSUME NEW r \in Replica, Deciding(r)
    PROVE  \/ UNCHANGED <<owned, auto>>
           \/ \E u, c : /\ owned' = [owned EXCEPT ![u] = @ \cup {c}]
                       /\ auto'  = [auto  EXCEPT ![u] = @ \cup {c}]
<1>1. CASE Charge(r)
  BY <1>1 DEF Charge
<1>2. CASE UNCHANGED readers
  BY <1>2 DEF readers
<1> QED BY <1>1, <1>2 DEF Deciding, Debit, DebitReplay, DebitOwned, DebitShort,
           DebitCommit, DebitFails

LEMMA OwnedGrows ==
    ASSUME Known, Next
    PROVE  \A u \in Reader : owned[u] \subseteq owned'[u] /\ auto[u] \subseteq auto'[u]
<1>1. CASE Outside
  BY <1>1 DEF Outside, UnlockChapter, CompletePurchase, UpsertSubscription,
     DeleteSubscription, PublishChapter, UnpublishChapter, SetPrice, Market, Tick,
     readers, Known, TypeOK
<1>2. ASSUME NEW r \in Replica, Deciding(r)
      PROVE  \A u \in Reader : owned[u] \subseteq owned'[u] /\ auto[u] \subseteq auto'[u]
  BY <1>2, DecisionBuys DEF Known, TypeOK
<1>3. ASSUME NEW r \in Replica,
             \/ AutoUnlockCandidates(r) \/ Taking(r)
             \/ RecordAutoUnlockAttempt(r) \/ RecordFails(r) \/ Crash(r)
      PROVE  UNCHANGED readers
  BY <1>3 DEF AutoUnlockCandidates, Taking, TakeOverCap, TakeNotForSale, TakeForSale,
     Take, RecordAutoUnlockAttempt, RecordFails, Continue, Crash
<1> QED BY <1>1, <1>2, <1>3, NextSteps DEF readers

LEMMA TruthfulNext == Known /\ Truthful /\ [Next]_vars => Truthful'
<1> SUFFICES ASSUME Known, Truthful, [Next]_vars PROVE Truthful'
  OBVIOUS
<1>1. CASE UNCHANGED vars
  BY <1>1 DEF vars, Truthful, Unlocked, LogTruthful
<1>2. CASE Outside
  <2>1. UNCHANGED <<auto, attempts, job>>
    BY <1>2 DEF Outside, UnlockChapter, CompletePurchase, UpsertSubscription,
       DeleteSubscription, PublishChapter, UnpublishChapter, SetPrice, Market, Tick,
       readers
  <2>2. \A u \in Reader : owned[u] \subseteq owned'[u]
    BY <1>2, OwnedGrows DEF Next, Outside
  <2>3. \A r \in Replica : job[r].step = "record" => job[r].on.user \in Reader
    BY DEF Known, RunsOK, RunOK, AutoUnlockCandidate
  <2>4. \A p \in Pair : p[1] \in Reader
    BY DEF Pair
  <2> QED BY <2>1, <2>2, <2>3, <2>4 DEF Truthful, Unlocked, LogTruthful
<1>3. ASSUME NEW r \in Replica, AutoUnlockCandidates(r) \/ Taking(r) \/ Crash(r)
      PROVE  Truthful'
  <2>1. UNCHANGED <<owned, auto, attempts>>
    BY <1>3 DEF AutoUnlockCandidates, Taking, TakeOverCap, TakeNotForSale, TakeForSale,
       Take, Crash, readers
  <2>2. \A q \in Replica \ {r} : job'[q] = job[q]
    BY <1>3 DEF AutoUnlockCandidates, Taking, TakeOverCap, TakeNotForSale, TakeForSale,
       Take, Crash, Known, TypeOK
  <2>3. job'[r].step # "record" \/ job'[r].outcome # "unlocked"
    <3>1. CASE AutoUnlockCandidates(r)
      <4>1. PICK todo \in SUBSET {Scanned(q) : q \in Due} :
               job' = [job EXCEPT ![r] = [Idle EXCEPT !.step = "next", !.at = now,
                                                      !.todo = todo]]
        BY <3>1, Zenon DEF AutoUnlockCandidates
      <4> QED BY <4>1 DEF Known, TypeOK, Idle
    <3>3. CASE Crash(r)
      BY <3>3 DEF Crash, Known, TypeOK, Idle
    <3>2. CASE Taking(r)
      <4>1. PICK c, step, price, outcome :
               /\ c \in job[r].todo
               /\ Take(r, c, step, price, outcome)
               /\ outcome # "unlocked"
        BY <3>2 DEF Taking, TakeOverCap, TakeNotForSale, TakeForSale
      <4>2. job'[r].outcome = outcome
        BY <4>1 DEF Take, Known, TypeOK, RunState
      <4> QED BY <4>1, <4>2
    <3> QED BY <1>3, <3>1, <3>2, <3>3
  <2> QED BY <2>1, <2>2, <2>3 DEF Truthful, Unlocked, LogTruthful
<1>4. ASSUME NEW r \in Replica, Deciding(r) PROVE Truthful'
  <2>1. PICK outcome \in Outcomes : Decide(r, outcome)
    BY <1>4 DEF Deciding, Debit, DebitReplay, DebitOwned, DebitShort, DebitCommit,
       DebitFails, Outcomes
  <2>2. /\ job[r].on \in AutoUnlockCandidate
        /\ job[r].on.user \in Reader
    BY <2>1 DEF Decide, Known, RunsOK, RunOK, AutoUnlockCandidate
  <2>3. /\ attempts' = attempts
        /\ \A q \in Replica \ {r} : job'[q] = job[q]
        /\ job'[r].outcome = outcome /\ job'[r].on = job[r].on
    BY <2>1 DEF Decide, Known, TypeOK, RunState
  <2>4. \A u \in Reader : owned[u] \subseteq owned'[u] /\ auto[u] \subseteq auto'[u]
    BY <1>4, OwnedGrows DEF Next, Run, Deciding
  <2>5. \A u \in Reader : auto'[u] \subseteq owned'[u]
    BY <1>4, DecisionBuys DEF Known, TypeOK, Truthful
  <2>6. outcome = "unlocked" => job[r].on.chapter \in auto'[job[r].on.user]
    <3>1. \/ DebitReplay(r) \/ DebitCommit(r)
          \/ Decide(r, "skipped") \/ Decide(r, "insufficient")
      BY <1>4 DEF Deciding, Debit, DebitOwned, DebitShort, DebitFails
    <3>2. CASE DebitReplay(r)
      BY <3>2 DEF DebitReplay, readers
    <3>3. CASE DebitCommit(r)
      BY <3>3, <2>2 DEF DebitCommit, Charge, Known, TypeOK
    <3>4. CASE Decide(r, "skipped") \/ Decide(r, "insufficient")
      BY <3>4, <2>3 DEF Decide, Known, TypeOK, RunState
    <3> QED BY <3>1, <3>2, <3>3, <3>4
  <2>7. \A q \in Replica : job[q].step = "record" => job[q].on.user \in Reader
    BY DEF Known, RunsOK, RunOK, AutoUnlockCandidate
  <2>8. \A p \in Pair : p[1] \in Reader
    BY DEF Pair
  <2>9. ASSUME NEW q \in Replica, job'[q].step = "record", job'[q].outcome = "unlocked"
        PROVE  Unlocked(job[q].on.user, job[q].on.chapter)' 
    <3>1. CASE q = r
      BY <2>2, <2>3, <2>5, <2>6, <2>9, <3>1 DEF Unlocked
    <3>2. CASE q # r
      BY <2>3, <2>4, <2>7, <2>9, <3>2 DEF Unlocked, Truthful
    <3> QED BY <3>1, <3>2
  <2>10. LogTruthful'
    BY <2>3, <2>4, <2>8 DEF Truthful, LogTruthful
  <2> QED BY <2>5, <2>9, <2>10 DEF Truthful
<1>5. ASSUME NEW r \in Replica, RecordAutoUnlockAttempt(r) \/ RecordFails(r)
      PROVE  Truthful'
  <2>1. Continue(r) /\ UNCHANGED readers
    BY <1>5 DEF RecordAutoUnlockAttempt, RecordFails, Continue
  <2>2. job[r].on \in AutoUnlockCandidate /\ job[r].step = "record"
    BY <2>1, ContinueKnown DEF Continue
  <2>3. job'[r].step # "record" /\ \A q \in Replica \ {r} : job'[q] = job[q]
    BY <2>1 DEF Continue, Known, TypeOK, Idle
  <2>4. \A p \in Pair \ {PairOf(job[r].on)} : attempts'[p] = attempts[p]
    BY <1>5, <2>2, CandidatePair DEF RecordAutoUnlockAttempt, RecordFails, Known, TypeOK
  <2>5. LET p == PairOf(job[r].on)
        IN  /\ p \in Pair /\ p[1] = job[r].on.user /\ p[2] = job[r].on.chapter
            /\ attempts'[p].outcome \in {attempts[p].outcome, job[r].outcome}
    BY <1>5, <2>2, CandidatePair DEF RecordAutoUnlockAttempt, RecordFails, Recorded,
       Known, TypeOK, PairOf
  <2>6. LogTruthful'
    BY <2>1, <2>2, <2>4, <2>5 DEF LogTruthful, Truthful, Unlocked, readers
  <2> QED BY <2>1, <2>3, <2>6 DEF Truthful, Unlocked, readers
<1> QED BY <1>1, <1>2, <1>3, <1>4, <1>5, NextSteps

(* Whatever replicas and manual purchases race, the log says "unlocked"    *)
(* only of a chapter that an auto-unlock paid for.                         *)
THEOREM LogTruthfulCorrect == Spec => []LogTruthful
<1>1. Truthful => LogTruthful
  BY DEF Truthful
<1> QED BY <1>1, TruthfulInit, TruthfulNext, KnownCorrect, PTL DEF Spec

(* No step takes coins from a reader without giving them a chapter that    *)
(* they did not have.                                                      *)
THEOREM PaysForNewChaptersCorrect == Spec => PaysForNewChapters
<1> DEFINE Paid(u) == \E c \in owned'[u] \ owned[u] :
             coins[u] - coins'[u] \in {sale[c].price} \cup
                {job[r].price : r \in {q \in Replica : job[q].on.user = u}}
<1>1. ASSUME Known, [Next]_vars, NEW u \in Reader, coins'[u] < coins[u]
      PROVE  Paid(u)
  <2>1. coins[u] \in Nat /\ ~(coins[u] < coins[u])
    BY <1>1 DEF Known, TypeOK
  <2>2. coins' # coins
    BY <1>1, <2>1
  <2>3. ASSUME NEW c \in Chapter, NEW v \in Reader, UnlockChapter(v, c) PROVE Paid(u)
    <3>1. u = v
      BY <1>1, <2>1, <2>3 DEF UnlockChapter, Known, TypeOK
    <3>2. /\ c \in owned'[u] \ owned[u]
          /\ coins'[u] = coins[u] - sale[c].price
          /\ sale[c].price \in Nat
      BY <1>1, <2>3, <3>1 DEF UnlockChapter, Known, TypeOK
    <3>3. coins[u] - coins'[u] = sale[c].price
      BY <2>1, <3>2
    <3> QED BY <3>2, <3>3
  <2>4. ASSUME NEW v \in Reader, CompletePurchase(v) PROVE FALSE
    BY <1>1, <2>1, <2>4, MoneyAssumption DEF CompletePurchase, Known, TypeOK
  <2>5. ASSUME NEW r \in Replica, Deciding(r) PROVE Paid(u)
    <3>1. job[r].on \in AutoUnlockCandidate /\ Charge(r)
      BY <1>1, <2>2, <2>5 DEF Deciding, Debit, DebitReplay, DebitOwned, DebitShort,
         DebitCommit, DebitFails, Decide, readers, Known, RunsOK, RunOK
    <3>2. u = job[r].on.user
      BY <1>1, <2>1, <3>1 DEF Charge, Known, TypeOK
    <3>3. /\ job[r].on.chapter \in owned'[u] \ owned[u]
          /\ coins'[u] = coins[u] - job[r].price
          /\ job[r].price \in Nat
      BY <1>1, <3>1, <3>2 DEF Charge, Known, TypeOK, RunState, AutoUnlockCandidate
    <3>4. coins[u] - coins'[u] = job[r].price
      BY <2>1, <3>3
    <3> QED BY <3>2, <3>3, <3>4
  <2>6. \/ \E v \in Reader : (\E c \in Chapter : UnlockChapter(v, c)) \/ CompletePurchase(v)
        \/ \E r \in Replica : Deciding(r)
    BY <1>1, <2>2, NextSteps DEF vars, Outside, UpsertSubscription, DeleteSubscription,
       PublishChapter, UnpublishChapter, SetPrice, Market, Tick, readers,
       AutoUnlockCandidates, Taking, TakeOverCap, TakeNotForSale, TakeForSale, Take,
       RecordAutoUnlockAttempt, RecordFails, Continue, Crash
  <2> QED BY <2>3, <2>4, <2>5, <2>6
<1>2. Known /\ [Next]_vars =>
        [\A u \in Reader : coins'[u] < coins[u] => Paid(u)]_vars
  BY <1>1
<1> QED BY <1>2, KnownCorrect, PTL DEF Spec, PaysForNewChapters
=============================================================================
