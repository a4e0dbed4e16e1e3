------------------------------- MODULE Counters -------------------------------
(***************************************************************************)
(* The counters that are kept beside the rows they count: a novel's        *)
(* followers (repository/library), a comment's likes and a novel's rating  *)
(* (repository/social), with the follow of a whole series (service/library)*)
(*                                                                         *)
(* Every change is one transaction of several statements under READ        *)
(* COMMITTED.  A statement sees what is committed when it starts, and its  *)
(* own transaction's rows; it takes the lock of each row that it writes,   *)
(* one after the other, and waits for the transaction that holds it.  What *)
(* a transaction wrote shows when it commits.  A statement that writes     *)
(* several counters meets their rows in an order that the query plan       *)
(* chooses, so two of them can block each other until the database rolls   *)
(* one back.                                                               *)
(*                                                                         *)
(* A follow and a like are the same thing here, a link of a reader to a    *)
(* target: links holds the rows of follows and comment_likes, count the    *)
(* followers_count of a novel and the likes_count of a comment.            *)
(***************************************************************************)
EXTENDS Integers, Sequences, FiniteSets, SequencesExt

CONSTANTS
    Reader, Novel, Comment,
    Request,        \* requests that are served side by side
    Histories,      \* the histories to look at, see HistoryAssumption
    MaxFaults       \* bound: transactions that fail for reasons of their own

Target == Novel \cup Comment
Stars  == 1..5                                  \* MinRating .. MaxRating

InsertKinds == {"follow", "like", "follow_series"}
DeleteKinds == {"unfollow", "unlike", "unfollow_series"}
SeriesKinds == {"follow_series", "unfollow_series"}

(* What a request asks: on is the target, but of a series the books that   *)
(* will be read; stars is 0 but of a review.                               *)
Ask == [kind : InsertKinds \cup DeleteKinds \cup {"review"}, user : Reader,
        on : Seq(Target), stars : 0..5]

WellAsked(a) ==
    CASE a.kind \in SeriesKinds -> a.on = <<>> /\ a.stars = 0
      [] a.kind = "review"      -> a.on \in [1..1 -> Novel] /\ a.stars \in Stars
      [] a.kind \in {"like", "unlike"}
                                -> a.on \in [1..1 -> Comment] /\ a.stars = 0
      [] OTHER                  -> a.on \in [1..1 -> Novel] /\ a.stars = 0

ASSUME SetAssumption ==
    /\ IsFiniteSet(Reader) /\ IsFiniteSet(Request)
    /\ Novel \cap Comment = {} /\ MaxFaults \in Nat
(* A history: which requests are served and what they ask, who follows and *)
(* likes what before, and the orders that the books of the series take one *)
(* after the other.                                                        *)
ASSUME HistoryAssumption ==
    \A h \in Histories : /\ h.serve \subseteq Request
                         /\ h.ask \in [Request -> Ask]
                         /\ \A q \in Request : WellAsked(h.ask[q])
                         /\ h.links \subseteq Reader \X Target
                         /\ h.orders \in Seq(Seq(Novel)) /\ h.orders # <<>>
                         /\ \A i \in DOMAIN h.orders : IsInjective(h.orders[i])

VARIABLES
    ask,        \* [Request -> Ask]
    links,      \* SUBSET (Reader \X Target): follows and comment_likes
    count,      \* [Target -> Nat]: followers_count and likes_count
    reviews,    \* [Reader \X Novel -> 0..5]: reviews.rating, 0: none
    rating,     \* [Novel -> Aggregate]: rating_count and rating_avg
    orders,     \* the order of the series' books, then the ones to come
    step,       \* [Request -> Step]
    todo,       \* [Request -> Seq(Target)]: rows its statement still meets
    touched,    \* [Request -> SUBSET Target]: rows written, not committed
    locked,     \* [Request -> SUBSET Target]: counters written, not committed
    agg,        \* [Request -> Aggregate]: what its recount found
    lone,       \* reviews that no other review of the novel overlapped
    faults

vars == <<ask, links, count, reviews, rating, orders, step, todo, touched,
          locked, agg, lone, faults>>
rows == <<links, count, reviews, rating>>

Aggregate == [total : Nat, sum : Nat]
Steps     == {"start", "insert", "delete", "bump", "upsert", "recount",
              "rate", "commit", "done", "failed"}

-----------------------------------------------------------------------------
Fans(t) == {u \in Reader : <<u, t>> \in links}

(* AVG and COUNT over the reviews of novel n: the average is kept as the   *)
(* sum that it is the quotient of.                                         *)
AggregateOf(n, rs) ==
    LET raters == {u \in Reader : rs[u, n] # 0}
        sums   == [s \in Stars |-> s * Cardinality({u \in raters : rs[u, n] = s})]
    IN  [total |-> Cardinality(raters),
         sum   |-> sums[1] + sums[2] + sums[3] + sums[4] + sums[5]]

(* Two requests write the same table: a novel's reviews are not its        *)
(* follows.                                                                *)
SameTable(p, q) == (ask[p].kind = "review") <=> (ask[q].kind = "review")

(* q waits for p: the row that q's statement meets next is p's.            *)
Waits(q, p) ==
    /\ p # q /\ todo[q] # <<>>
    /\ \/ /\ step[q] \in {"insert", "delete", "upsert"}
          /\ SameTable(p, q) /\ ask[p].user = ask[q].user
          /\ Head(todo[q]) \in touched[p]
       \/ /\ step[q] \in {"bump", "rate"}
          /\ Head(todo[q]) \in locked[p]

Blocked(q) == \E p \in Request : Waits(q, p)

(* q is on a cycle of requests that wait for each other.                   *)
OnCycle(q, S) ==
    /\ q \in S
    /\ \A p \in S : \E r \in S : Waits(p, r)
    /\ \A r \in S : \E p \in S : Waits(p, r)
Deadlocked(q) == \E S \in SUBSET Request : OnCycle(q, S)

InFlight(q) == step[q] \notin {"start", "done", "failed"}

-----------------------------------------------------------------------------
CountersInit(h) ==
    /\ ask = h.ask /\ links = h.links /\ orders = h.orders
    /\ count = [t \in Target |-> Cardinality(Fans(t))]
    /\ reviews = [x \in Reader \X Novel |-> 0]
    /\ rating = [n \in Novel |-> [total |-> 0, sum |-> 0]]
    /\ step = [q \in Request |-> IF q \in h.serve THEN "start" ELSE "done"]
    /\ todo = [q \in Request |-> <<>>]
    /\ touched = [q \in Request |-> {}]
    /\ locked = [q \in Request |-> {}]
    /\ agg = [q \in Request |-> [total |-> 0, sum |-> 0]]
    /\ lone = {}
    /\ faults = 0

Init == \E h \in Histories : CountersInit(h)

(* The statement that begins q's transaction starts to meet its rows.      *)
Begin(q, s, ts) ==
    /\ step[q] = "start"
    /\ step' = [step EXCEPT ![q] = s]
    /\ todo' = [todo EXCEPT ![q] = ts]
    /\ UNCHANGED <<ask, rows, orders, touched, locked, agg, faults>>

(* What a DELETE meets: the rows that it sees, in some order.              *)
Visible(q)     == {t \in ToSet(ask[q].on) : <<ask[q].user, t>> \in links}
BeginDelete(q) == \E ts \in SetToSeqs(Visible(q)) : Begin(q, "delete", ts)

Follow(q) ==
    /\ ask[q].kind = "follow"
    /\ Begin(q, "insert", ask[q].on) /\ UNCHANGED lone
Unfollow(q) ==
    /\ ask[q].kind = "unfollow"
    /\ BeginDelete(q) /\ UNCHANGED lone
Like(q) ==
    /\ ask[q].kind = "like"
    /\ Begin(q, "insert", ask[q].on) /\ UNCHANGED lone
Unlike(q) ==
    /\ ask[q].kind = "unlike"
    /\ BeginDelete(q) /\ UNCHANGED lone

(* NovelIDsInSeries: the books of the series, in reading order.            *)
SeriesBooks == Head(orders)

(* FollowSeries reads the books, then FollowMany begins; an empty series   *)
(* begins nothing.  The books are what on becomes.                         *)
ReadSeries(q) ==
    /\ ask[q].kind \in SeriesKinds /\ step[q] = "start" /\ ask[q].on = <<>>
    /\ IF SeriesBooks = <<>>
       THEN step' = [step EXCEPT ![q] = "done"] /\ UNCHANGED ask
       ELSE ask' = [ask EXCEPT ![q].on = SeriesBooks] /\ UNCHANGED step
    /\ UNCHANGED <<rows, orders, todo, touched, locked, agg, lone, faults>>
FollowMany(q) ==
    /\ ask[q].kind = "follow_series" /\ ask[q].on # <<>>
    /\ Begin(q, "insert", ask[q].on) /\ UNCHANGED lone
UnfollowMany(q) ==
    /\ ask[q].kind = "unfollow_series" /\ ask[q].on # <<>>
    /\ BeginDelete(q) /\ UNCHANGED lone

(* The row at the head of todo is met: it is written, and so q's until the *)
(* end, or passed over.  After the last, the counters of the rows that     *)
(* were written are next, and nothing is when none was.                    *)
(* Mutant: rows that were passed over are counted, too.                    *)
AnyRow(q, written) == {Head(todo[q])}
RowsAffected(q, written) == IF written THEN {Head(todo[q])} ELSE {}
Meet(q, written) ==
    LET mine == touched[q] \cup RowsAffected(q, written)
    IN  /\ ~Blocked(q)
        /\ touched' = [touched EXCEPT ![q] = mine]
        /\ IF Len(todo[q]) > 1
           THEN todo' = [todo EXCEPT ![q] = Tail(@)] /\ UNCHANGED step
           ELSE \E ts \in SetToSeqs(mine) :
                  /\ todo' = [todo EXCEPT ![q] = ts]
                  /\ step' = [step EXCEPT ![q] = IF mine = {} THEN "commit" ELSE "bump"]
        /\ UNCHANGED <<ask, rows, orders, locked, agg, lone, faults>>

(* INSERT ... ON CONFLICT DO NOTHING: a row that is there is passed over.  *)
InsertRow(q) ==
    /\ step[q] = "insert" /\ todo[q] # <<>>
    /\ Meet(q, <<ask[q].user, Head(todo[q])>> \notin links)

(* DELETE: a row that has gone since it was seen is passed over; one that  *)
(* went and came again is met as if it had stayed.                         *)
DeleteRow(q) ==
    /\ step[q] = "delete" /\ todo[q] # <<>>
    /\ Meet(q, <<ask[q].user, Head(todo[q])>> \in links)

(* Mutant: nothing to delete is an UPDATE that is never sent off.          *)
DeleteNothingTwice(q) == FALSE
DeleteNothing(q) ==
    /\ step[q] = "delete" /\ todo[q] = <<>>
    /\ step' = [step EXCEPT ![q] = "commit"]
    /\ UNCHANGED <<ask, rows, orders, todo, touched, locked, agg, lone, faults>>

(* followers_count +- 1, likes_count +- 1: one row of the UPDATE.          *)
Bump(q) ==
    /\ step[q] = "bump" /\ ~Blocked(q)
    /\ locked' = [locked EXCEPT ![q] = @ \cup {Head(todo[q])}]
    /\ todo' = [todo EXCEPT ![q] = Tail(@)]
    /\ step' = [step EXCEPT ![q] = IF Len(todo[q]) > 1 THEN "bump" ELSE "commit"]
    /\ UNCHANGED <<ask, rows, orders, touched, agg, lone, faults>>

-----------------------------------------------------------------------------
(* UpsertReview: the row, the recount, the novel.                          *)
Overlaps(q) == {p \in Request \ {q} : /\ ask[p].kind = "review" /\ InFlight(p)
                                      /\ ask[p].on = ask[q].on}
UpsertReview(q) ==
    /\ ask[q].kind = "review"
    /\ Begin(q, "upsert", ask[q].on)
    /\ lone' = IF Overlaps(q) = {} THEN lone \cup {q} ELSE lone \ Overlaps(q)
UpsertRow(q) ==
    /\ step[q] = "upsert" /\ ~Blocked(q)
    /\ touched' = [touched EXCEPT ![q] = {Head(todo[q])}]
    /\ step' = [step EXCEPT ![q] = "recount"]
    /\ UNCHANGED <<ask, rows, orders, todo, locked, agg, lone, faults>>

(* The UPDATE of the novel starts: its subquery counts what is committed   *)
(* now and the row of its own.  Mutant: it runs before the row is written. *)
ReviewsBefore(q) == reviews
ReviewsSeen(q) == [reviews EXCEPT ![<<ask[q].user, Head(todo[q])>>] = ask[q].stars]
Recount(q) ==
    /\ step[q] = "recount"
    /\ agg' = [agg EXCEPT ![q] = AggregateOf(Head(todo[q]), ReviewsSeen(q))]
    /\ step' = [step EXCEPT ![q] = "rate"]
    /\ UNCHANGED <<ask, rows, orders, todo, touched, locked, lone, faults>>

(* It gets the novel's row, perhaps after a wait, and does not count again.*)
Rate(q) ==
    /\ step[q] = "rate" /\ ~Blocked(q)
    /\ locked' = [locked EXCEPT ![q] = {Head(todo[q])}]
    /\ todo' = [todo EXCEPT ![q] = <<>>]
    /\ step' = [step EXCEPT ![q] = "commit"]
    /\ UNCHANGED <<ask, rows, orders, touched, agg, lone, faults>>

-----------------------------------------------------------------------------
Finish(q, s) ==
    /\ step' = [step EXCEPT ![q] = s]
    /\ todo' = [todo EXCEPT ![q] = <<>>]
    /\ touched' = [touched EXCEPT ![q] = {}]
    /\ locked' = [locked EXCEPT ![q] = {}]
    /\ agg' = [agg EXCEPT ![q] = [total |-> 0, sum |-> 0]]
    /\ UNCHANGED <<ask, orders, lone>>

Less(c) == IF c > 0 THEN c - 1 ELSE 0           \* GREATEST(c - 1, 0)

CommitInsert(q) ==
    /\ step[q] = "commit" /\ ask[q].kind \in InsertKinds
    /\ links' = links \cup ({ask[q].user} \X touched[q])
    /\ count' = [t \in Target |-> IF t \in locked[q] THEN count[t] + 1 ELSE count[t]]
    /\ Finish(q, "done") /\ UNCHANGED <<reviews, rating, faults>>
CommitDelete(q) ==
    /\ step[q] = "commit" /\ ask[q].kind \in DeleteKinds
    /\ links' = links \ ({ask[q].user} \X touched[q])
    /\ count' = [t \in Target |-> IF t \in locked[q] THEN Less(count[t]) ELSE count[t]]
    /\ Finish(q, "done") /\ UNCHANGED <<reviews, rating, faults>>
CommitReview(q) ==
    /\ step[q] = "commit" /\ ask[q].kind = "review"
    /\ LET n == Head(ask[q].on)
       IN  /\ reviews' = [reviews EXCEPT ![<<ask[q].user, n>>] = ask[q].stars]
           /\ rating' = [rating EXCEPT ![n] = agg[q]]
    /\ Finish(q, "done") /\ UNCHANGED <<links, count, faults>>

(* The database rolls a transaction back to break a deadlock; any other    *)
(* failure does the same to it.                                            *)
DeadlockVictim(q) ==
    /\ Deadlocked(q)
    /\ Finish(q, "failed") /\ UNCHANGED <<rows, faults>>
Fail(q) ==
    /\ InFlight(q) /\ faults < MaxFaults
    /\ faults' = faults + 1
    /\ Finish(q, "failed") /\ UNCHANGED rows

(* The series is reordered, or a book joins or leaves it (module Series).  *)
SeriesChanges ==
    /\ Len(orders) > 1
    /\ orders' = Tail(orders)
    /\ UNCHANGED <<ask, rows, step, todo, touched, locked, agg, lone, faults>>

Serve(q) ==
    \/ Follow(q) \/ Unfollow(q) \/ Like(q) \/ Unlike(q)
    \/ ReadSeries(q) \/ FollowMany(q) \/ UnfollowMany(q)
    \/ InsertRow(q) \/ DeleteRow(q) \/ DeleteNothing(q) \/ Bump(q)
    \/ UpsertReview(q) \/ UpsertRow(q) \/ Recount(q) \/ Rate(q)
    \/ CommitInsert(q) \/ CommitDelete(q) \/ CommitReview(q)
    \/ DeadlockVictim(q)

Next ==
    \/ \E q \in Request : Serve(q) \/ Fail(q)
    \/ SeriesChanges

Spec == Init /\ [][Next]_vars

(* A request is served by a goroutine of its own, which the runtime runs   *)
(* on, and the database looks for deadlocks whenever a wait lasts.         *)
FairSpec == Spec /\ \A q \in Request : WF_vars(Serve(q))

-----------------------------------------------------------------------------
(* The variables have their types, and only a transaction under way holds  *)
(* anything (repository/library, repository/social).                       *)
TypeOK ==
    /\ ask \in [Request -> Ask]
    /\ links \subseteq Reader \X Target
    /\ count \in [Target -> Nat]
    /\ reviews \in [Reader \X Novel -> 0..5]
    /\ rating \in [Novel -> Aggregate]
    /\ step \in [Request -> Steps]
    /\ todo \in [Request -> Seq(Target)]
    /\ touched \in [Request -> SUBSET Target]
    /\ locked \in [Request -> SUBSET Target]
    /\ agg \in [Request -> Aggregate]
    /\ lone \subseteq Request
    /\ faults \in 0..MaxFaults
    /\ \A q \in Request : ~InFlight(q) => touched[q] = {} /\ locked[q] = {}

(* followers_count is the number of followers and likes_count the number   *)
(* of likes after every commit, whoever follows, unfollows, follows a      *)
(* series, fails or is rolled back meanwhile (Follow, FollowMany, Like and *)
(* their opposites).                                                       *)
CountersMatch == \A t \in Target : count[t] = Cardinality(Fans(t))

(* A review that no other review of the novel overlapped leaves the rating *)
(* right, whatever was wrong with it before (UpsertReview counts again).   *)
RatingHeals ==
    [][\A q \in lone :
         step[q] = "commit" /\ step'[q] = "done" =>
           rating'[Head(ask[q].on)] = AggregateOf(Head(ask[q].on), reviews')]_vars

(* Every request is answered: no wait for a row lasts for ever.            *)
EveryRequestAnswered ==
    \A q \in Request : <>(step[q] \in {"done", "failed"})
=============================================================================
