# The web-novel platform in TLA+

This directory is the verification project of the web-novel platform: a Go API
(`src/backend`), a job worker (`src/backend/cmd/worker`, `internal/jobs`), and a
React client (`src/frontend`). Readers read translated novels chapter by
chapter, buy coins, and pay coins for chapters; translators write chapters,
publish them and earn a share. Everything durable is in PostgreSQL; the
concurrency that matters is the concurrency of transactions on its rows.

The project has TLA+ models of the parts in which an interleaving, a retry or a
crash can cost somebody money, access or work, TLC runs on small instances of
them, and proofs, checked by TLAPS, that the safety properties of these runs
hold of every instance.

## The system

| Part | State | Operations | What makes it correct |
|---|---|---|---|
| Coin policy (`domain/wallet/spend.go`, `wallet.go`) | none: pure functions | plan a spend, a tip, a credit, a correction, a write-off; net coins of a gross amount | never overdraws; bonus before paid coins; lapsed bonus is never spent |
| Bundle pricing (`domain/wallet/bundle.go`) | none | quote an arc, split the discounted total over its chapters | shares add up to the total, none above list price, proportional to it |
| Wallet (`service/wallet`, `repository/wallet`) | balances, ledger, unlocks, earnings, purchases, subscriptions, payouts | unlock, unlock an arc, tip, top up, adjust, expire bonus, subscribe, request a payout | the ledger explains the balance; a chapter is paid once, a purchase credited once, a key used once |
| Jobs (`internal/jobs`) | attempts at auto-unlocks, rollups | scheduled publish, auto-unlock, bonus expiry, reconcile, re-render, stats, ranking, session sweep | one run at a time (advisory lock), safe to run twice, catches up after an outage |
| Identity (`service/identity`, `repository/identity`) | users, refresh-token rows by family | register, log in, refresh (rotate), log out, revoke all, sweep | a refresh token has one successor; reuse or log-out ends the family |
| Catalog (`service/catalog`, `repository/catalog`) | novels, series, genres, rankings (read) | listings, novel pages | a walk through a list meets every row once |
| Reading (`service/reading`, `domain/reading`) | reading progress | decide access to a chapter, record progress | nobody reads what is neither free, public, owned nor subscribed; who may read is served |
| Library (`service/library`, `repository/library`) | shelves, bookmarks, follows, follower counts | add, remove, follow, unfollow, a series at once | the count equals the rows; nobody writes another's row |
| Social (`service/social`, `repository/social`) | comments, likes, reviews, rating aggregates | comment, reply, delete, like, review | counters equal the rows; who is answered is told |
| Notifications (`service/notification`) | one row per reader and event | fan out on publication, reply, mark as read | every follower is told once |
| Writing (`service/writer`, `repository/writer`) | chapters, revisions, glossary, arcs, series | create, save, publish, unpublish, arrange | a visible chapter went through publication; the last saves are kept; an order is one |
| Rendering (`internal/glossaryrender`) | none | substitute glossary terms in a chapter | total on every source |
| Rate limits (`internal/ratelimit`) | token buckets, distinct counters in memory | allow, count | burst and rate bounds |
| HTTP, configuration, keys, storage | none, or start-up only | routing, decoding, idempotency header, JWT, password hashing | codecs |
| Client (`src/frontend`) | tokens in local storage | request, refresh on 401, log out | one refresh in flight per tab |

The parts meet in few places: a sale reads the chapter row that the writer's
operations change; the auto-unlock job calls the wallet for pairs that it found
by a scan; publication calls notifications; reading asks the wallet's unlock
rows and subscriptions; the client's retries reach the wallet with the same
idempotency key and the identity service with the same refresh token.

## What is hard here

Almost nothing in this system is hard within one request; what is hard is what
happens between two of them. `PROJECT.json` lists the hazards at their lines.
They are of seven kinds:

* **read, then lock.** Services read what they sell (a price, a quote, a
  purchase, a balance to withdraw), what they delete and what they reorder
  before the transaction that acts on it.
* **retries.** Clients resend with the same idempotency key, the job tries
  again what it could not pay, the browser refreshes again what it may have
  refreshed already.
* **several of everything.** Replicas of the worker share a scan and a calendar,
  tabs share a token, devices a shelf, slots a wallet row.
* **snapshots.** A set-valued `UPDATE` under READ COMMITTED looks at the rows
  of its snapshot only.
* **lock orders.** A follow of a whole series takes its novels' rows in an order
  that the query plan chooses; a save and a publication take two rows in opposite
  orders.
* **the calendar.** Turns after an outage, days that are rolled up before they
  are over elsewhere, months that begin without a partition.
* **money in parts.** A debit, its ledger rows, its unlock rows and its
  earnings are computed separately and have to describe the same coins.

## The modules

| Module | Code | Content |
|---|---|---|
| `Coins` | `domain/wallet/spend.go`, `wallet.go` | the planners, as operators on `[paid, bonus, expiresAt]` |
| `Bundle` | `domain/wallet/bundle.go` | quote and largest-remainder split, as functions on sets of chapters |
| `Wallet` | `service/wallet`, `repository/wallet` | requests in two steps: the service's reads build a command, `Apply` runs it |
| `Shop` | – | the abstract wallet: coins, possessions and used keys change in one step |
| `AutoUnlock` | `jobs/autounlock.go`, `repository/wallet/sales.go` | scan, take, debit, record, on several replicas; fails and crashes |
| `Sessions` | `repository/identity/sessions.go`, `service/identity`, `shared/api/client.ts`, `auth.tsx` | refresh-token rows, the browser's storage, requests in flight |
| `Payouts` | `RequestPayout`, `SumUnpaidEarnings`, `CreatePayout` | a withdrawal statement by statement |
| `Publishing` | `service/writer`, `repository/writer`, `service/notification`, the two chapter jobs of `jobs/jobs.go` | a novel's chapters, statement by statement: publication, count, fan-out, scheduled publish, re-render |
| `Counters` | `repository/library`, `repository/social`, `FollowSeries` | follows, likes and reviews with their counters: statements, row locks, deadlocks |
| `Threads` | `service/social`, `NotifyCommentReply` | comments, replies and deletions, each statement a commit of its own; extends `Counters`, whose likes hold the same rows |
| `Reading` | `service/reading`, `domain/reading` | a chapter is opened by four reads while it is sold, priced and withdrawn |
| `Shelf` | `service/library`, `service/reading`, `service/notification` | shelf, position, bookmarks and inbox of a reader with several devices |
| `Series` | `series.go` of service and repository | the books of a series, their slots and the unique index on them |
| `Manuscript` | `service/writer`, `repository/writer` | chapters as they are created and saved: number, arc, price, revisions |
| `Glossary` | `glossary.go` of service and repository, its trigger | groups, terms, the revision |
| `Calendar` | `Schedule.Next` in `jobs/scheduler.go` | when a job has its next turn |
| `Scheduler` | `jobs/scheduler.go`, `registry.go`, `withJobLock` | the loop of every replica and the advisory lock; extends `Calendar` |
| `BonusExpiry` | `BonusExpiryJob`, `ExpiryCandidates` | one night's run in batches |
| `Rollups` | `StatsRollupJob`, `PartitionJob` | a day's figures, the partitions of the event table |
| `RateLimit` | `ratelimit/limiter.go`, `middleware/ratelimit.go` | token bucket, distinct counter, sweeps |
| `Paging` | `httpx/cursor.go`, the `List` queries | a walk through a list by keyset cursors |
| `Orders` | – | what `ORDER BY` and a loop over a slice do, without operators as arguments, which the prover cannot expand (`SortSeq`, `SelectSeq`) |
| `SumTheorems` | – | lemmas on sums over functions and sets |
| `WalletProofs`, `AutoUnlockProofs`, `SessionsProofs`, `PublishingProofs` | – | theorems about the module of that name |
| `ReadersProofs` | – | theorems about `Counters`, `Threads`, `Shelf` and `Reading` |
| `WritersProofs` | – | theorems about `Payouts`, `Glossary`, `Manuscript`, `Series` and `Bundle` |
| `JobsProofs` | – | theorems about `Calendar`, `Scheduler`, `BonusExpiry`, `Rollups`, `RateLimit` and `Paging` |
| `MC*` | – | instances for TLC |

`Wallet` extends `Coins` and `Bundle` and is where they meet the database;
`AutoUnlock` uses a wallet at the level of `Shop`, so its debit is one step.
`Reading` in turn sees a purchase and a publication as one step each, and
`BonusExpiry` a write-off: what goes on inside them is the matter of `Wallet`
and `Publishing`.

`MCReaders` and `MCOffice` bring together components that share no state. A
variable `lane`, chosen at the start, says which of them moves; the others rest.
So one run asks the questions of several components without multiplying their
states. `MCBundle` enumerates the price lists of `Bundle`.

### How state and actions correspond to the code

**Wallet.** `wallet`, `ledger`, `unlocks`, `earnings` and `purchases` are the
tables of those names, `sale` the columns of a chapter row that sales read,
`subscribed` the active auto-unlock subscriptions. `request[s]` is a command
that a service method has built and not yet handed over. `UnlockChapter`,
`UnlockArc`, `TipChapter`, `CompletePurchase`, `Adjust`, `AutoUnlockChapter`
and `ExpireBonus` are the service methods up to that point, with the checks
they make on what they read. `Apply` is the whole transaction of
`repository/wallet/apply.go`: replay check, child preconditions, plan,
write-off row, entry row, child rows, balance. It takes the `FOR UPDATE` lock of
the wallet row first (of a purchase, the lock of its row too), and everything
else it checks of the reader is written under that lock, so it is one step but
for bundles. A bundle also checks the price and the status of chapters, in a
statement of its own that locks none of them (`apply.go:274`): `CheckBundle`
reads them into `seen[s]`, `ApplyCommit` pays in a later step, and in between
the slot holds the wallet row (`Holds`, `WalletFree`) while chapters may be
repriced or unpublished. `reply` holds the receipt of the last step,
for the properties about receipts. Ledger rows are abstracted to their kind,
target, deltas, balances and key; texts, times and paging are left out.

**AutoUnlock.** `attempts` is `auto_unlock_attempts`; `job[r]` is the local
state of replica r's run. The scan is one step under the advisory lock, after
which the lock is gone (the code commits the scan before it debits). `tried`
counts how often a run took a pair up, recorded or not, for `TriesBounded`; it
stops at `MaxTries`, which is more than that property allows. `auto` records
which idempotency keys `autounlock:<user>:<chapter>` were used. A cap, a price,
a publication time and the run's timestamp are the scanned ones; the price that
is debited is read again, as `AutoUnlockChapter` does.

**Sessions.** `tokens` is `refresh_tokens`, `storage` the token in local storage,
`req[c]` a request of a tab. `RotateBegin` is the `SELECT ... FOR UPDATE` with
its checks, `RotateCommit` the insert and the update, which become visible
together; `RevokeSnapshot` and `RevokeApply` are one `UPDATE`. An access token
may expire at any moment, so a refresh may start at any moment. A page that is
reloaded leaves its refresh behind as an *orphan*: the server finishes it, and
nobody hears the answer. `StaysSignedIn` is claimed as long as nothing fails and
the reader has not logged out: a fault (a lost answer, a status 500, a reload)
costs the session by the design of the reuse detection, and after a log-out the
late answer of a refresh may still clear the token of the next log-in.

**Payouts.** `SumEarnings`, `SumPayouts` and `CreatePayout` are the three SQL
statements; `earned` and `requested` are the sums over the two tables.

**Publishing.** `row` and `body` are a chapter's rows in `chapters` and
`chapter_bodies`, `count`, `glossary` and `follows` the novel's, `told` the
notifications, as a set because of their unique index. `txn[s]` is a request
and how far it got; `release` and `render` are the current runs of the two
jobs, whose advisory lock lasts as long as their transaction. A statement is a
step; what a transaction writes is visible when it commits, and the rows it has
written are locked until then (`RowLocked`, `BodyLocked`). The texts are left
out: of a body the module keeps the revision of the glossary that it was
rendered with (`terms`) and the revision that it is stamped with (`stamp`).
`outdated` and `drifted` observe which recounts had read a snapshot that another
commit has overtaken. `PublishRow` is two statements, the update of the row and
the recount: between them the transaction holds locks and reads nothing, so a
step in between can as well come before or after both.

**Counters.** `links` is the rows of `follows` and `comment_likes`, `count` the
counter in the novel's or the comment's row, `reviews` and `rating` the reviews
and the aggregate. A request `ask[q]` is one transaction: `step` is the
statement it is at, `todo` the rows that the statement has still to write,
`touched` what it has written and not committed, `locked` the rows it holds. A
statement that finds a row locked waits; if the waits form a cycle, one of its
requests is rolled back, as the database does. `FollowMany` meets the counters
in any order. What a follow of a series follows is read earlier, from an order
that the history gives and that may change. A history says which requests are
there, `Histories` which are looked at.

**Threads.** `comments` are the rows, `notices` the reply notifications. A post
reads the parent, inserts, reads it again and tells its author; a deletion reads
and then deletes. `stage` is how far a call got. A deletion waits for a like
that holds the row.

**Reading.** `chapter` is the row, `owners` and `subscribers` the readers with
an unlock or a subscription. `view[o]` goes from the chapter to the unlock, the
subscription and the body, and each step sees what holds then. The history
variables `had` and `held` collect the facts that held at some, and at every,
moment of the request; the two properties about access are stated with them, as
nothing sharper can be said of reads at different moments.

**Shelf.** A request of `device` reads the clock, or the row, in one step and
writes in the next. `position` keeps what was written last; a bookmark's id is
never handed out twice.

**Series.** `book[n]` is `series_id` and `series_position` of a novel, a NULL
position being the empty set. `ReorderSeries` is the read of the books, and `NegateAll`
and `AssignAll` are the two updates of the transaction, which park the slots
below zero and write them again; `DeleteSeries` is two updates as well. Uniqueness is checked row by row
while a statement runs, so a legal result may fail on the way. `alone` marks
reorders that nothing disturbed, of which `ReorderAsAsked` speaks.

**Manuscript.** `settings` are the novel's price and free chapters, `arcs` the
ranges, `chapters` the rows, `history` the drafts by chapter, each stamped with the
moment of its write (`saved_at`). A save reads the chapter,
resolves the arc and runs its transaction; a number is in the unique index when
it is written and free for others when the transaction ends. `texts` and
`resolved` record, for the properties, what was ever saved or answered.

**Glossary.** `groups`, `terms` and `rev` are the tables and `glossary_rev`,
`desk[d]` a request that has looked up what it is about. The deletion of a group
counts its terms first; `since` records those created after the count.

**Calendar and Scheduler.** Time is in slots. `due` is the time left until a
job's next turn, below zero when it is late, which keeps the states finite;
`running` is the one job a replica runs, `lock` the advisory locks, `up` the
replicas that run. A turn that finds the lock taken is skipped. `Tick` waits
for jobs that are due on an idle replica, since starting one takes no time.

**BonusExpiry.** `bonus` is when a reader's bonus lapses, `job` the run: the
time it goes by, the batch in hand, the readers it wrote off, whose rows stay
locked; `job.step` then says whether the run committed ("done") or returned an
error ("failed"). `overtaken` are readers who changed their wallet meanwhile; they write
off their own.

**Rollups.** `reads` and `sales` are the events by day, `daily` and `total` the
figures, `parts` the months with a partition, `strays` those with rows in the
DEFAULT partition. The worker's day may begin earlier than the database's.

**RateLimit.** `buckets` and `seen` are the limiter's maps. A request reads the
clock in `asked` and gets the mutex later, up to `Lag` ticks; `tries` and
`opened` record what was let through and when. Credit is counted in parts of a
token, in place of fractions.

**Paging.** `rows` are the list, `walk` the reader's cursor, `listed` how often
each row was shown, `steady` those that stayed in their place. The lists with
their keys and filters are the ones of the repositories.

## Runs and bounds

| Run | Bounds | Question |
|---|---|---|
| `shop` | one buyer with two requests in flight and one key; two chapters, one with a translator, in one arc; two prices; three ledger rows before the last request | can requests that overlap charge twice, can a quote that is stale when it is checked, or a chapter bought meanwhile, slip into a bundle, whose check and commit are apart, do the rows of a debit agree with none missing, is a receipt about what was asked, do two-step requests behave as one step |
| `arc_key` | one buyer, one key, two arcs of a chapter each | documented, not so (below) |
| `topup` | two purchases, completion, failure, retries, lapse of bonus, corrections | is a purchase credited once, and lapsed bonus written off in order |
| `autounlock_race` | two replicas, one reader, one chapter, all events, one fault of each kind | can replicas that overlap with everything charge twice or try again without end (`TriesBounded`) |
| `autounlock_fair` | one candidate per batch, two readers of whom the first is short, one chapter, one crash or lost record, three ticks | does the scan reach everybody, does every subscriber with coins get the chapter |
| `autounlock_cap` | one reader, one replica, a price that is raised | documented, not so (below) |
| `sessions_logout` | two requests, four tokens, no fault | documented, not so (below) |
| `payouts_twice` | two requests of one translator | documented, not so (below) |
| `publishing` | one chapter or two, two requests, two followers in pages of one, batches of one, two glossary edits, two ticks, one fault; eight kinds of history | are bodies stamped truthfully, is the count right, is every follower told, does what is stale or scheduled get its turn |
| `readers` | eleven histories of at most three requests or calls, two novels of a series, three comments, one failed transaction; one request for a chapter with five visitors, two changes and three hours; two readers with two devices, one bookmark and one notification, two writes; one tab with two requests (and an orphan when the page is reloaded), four tokens, two log-ins, one fault of any kind, expiry and sweep | do counters match their rows whatever overlaps, is everybody answered, are replies told, does a body reach those and only those who may read, does a row stay its owner's, is a family of tokens always a chain, does a reader stay signed in |
| `office` | per component, see below | do series, saves, the glossary, withdrawals, bundles, jobs, figures, limits and lists keep what they promise |
| `partitions` | three days, each a month | documented, not so (below) |

The bounds of `office`: three books in two series, two requests of three, an
order that omits a book and one that names a book twice and a stranger; two
chapters, arcs, numbers and requests, one revision kept, three saves; two groups,
two terms, two requests of five; two translators with one withdrawal each, up to four
coins; bundles of up to four chapters with prices up to six, at a discount of
30 %; a calendar of two slots a day, weeks of two days, months of three days and
of one, and a time zone one slot ahead; two replicas, a job of each rule, runs
of up to two slots, one stop; three readers in batches of two, one top-up; two
chapters, days of two hours, three days, three events; two callers, bodies and
workers, one attempt in two ticks, one body in a window of three, a sweep at two
entries, a lag of one tick; three rows in pages of one, and two disturbances.
The run has 410 thousand states, the run `readers` 390 thousand; each takes
two minutes.

The bounds are chosen so that every guard is true in some state and false in
another, and every action is taken by a run that passes. Two actors are
enough for most conflicts in this code, because each is about one row: a third
request finds what the second found. A deadlock takes two rows and two requests,
and `readers` adds a third. Weeks, months and windows are as short as they can
be and still differ from each other; arithmetic on them does not depend on their
length. Where that argument is not
enough, the theorems below hold for every bound. `CHECK_DEADLOCK FALSE` is set
because clocks, keys and rows are bounded: when they are used up the model
stops, the program would not.

All of `Publishing` at once has too many states for TLC. `Uses` names the
histories to look at, each by what happens in it besides creating and
publishing (edits of the glossary, schedules, saves, a second chapter, requests
that overlap, ...). The run takes the combinations in which one part disturbs
another: saves and publications of one chapter, which take its two rows in
opposite orders and deadlock, with either job waiting for the same rows, two
chapters with overlapping requests or with either job, schedules with
unpublishing and faults, followers with faults. The theorem about stamps holds of all at once.

`Counters` and `Threads` have histories for the same reason: each names the
requests of one situation (a series is followed while it is reordered; a reader
likes and unlikes from two tabs; a comment is deleted by its author and by the
translator while it is being answered).

The two slots of the `Wallet` runs and the replicas of `autounlock_race` are
interchangeable, so TLC explores them up to symmetry; the runs with liveness
properties use none.

Each property is paired in `PROJECT.json` with a *mutant*: a definition beside
the original that a plausible mistake would have produced (a dropped guard, a
stale comparison, an unlocked read). With the mutant in place the same run
finds the property violated.

## Fairness

`AutoUnlock`, `Publishing`, `Counters` and `Scheduler` have liveness properties.
`AutoUnlock!FairSpec` assumes weak fairness of `Run(r)`, the steps that a run
takes by itself: the scheduler (`jobs/scheduler.go`) starts the job every minute
on every replica that is up, "one failing job must never stop the scheduler",
and a run has no wait except the database. `Publishing!FairSpec` assumes strong
fairness of what each request in flight does next and of the two jobs: both wait
for row locks, which requests take and release for ever, and PostgreSQL queues
those who wait, first come first served. `Counters!FairSpec` assumes weak
fairness of `Serve(q)`: a request has a goroutine of its own, the histories are
finite, and the database resolves a deadlock after a second.
`Scheduler!SchedulerSpec` assumes weak fairness of time and of each replica's
loop: a timer fires, a run ends, and a stopped replica is started again by
whatever supervises the process. Nothing is assumed of readers, translators,
clocks in the other modules or faults; faults are bounded by `MaxFaults` (stops by
`MaxStops`), so "in the end" means after the last of them.

## Theorems

All proofs are checked by TLAPS, for every value of the constants that meets
the named assumptions in the modules: any number of users, chapters, keys,
requests, replicas, tabs, tokens, any prices, histories, calendars and settings.
Every invariant and every action property of a run that passes has a theorem
with its statement; the assumptions beyond those that say of what kind a
constant is are named below. Each theorem `Spec => []P` rests on an invariant
that says what the steps under way *know*: what a transaction has read and not
used yet, or written and not committed.

**Wallet** (`WalletProofs`).

* `TypeCorrect`: balances stay natural numbers, so no interleaving overdraws.
  The invariant needs that every command in flight is well formed (`Commands`,
  proved in the same induction; `CommandsCorrect`).
* `RunningTotalCorrect`, `ReconcilesCorrect`: each row continues the one before
  it, and the last is the balance; the sum of all deltas follows by induction
  over steps with `SumTheorems!SumAdd`.
* `OneRowPerKeyCorrect`, `OneDebitPerChapterCorrect`: one row per key; one unlock row
  per reader and chapter, and each single debit is the one that its unlock row
  names.
* `PurchaseCreditedOnceCorrect`: a purchase that succeeded has one credit, any
  other none.
* `ReceiptsTruthfulCorrect`: `Accounting` ties each entry row to the unlock and
  earning rows that it was written with, in both directions (each chapter that
  has a translator to credit has its earning, and no other earning is there);
  later steps only add rows, and under other row numbers.
* `BundleAtCheckedPricesCorrect`: the total was computed from the prices that the
  quote read; a bundle that was checked has found these prices, of published
  chapters, all in one statement after its lock (`Checked`), and as it holds the
  wallet row alone, its key stays unused and its chapters unowned until it
  commits (`HoldersOK`). That the prices still hold *when* it commits is not so.
* `WalletImplements`: with the mapping coins = paid + bonus, owned = unlock rows,
  done = keys in the ledger, every step of `Wallet` is a step of `Shop` or leaves it
  unchanged.

**Auto-unlock** (`AutoUnlockProofs`). `TriesBounded`, that a pair is taken up
`MaxAttempts` times, at most once more for every further replica that had it in
hand, and once more for every crash or lost record, is not inductive. The
invariant has two parts: what is in the log plus what replicas have in hand is
bounded (`Bounded`), and a try that is neither in the log nor in hand cost a fault
(`Counted`). `LogTruthful` needs that a run about to
record "unlocked" has debited; `PaysForNewChapters` follows from the type
invariant and what a run has in hand (`Known`).

**Sessions** (`SessionsProofs`). `FamilyIsChain` needs that a rotation which holds
its row finds it live when it commits: everything that would change the row
waits for the lock, and no two rotations hold the same row (`Exclusive`).
`StaysSignedIn` is proved for a reader with one tab (`SingleTab`), as the run has it,
and any number of requests in it: as long as there was no trouble, the stored token can still
be exchanged, or the one refresh that exchanged it is still going to
answer (`Smooth`).

**Publishing** (`PublishingProofs`). `Honesty` follows a revision of the glossary from
where it is read to where it is stamped: requests and runs read the revision
before the terms, and an edit only makes revisions grow, so what they are about
to write is honest as well. `Counting` says of a recount that was not overtaken that
what it is about to write is the number of chapters that will be visible when it
commits. `Reaching` says of a fan-out under way that those followers behind its
cursor have been told. The one assumption is that the name `"release"` of the
scheduled run is not also the name of a request.

**Readers** (`ReadersProofs`).

* `CountersMatchCorrect`, `RatingHealsCorrect`: the counter is the number of rows before
  *and* after each commit, because what a transaction has written is what its
  commit will count: each row that it touched was not there (or was), each is
  bumped once, and no other request of that reader touches it (`Stepwise`,
  `Counted`, `Apart`; the row locks and the unique index give the last). A review that is
  alone with its novel has read all the others (`ReviewRows`, `Alone`).
* `AnswersTruthfulCorrect`: what a call has read of a comment is still so when it acts
  (`Dropping`, `Posting`), because rows neither go nor change but for the mark of
  deletion, which is never taken back (`CommentsGrow`); a call that answers "posted" has told
  (`Told`), and each notice is about a reply (`NoticeRight`).
* `RowsStayTheirsCorrect`: the owner that a device read of a bookmark is its owner
  still, as an id is not handed out twice (`SeenOwner`). The owner of no row,
  `Nobody`, is not an owner.
* `BodyOnlyToEntitledCorrect`, `EntitledAreServedCorrect`: what a request has read of the chapter,
  the unlock and the subscription was so at some moment of it, and what held at all
  moments is what it has read (`Known`); the answer is computed from nothing else.

**Writers** (`WritersProofs`).

* `PayoutsCoveredCorrect`, under the assumption `OneAtATime` that no translator sends two
  requests at once: what a request has read is a lower bound of the earnings and
  exactly the payouts. The run `payouts_twice` shows that the assumption is needed.
* `TermsNoticedCorrect`: a request about to delete a group knows which terms were there
  when it counted (`DeskKnows`); 0, the group of no term, is not a group.
* `HistoryKeepsNewestCorrect`, `PlacedTogetherCorrect`: drafts carry the time of the
  row's lock, so the drafts of a chapter and the one under way are ordered by it
  (`Stamped`, `DraftsKept`); the number and the arc that are going to be written
  are a pair that was resolved (`Placed`).
* `FairSplitCorrect`: floors of the proportional shares leave fewer coins than there are
  chapters; who gets one of those left is decided by remainders, and equal remainders by
  position, so exactly that many do.
* `SeriesInvCorrect`: positions are unique, rows under change are held by one request each,
  and what a reorder that has only its commit before it has written fits the
  committed rows. Its part about the reorders that nobody disturbs (`SoloOK`) follows each
  of the two statements row by row: the parked rows are apart because the
  positions were, the new ones because they are a permutation of 1, 2, ...
* `ReorderAsAskedCorrect`: such a reorder ends with its commit, after which the rows stand
  as the client asked (`InTheirPlaces`); only a position that was negative before can
  make it trip over the index.

**Jobs** (`JobsProofs`).

* `NoJobIsStarvedCorrect`: a job that waits is late by no more than the runs of those
  that are due after it can have taken (`InTurn`), because a job that has run is
  due again behind all that wait. At least one job has a schedule.
* `TurnsAreFirstCorrect`: lemmas about the calendar, of which the one about months
  sums days; days of the month and slots of the day are in their range.
* `NightlyWriteOffCorrect`: a batch that is not full held all that was left
  (`RunRight`), and no top-up brings a bonus that lapses before the run's time, so
  a run that commits has left none to anybody; a write-off finds nothing only
  if its reader was overtaken.
* `FiguresFinalCorrect`, as stated where the worker's day is the database's: a day that is
  over stays as it was folded (`DayFolded`). `NoStraysCorrect`: the months up to the
  one after the last turn have a partition (`Provided`).
* `LimitsHoldCorrect`: the credit left and the requests let through add up to what time
  has given; a bucket that is dropped would have been full. This needs that a
  request waits for the mutex no longer than half a period (`2 * Lag <= Per` in
  `RateAssumption`): one that was held up for longer could be charged to a
  bucket made anew. The periods are minutes, the wait is for a map access.
* `ListedOnceCorrect`: what is behind the cursor and stood still has been shown once,
  what is ahead of it not at all (`PagingOK`).

The type invariants, `Reconciles` (which no run needs to look for once the running
total is right) and `SeriesInv` are proved and not listed by a run.

Left to TLC are the six liveness properties (`EveryPairDecided`,
`PayingSubscriberServed`, `BodyCatchesUp`, `ScheduledGoesLive`,
`EveryRequestAnswered`, `SchedulerKeepsRunning`), since fairness and ENABLED are
beyond the prover, and the five statements that do not hold. Sums and folds are
used in the proofs through their recursion equation, never by induction over data:
induction is over the steps of the system, or by a smallest counterexample among
the subsets of a finite set (`SumTheorems!MinimalSubset`), which the library has
well-founded.

## Where the code and its documentation disagree

| Run | What the run shows |
|---|---|
| `arc_key` | a key that unlocked one arc, sent again for another, is answered with the first arc's receipt: `UnlockArc` compares keys only, although `repository/wallet/apply.go:181` calls such a reuse a conflict |
| `autounlock_cap` | a price raised between scan and debit is paid although it is above the reader's cap |
| `sessions_logout` | a log-out during a refresh leaves the successor token live, although it is said to revoke the whole family |
| `payouts_twice` | two withdrawals at once are both granted from one balance, although the request is said to be capped |
| `partitions` | once a read lands in the DEFAULT partition, the job that makes sure of partitions creates none any more, neither of that month nor of the next, so the next boundary is crossed without one |

Some properties are stated with a condition, or not at all, because the code does
not do better without it. Money and sessions:

* because of `arc_key`, `ReceiptsTruthful` asks of the receipt for an arc only
  that it is an arc's; a bundle is paid at the prices of its check, which a
  translator may change before it commits, as the comment at `apply.go:274` has it;
* a single unlock pays the price that it read before the lock, and its retry may
  find the sale gone before it finds the key; the outcomes `skipped` and
  `over_cap` of an auto-unlock are final, whatever changes later;
* two tabs that meet a 401 together present the same token, and the second
  signs the reader out (`client.ts:114` shares a refresh within one tab); a
  refresh that answers after a log-out stores its token all the same
  (`client.ts:129`); a page that fails to load `/auth/me` for any reason
  forgets the session (`auth.tsx:39`);
* a reader who is faster than the write-off ends the night's run for everybody,
  as the error rolls back the whole transaction: `NightlyWriteOff` promises
  something of runs that commit, and says when a run can fail.

Readers:

* two reviews that overlap can leave the aggregate without one of them, although
  `repository/social/repository.go:268` says that it cannot drift; the next
  review repairs it (`RatingHeals`);
* a follow of a series can deadlock with another, or with a review: one of
  them is answered with an error (`EveryRequestAnswered` counts it as an answer);
* the owner of a chapter that is free by now is not asked for the unlock
  (`service/reading/service.go:49`), and so not served in early access,
  although `visibility.go` lets owners in: `EntitledAreServed` leaves out
  chapters that are free at some moment;
* a walk through a list sorted by what changes meanwhile (popularity, likes)
  may meet a row twice or not at all; `ListedOnce` is about rows that stay in
  their place;
* the limiter's clock is read before its mutex, so a caller may get by with two
  lags less than the period; every replica has limits of its own.

Writers and jobs:

* the chapter count drifts when two recounts overlap, and when a chapter becomes
  due between the scan and the update of the scheduled-publish job; the next
  recount repairs it (`CountMatches`);
* the scheduled publish renders nothing and notifies nobody, so
  `FollowersReached` is about manual publications, although a comment
  (`jobs/jobs.go:178`) says that the two behave alike;
* the re-render job shows text that was saved and not published, and may put
  back an older text than a publication that read an older revision; texts are
  left out of `Publishing`; publishing again stamps `public_at` anew;
* a novel that joins a series in the middle of a reorder, or moves to another with
  its slot, ends at a slot that nobody gave it (below zero, or between the others),
  although `series.go:194` says that it keeps its place; the deletion of a
  series numbers the books that it is about to release;
* `DeleteGlossaryGroup` counts the terms and then deletes with a cascade, so a
  term that is added in between goes too, and the revision does not show it;
* a save that sends no number writes back the number and the arc that it has read,
  so it takes back a renumbering by another save in between; the chapters up to
  `free_until_chapter` are free when they are created, and a later save may
  price them; a number that is taken is answered with an internal error;
  arcs that move leave their chapters where they are (`PlacedTogether` speaks of
  the arcs as the request read them);
* a night that the rollup misses is never made up, coins of a chapter without
  reads get no row, and the day is the worker's while the events are the
  database's; `FiguresFinal` says what is left.

## Plan

What is here: coins and everything that moves them, with their theorems;
sessions; publication with its jobs; counters, comments, reading and shelves;
series, chapters and glossary; the scheduler and the jobs with a state of their own;
limits and lists. What is left, in order:

1. `Publishing` further: `public_at` with the early-access window, the texts; an
   abstract specification "a reader sees what was published, followers are told
   once" and its refinement, with `Reading` composed with it and with `Wallet`.
2. More about what is proved: that `AutoUnlock`'s debit, whose wallet is a number, is
   the step of `Shop` that `Wallet` was shown to implement; that `Reading` and
   `BonusExpiry` see no more of a sale than `Shop` does.
3. Relations between novels and the ranking job, whose rerun keeps ranks that
   are no longer given.

## Not modelled, and why

Filters, search and the pages of the catalog are read-only SQL; so are the
reconcile and ranking jobs, which are single statements and whose results decide
nothing. Accounts and preferences, titles, notes and relations between novels are
single-row reads and writes with validation. Passwords, JWTs and
HTML rendering are string and byte work without state, as is the generation
of slugs. Configuration, start-up and file storage are I/O. Screens are
presentation. Database failures
other than a rolled-back or a committed-but-unanswered transaction are left
out: PostgreSQL's atomic commit and row locks are taken as they are documented,
under READ COMMITTED, the isolation level that the code uses throughout.
