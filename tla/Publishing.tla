------------------------------ MODULE Publishing ------------------------------
(***************************************************************************)
(* From an author's draft to a published chapter that its followers hear   *)
(* of (service/writer, repository/writer, service/notification), and the   *)
(* two jobs that change chapters behind the author's back: one publishes   *)
(* what was scheduled, one renders bodies again when the novel's glossary  *)
(* has changed (jobs/jobs.go).                                             *)
(*                                                                         *)
(* One novel.  Every transaction is a sequence of statements under READ    *)
(* COMMITTED: a read sees what is committed at that moment, a write takes  *)
(* the row's lock, waits for whoever holds it, and becomes visible with    *)
(* the commit.  A save locks the chapter's row and then its body, a        *)
(* publication the body and then the row, so the two can block each other  *)
(* until the database rolls one of them back.                              *)
(***************************************************************************)
EXTENDS Integers, FiniteSets

CONSTANTS
    Chapter,
    Follower,       \* readers who may follow the novel, by user id
    Slot,           \* requests served at the same time
    Uses,           \* the histories to look at: what happens in each
    Lead,           \* how far ahead a publication is scheduled; 0: at once
    Batch,          \* chapters that one run of the re-render job takes
    PageSize,       \* followers that are read at a time (fanOutBatch)
    MaxTime, MaxRev, MaxFaults                      \* bounds for TLC

ASSUME SetAssumption    == /\ IsFiniteSet(Chapter) /\ "release" \notin Slot
                           /\ IsFiniteSet(Follower) /\ Follower \subseteq Nat \ {0}
ASSUME UseAssumption    ==
    Uses \subseteq SUBSET {"more", "overlap", "save", "schedule", "unpublish",
                           "glossary", "follow", "fail"}
ASSUME PolicyAssumption == /\ Lead \subseteq Nat
                           /\ Batch \in Nat \ {0} /\ PageSize \in Nat \ {0}
ASSUME BoundAssumption  == /\ MaxTime \in Nat /\ MaxRev \in Nat
                           /\ MaxFaults \in Nat

VARIABLES
    uses,       \* which of Uses this history is
    now,
    row,        \* [Chapter -> Row]: chapters
    body,       \* [Chapter -> Body]: chapter_bodies
    glossary,   \* novels.glossary_rev; the terms change with it
    count,      \* novels.chapters_count
    follows,    \* who follows the novel
    told,       \* SUBSET (Follower \X Chapter): new_chapter notifications
    txn,        \* [Slot -> a request in flight or Idle]
    release,    \* the run of the scheduled-publish job
    render,     \* the run of the re-render job
    outdated,   \* recounts under way whose snapshot misses a later commit
    drifted,    \* the last recount that was written was such a one
    faults

vars == <<uses, now, row, body, glossary, count, follows, told, txn, release,
          render, outdated, drifted, faults>>
novel    == <<uses, glossary, follows>>
chapters == <<row, body, count, outdated, drifted>>

-----------------------------------------------------------------------------

Unset == -1             \* NULL, for a time
Times == Nat \cup {Unset}

Row  == [status: {"none", "draft", "scheduled", "published"}, dueAt: Times]

(* "terms" is the revision of the glossary that body_html was rendered     *)
(* with, "stamp" the one that glossary_rev says.                           *)
Body == [terms: Nat, stamp: Nat]

NoRow  == [status |-> "none", dueAt |-> Unset]
NoBody == [terms |-> 0, stamp |-> 0]

Idle == [op |-> "none", step |-> "idle"]

Written   == {c \in Chapter : row[c].status # "none"}
Published == {c \in Chapter : row[c].status = "published"}

(* A publication that is to happen at once has no due time.                *)
Immediate(s) == txn[s].due = Unset

(* Who holds a row's lock until its transaction ends.                      *)
RowLocked(c) ==
    \/ \E s \in Slot : /\ txn[s].op # "none" /\ txn[s].chapter = c
                       /\ \/ txn[s].op = "save"
                          \/ txn[s].step = "commit"
    \/ c \in release.due
BodyLocked(c) ==
    \/ \E s \in Slot : /\ txn[s].op = "publish" /\ txn[s].chapter = c
                       /\ txn[s].step \in {"row", "commit"}
    \/ render.step # "idle" /\ c \in DOMAIN render.done

(* A history without "overlap" has one request at a time.                  *)
MayBegin(s) ==
    txn[s] = Idle /\ ("overlap" \in uses \/ \A t \in Slot : txn[t] = Idle)

Put(s, x) == txn' = [txn EXCEPT ![s] = x]

-----------------------------------------------------------------------------
(* chapters_count: recounted by every publication.  The subquery counts    *)
(* what its statement's snapshot and the transaction itself see, and the   *)
(* sum is written when the novel's row lock is free.                       *)

(* Mutant: chapters that are scheduled count as well.                      *)
RecountOfScheduled(added, removed) ==
    Cardinality({c \in (Written \cup added) \ removed :
                    c \in added \/ row[c].status # "draft"})

Recount(added, removed) == Cardinality((Published \cup added) \ removed)

(* Recounts whose statement has begun and is not yet committed.            *)
Recounting ==
    {s \in Slot : txn[s].step = "commit"}
        \cup IF release.step = "commit" THEN {"release"} ELSE {}

(* A commit leaves every other recount under way behind.                   *)
CommitCount(who, n) ==
    /\ count' = n
    /\ drifted' = (who \in outdated)
    /\ outdated' = (outdated \cup Recounting) \ {who}

-----------------------------------------------------------------------------
(* The author's requests.                                                  *)

CreateChapter(c) ==
    /\ row[c].status = "none"
    /\ Written = {} \/ "more" \in uses
    /\ row'  = [row EXCEPT ![c] = [NoRow EXCEPT !.status = "draft"]]
    /\ body' = [body EXCEPT ![c] = NoBody]
    /\ UNCHANGED <<now, novel, count, told, txn, release, render, outdated,
                   drifted, faults>>

(* SaveChapter's first statement, which sets what is not modelled here     *)
(* (title, number, price) and takes the row's lock ...                     *)
SaveRow(s, c) ==
    /\ "save" \in uses
    /\ MayBegin(s) /\ c \in Written
    /\ ~RowLocked(c)
    /\ Put(s, [op |-> "save", step |-> "body", chapter |-> c])
    /\ UNCHANGED <<now, novel, chapters, told, release, render, faults>>

(* ... and the upsert of the body: a new source, the same html and stamp.  *)
SaveBody(s) ==
    /\ txn[s].op = "save"
    /\ ~BodyLocked(txn[s].chapter)
    /\ Put(s, Idle)
    /\ UNCHANGED <<now, novel, chapters, told, release, render, faults>>

(* PublishDecision by the service, then the reads of chapter and novel.    *)
PublishBegin(s, c, lead) ==
    /\ MayBegin(s) /\ c \in Written
    /\ lead > 0 => "schedule" \in uses /\ now + lead <= MaxTime
    /\ Put(s, [op |-> "publish", step |-> "render", chapter |-> c,
               due |-> IF lead > 0 THEN now + lead ELSE Unset, rev |-> glossary])
    /\ UNCHANGED <<now, novel, chapters, told, release, render, faults>>

(* The source and the terms are read after the revision that is stamped.   *)
PublishRender(s) ==
    /\ txn[s].op = "publish" /\ txn[s].step = "render"
    /\ Put(s, [op |-> "publish", step |-> "write", chapter |-> txn[s].chapter,
               due |-> txn[s].due, new |-> [terms |-> glossary, stamp |-> txn[s].rev]])
    /\ UNCHANGED <<now, novel, chapters, told, release, render, faults>>

PublishBody(s) ==
    /\ txn[s].op = "publish" /\ txn[s].step = "write"
    /\ ~BodyLocked(txn[s].chapter)
    /\ Put(s, [txn[s] EXCEPT !.step = "row"])
    /\ UNCHANGED <<now, novel, chapters, told, release, render, faults>>

(* The row is stamped, and the recount takes its snapshot.                 *)
PublishRow(s) ==
    LET x == txn[s]
    IN  /\ x.op = "publish" /\ x.step = "row"
        /\ ~RowLocked(x.chapter)
        /\ Put(s, [op |-> "publish", step |-> "commit", chapter |-> x.chapter,
                   new |-> x.new,
                   row |-> IF Immediate(s)
                           THEN [status |-> "published", dueAt |-> Unset]
                           ELSE [status |-> "scheduled", dueAt |-> x.due],
                   counted |-> IF Immediate(s) THEN Recount({x.chapter}, {})
                               ELSE Recount({}, {x.chapter})])
        /\ UNCHANGED <<now, novel, chapters, told, release, render, faults>>

(* Only a chapter that is published now is announced.                      *)
PublishCommit(s) ==
    LET x == txn[s]
        c == x.chapter
    IN  /\ x.op = "publish" /\ x.step = "commit"
        /\ body' = [body EXCEPT ![c] = x.new]
        /\ row' = [row EXCEPT ![c] = x.row]
        /\ CommitCount(s, x.counted)
        /\ IF x.row.status = "published"
           THEN Put(s, [op |-> "notify", step |-> "page", chapter |-> c, after |-> 0,
                        sent |-> 0, audience |-> follows])
           ELSE Put(s, Idle)
        /\ UNCHANGED <<now, novel, told, release, render, faults>>

UnpublishRow(s, c) ==
    /\ "unpublish" \in uses
    /\ MayBegin(s) /\ c \in Written
    /\ ~RowLocked(c)
    /\ Put(s, [op |-> "unpublish", step |-> "commit", chapter |-> c,
               counted |-> Recount({}, {c})])
    /\ UNCHANGED <<now, novel, chapters, told, release, render, faults>>

UnpublishCommit(s) ==
    LET x == txn[s]
    IN  /\ x.op = "unpublish"
        /\ row' = [row EXCEPT ![x.chapter] = [NoRow EXCEPT !.status = "draft"]]
        /\ CommitCount(s, x.counted)
        /\ Put(s, Idle)
        /\ UNCHANGED <<now, novel, body, told, release, render, faults>>

-----------------------------------------------------------------------------
(* NotifyNewChapter: followers are read page by page and told.             *)

Smallest(S, n) == {f \in S : Cardinality({g \in S : g < f}) < n}

(* Mutant: the next page skips as many followers as were told.             *)
PageByOffset(x) == Smallest(follows \ Smallest(follows, x.sent), PageSize)

Page(x) == Smallest({f \in follows : f > x.after}, PageSize)

NotifyPage(s) ==
    LET x    == txn[s]
        page == Page(x)
    IN  /\ x.op = "notify"
        /\ told' = told \cup (page \X {x.chapter})
        /\ IF Cardinality(page) < PageSize
           THEN Put(s, Idle)
           ELSE Put(s, [x EXCEPT !.sent = x.sent + PageSize,
                                 !.after = CHOOSE f \in page : \A g \in page : g <= f])
        /\ UNCHANGED <<now, novel, chapters, release, render, faults>>

-----------------------------------------------------------------------------
(* What ends a request early.                                              *)

(* Rolled back, or the fan-out breaks off; the service ignores its error.  *)
Fail(s) ==
    /\ txn[s] # Idle
    /\ "fail" \in uses /\ faults < MaxFaults
    /\ faults' = faults + 1
    /\ Put(s, Idle)
    /\ outdated' = outdated \ {s}
    /\ UNCHANGED <<now, novel, row, body, count, drifted, told, release, render>>

(* A save and a publication of one chapter wait for each other; the        *)
(* database rolls one of them back.                                        *)
DeadlockVictim(s) ==
    /\ \E t, u \in Slot :
          /\ txn[t].op = "save" /\ txn[u].op = "publish"
          /\ txn[t].chapter = txn[u].chapter /\ txn[u].step = "row"
          /\ s \in {t, u}
    /\ Put(s, Idle)
    /\ UNCHANGED <<now, novel, chapters, told, release, render, faults>>

-----------------------------------------------------------------------------
(* PublishScheduledJob, one run at a time.                                 *)

(* Mutant: only what is due in this very minute.                           *)
DueThisMinute(c, at) == row[c].status = "scheduled" /\ row[c].dueAt = at

Due(c, at) == row[c].status = "scheduled" /\ row[c].dueAt <= at

NoRelease == [step |-> "idle", at |-> 0, recount |-> FALSE, due |-> {}]

(* Whether the novel is recounted is decided before the UPDATE.            *)
ReleaseScan ==
    /\ release = NoRelease
    /\ release' = [step |-> "update", at |-> now, due |-> {},
                   recount |-> \E c \in Chapter : Due(c, now)]
    /\ UNCHANGED <<now, novel, chapters, told, txn, render, faults>>

ReleaseUpdate ==
    LET due == {c \in Chapter : Due(c, release.at)}
    IN  /\ release.step = "update"
        /\ \A c \in due : ~RowLocked(c)
        /\ release' = IF due = {} /\ ~release.recount THEN NoRelease
                      ELSE [step |-> "commit", at |-> release.at, due |-> due,
                            recount |-> release.recount, counted |-> Recount(due, {})]
        /\ UNCHANGED <<now, novel, chapters, told, txn, render, faults>>

ReleaseCommit ==
    /\ release.step = "commit"
    /\ row' = [c \in Chapter |->
                 IF c \in release.due
                 THEN [row[c] EXCEPT !.status = "published"]
                 ELSE row[c]]
    /\ IF release.recount
       THEN CommitCount("release", release.counted)
       ELSE /\ drifted' = TRUE
            /\ outdated' = (outdated \cup Recounting) \ {"release"}
            /\ UNCHANGED count
    /\ release' = NoRelease
    /\ UNCHANGED <<now, novel, body, told, txn, render, faults>>

-----------------------------------------------------------------------------
(* GlossaryRerenderJob, one run at a time.                                 *)

(* Mutant: only published chapters are rendered again.                     *)
StalePublished(c) == c \in Published /\ body[c].stamp < glossary

Stale(c) == c \in Written /\ body[c].stamp < glossary

NoRender == [step |-> "idle"]

(* The chapters of the batch are read with the revision that is stamped.   *)
RenderScan ==
    /\ render = NoRender
    /\ \E S \in SUBSET {c \in Chapter : Stale(c)} :
          /\ S # {}
          /\ Cardinality(S) <= Batch
          /\ Cardinality(S) = Batch \/ \A c \in Chapter : Stale(c) => c \in S
          /\ render' = [step |-> "next", rev |-> glossary, todo |-> S, done |-> << >>]
    /\ UNCHANGED <<now, novel, chapters, told, txn, release, faults>>

(* The terms are read anew for every chapter ...                           *)
RenderRead(c) ==
    /\ render.step = "next" /\ c \in render.todo
    /\ render' = [step |-> "write", rev |-> render.rev, todo |-> render.todo \ {c},
                  done |-> render.done, chapter |-> c, terms |-> glossary]
    /\ UNCHANGED <<now, novel, chapters, told, txn, release, faults>>

(* Mutant: the body is stamped with the revision of the moment it is       *)
(* written.                                                                *)
NewestStamp == glossary

ScannedStamp == render.rev

(* ... and the body is written, unless it is fresh by now.  "done" maps    *)
(* the chapters that were written to the bodies they get.                  *)
RenderWrite ==
    LET c == render.chapter
    IN  /\ render.step = "write"
        /\ ~BodyLocked(c)
        /\ render' = [step |-> "next", rev |-> render.rev, todo |-> render.todo,
                      done |-> IF body[c].stamp < render.rev
                               THEN [d \in DOMAIN render.done \cup {c} |->
                                       IF d = c THEN [terms |-> render.terms,
                                                      stamp |-> ScannedStamp]
                                       ELSE render.done[d]]
                               ELSE render.done]
        /\ UNCHANGED <<now, novel, chapters, told, txn, release, faults>>

RenderCommit ==
    /\ render.step = "next" /\ render.todo = {}
    /\ body' = [c \in Chapter |->
                  IF c \in DOMAIN render.done THEN render.done[c] ELSE body[c]]
    /\ render' = NoRender
    /\ UNCHANGED <<now, novel, row, count, outdated, drifted, told, txn, release,
                   faults>>

(* A run that breaks off is rolled back as a whole.                        *)
JobFails ==
    /\ "fail" \in uses /\ faults < MaxFaults
    /\ faults' = faults + 1
    /\ \/ release # NoRelease /\ release' = NoRelease /\ UNCHANGED render
          /\ outdated' = outdated \ {"release"}
       \/ render # NoRender /\ render' = NoRender /\ UNCHANGED <<release, outdated>>
    /\ UNCHANGED <<now, novel, row, body, count, drifted, told, txn>>

-----------------------------------------------------------------------------
(* The rest of the novel.                                                  *)

(* The trigger on glossary_entries bumps the revision with the change.     *)
EditGlossary ==
    /\ "glossary" \in uses
    /\ glossary < MaxRev
    /\ glossary' = glossary + 1
    /\ UNCHANGED <<uses, now, chapters, follows, told, txn, release, render, faults>>

(* Who unfollows is no longer among those who have to be told.             *)
Follow(f) ==
    /\ "follow" \in uses
    /\ \/ f \notin follows /\ follows' = follows \cup {f} /\ UNCHANGED txn
       \/ /\ f \in follows /\ follows' = follows \ {f}
          /\ txn' = [s \in Slot |->
                       IF txn[s].op = "notify"
                       THEN [txn[s] EXCEPT !.audience = txn[s].audience \ {f}]
                       ELSE txn[s]]
    /\ UNCHANGED <<uses, now, chapters, glossary, told, release, render, faults>>

Tick ==
    /\ "schedule" \in uses /\ now < MaxTime
    /\ now' = now + 1
    /\ UNCHANGED <<novel, chapters, told, txn, release, render, faults>>

Init ==
    /\ uses \in Uses
    /\ now = 0
    /\ row = [c \in Chapter |-> NoRow]
    /\ body = [c \in Chapter |-> NoBody]
    /\ glossary = IF "glossary" \in uses THEN 1 ELSE 0
    /\ count = 0
    /\ follows \in IF "follow" \in uses THEN SUBSET Follower ELSE {{}}
    /\ told = {}
    /\ txn = [s \in Slot |-> Idle]
    /\ release = NoRelease
    /\ render = NoRender
    /\ outdated = {}
    /\ drifted = FALSE
    /\ faults = 0

(* The steps that a request takes by itself.                               *)
Serve(s) ==
    \/ SaveBody(s)
    \/ PublishRender(s) \/ PublishBody(s) \/ PublishRow(s) \/ PublishCommit(s)
    \/ UnpublishCommit(s) \/ NotifyPage(s) \/ DeadlockVictim(s)

Release == ReleaseScan \/ ReleaseUpdate \/ ReleaseCommit
Render  == RenderScan \/ RenderWrite \/ RenderCommit \/ \E c \in Chapter : RenderRead(c)

Next ==
    \/ \E c \in Chapter : CreateChapter(c)
    \/ \E s \in Slot, c \in Chapter :
          \/ SaveRow(s, c) \/ UnpublishRow(s, c)
          \/ \E lead \in Lead : PublishBegin(s, c, lead)
    \/ \E s \in Slot : Serve(s) \/ Fail(s)
    \/ Release \/ Render \/ JobFails
    \/ EditGlossary \/ Tick
    \/ \E f \in Follower : Follow(f)

Spec == Init /\ [][Next]_vars

(* A transaction that waits is queued for the lock, first come first       *)
(* served, and the scheduler starts both jobs for as long as the process   *)
(* lives: none of them is passed over for ever.                            *)
FairSpec ==
    /\ Spec
    /\ \A s \in Slot : SF_vars(Serve(s))
    /\ SF_vars(Release) /\ SF_vars(Render)

-----------------------------------------------------------------------------
(* Every variable has its type, and the novel's chapter count, which every *)
(* publication writes, never exceeds the chapters there are                *)
(* (refreshChapterCount).                                                  *)
TypeOK ==
    /\ uses \in Uses
    /\ now \in 0..MaxTime
    /\ row \in [Chapter -> Row]
    /\ body \in [Chapter -> Body]
    /\ glossary \in 0..MaxRev
    /\ count \in 0..Cardinality(Chapter)
    /\ follows \subseteq Follower
    /\ told \subseteq Follower \X Chapter
    /\ outdated \subseteq Slot \cup {"release"}
    /\ drifted \in BOOLEAN
    /\ faults \in 0..MaxFaults

(* A body is never marked fresher than the terms it was rendered with:     *)
(* whatever glossary edits, publications and re-render runs overlap, a     *)
(* body that the job passes over as fresh really shows the novel's terms   *)
(* ("must not leave the body marked fresher than it is",                   *)
(* repository/writer/repository.go; jobs/jobs.go).                         *)
StampTruthful ==
    \A c \in Chapter : body[c].stamp <= body[c].terms /\ body[c].terms <= glossary

(* The novel's chapter count is the number of its published chapters,      *)
(* unless the recount that wrote it had begun before another publication   *)
(* committed.                                                              *)
CountMatches == ~drifted => count = Cardinality(Published)

(* A fan-out that runs to its end has told everyone who followed the novel *)
(* when it began and still does, whoever follows or unfollows between its  *)
(* pages (NotifyNewChapter).                                               *)
FollowersReached ==
    [][\A s \in Slot :
          txn[s].op = "notify" /\ txn'[s].op # "notify" /\ faults' = faults
             => (txn[s].audience \X {txn[s].chapter}) \subseteq told']_vars

(* A chapter whose body is behind the glossary is rendered again, even if  *)
(* publications hold its lock, stamp an older revision over a newer one,   *)
(* or a run of the job is rolled back (GlossaryRerenderJob).               *)
BodyCatchesUp ==
    \A c \in Chapter : (c \in Written /\ body[c].stamp < glossary)
                          ~> (body[c].stamp = glossary)

(* A scheduled chapter whose time has come does not stay scheduled, though *)
(* it may be saved, published, unpublished or scheduled anew meanwhile and *)
(* a run may be rolled back (PublishScheduledJob).                         *)
ScheduledGoesLive ==
    \A c \in Chapter : (row[c].status = "scheduled" /\ row[c].dueAt <= now)
                          ~> ~(row[c].status = "scheduled" /\ row[c].dueAt <= now)

=============================================================================
