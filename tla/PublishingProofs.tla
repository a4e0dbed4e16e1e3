-------------------------- MODULE PublishingProofs --------------------------
(***************************************************************************)
(* What publishing keeps, for every number of chapters, readers, requests  *)
(* and glossary edits: bodies are stamped truthfully, the chapter count    *)
(* drifts only where the code lets it, and a release reaches every         *)
(* follower.                                                               *)
(*                                                                         *)
(* Each is proved from an invariant of its own, which follows what a step  *)
(* in flight has read: a glossary revision to where it is stamped, a       *)
(* recount to where it is written, a page of followers to the next one.    *)
(***************************************************************************)
EXTENDS Publishing, SumTheorems, TLAPS

(* b is marked no fresher than its terms when the glossary is at g.        *)
Honest(b, g) == /\ b.stamp \in Nat /\ b.terms \in Nat
                /\ b.stamp <= b.terms /\ b.terms <= g

(* The same of what a request is about to write ...                        *)
RequestHonest(x, g) ==
    x.op = "publish" => /\ x.step = "render" => x.rev \in Nat /\ x.rev <= g
                        /\ x.step # "render" => Honest(x.new, g)

(* ... and of what a run of the re-render job has written and will write.  *)
RunHonest(x, g) ==
    x.step # "idle" =>
        /\ x.rev \in Nat /\ x.rev <= g
        /\ \A c \in DOMAIN x.done : Honest(x.done[c], g)
        /\ x.step = "write" => x.terms \in Nat /\ x.rev <= x.terms /\ x.terms <= g

Honesty ==
    /\ glossary \in Nat
    /\ DOMAIN body = Chapter /\ DOMAIN txn = Slot
    /\ \A c \in Chapter : Honest(body[c], glossary)
    /\ \A s \in Slot : RequestHonest(txn[s], glossary)
    /\ RunHonest(render, glossary)

LEMMA HonestyInit == Init => Honesty
  BY DEF Init, Honesty, Honest, RequestHonest, RunHonest, NoBody, Idle, NoRender

(* Steps that only move one request forward.                               *)
LEMMA RequestStep ==
    ASSUME Honesty, NEW s \in Slot, NEW x, Put(s, x), RequestHonest(x, glossary),
           UNCHANGED <<glossary, body, render>>
    PROVE  Honesty'
<1>1. DOMAIN txn' = Slot /\ \A t \in Slot : txn'[t] = IF t = s THEN x ELSE txn[t]
  BY DEF Put, Honesty
<1>2. \A t \in Slot : RequestHonest(txn'[t], glossary)
  BY <1>1 DEF Honesty
<1> QED BY <1>1, <1>2 DEF Honesty

LEMMA IdleStep ==
    ASSUME Honesty, NEW s \in Slot, Put(s, Idle), UNCHANGED <<glossary, body, render>>
    PROVE  Honesty'
<1>1. RequestHonest(Idle, glossary)
  BY DEF RequestHonest, Idle
<1> QED BY <1>1, RequestStep

(* An edit of the glossary makes nothing less true.                        *)
LEMMA GlossaryGrows ==
    ASSUME Honesty, glossary' = glossary + 1, UNCHANGED <<body, txn, render>>
    PROVE  Honesty'
<1> DEFINE g == glossary
<1>1. g \in Nat /\ g + 1 \in Nat /\ glossary' = g + 1
  BY DEF Honesty
<1> HIDE DEF g
<1>2. \A b : Honest(b, g) => Honest(b, g + 1)
  BY <1>1 DEF Honest
<1>3. \A x : RequestHonest(x, g) => RequestHonest(x, g + 1)
  BY <1>1, <1>2 DEF RequestHonest
<1>4. \A x : RunHonest(x, g) => RunHonest(x, g + 1)
  BY <1>1, <1>2 DEF RunHonest
<1>5. /\ \A c \in Chapter : Honest(body[c], g)
      /\ \A s \in Slot : RequestHonest(txn[s], g)
      /\ RunHonest(render, g)
  BY DEF Honesty, g
<1> QED BY <1>1, <1>2, <1>3, <1>4, <1>5 DEF Honesty

(* The requests of the author.                                             *)
LEMMA ServeStep ==
    ASSUME Honesty, NEW s \in Slot, Serve(s)
    PROVE  Honesty'
<1>1. CASE SaveBody(s)
  BY <1>1, IdleStep DEF SaveBody, novel, chapters
<1>2. CASE PublishRender(s)
  <2> DEFINE x == [op |-> "publish", step |-> "write", chapter |-> txn[s].chapter,
                   due |-> txn[s].due, new |-> [terms |-> glossary, stamp |-> txn[s].rev]]
  <2>1. Put(s, x) /\ UNCHANGED <<glossary, body, render>>
    BY <1>2 DEF PublishRender, novel, chapters
  <2>2. RequestHonest(x, glossary)
    BY <1>2 DEF PublishRender, Honesty, RequestHonest, Honest
  <2> HIDE DEF x
  <2> QED BY <2>1, <2>2, RequestStep
<1>3. CASE PublishBody(s)
  <2> DEFINE x == [txn[s] EXCEPT !.step = "row"]
  <2>1. Put(s, x) /\ UNCHANGED <<glossary, body, render>>
    BY <1>3 DEF PublishBody, novel, chapters
  <2>2. RequestHonest(x, glossary)
    BY <1>3 DEF PublishBody, Honesty, RequestHonest
  <2> HIDE DEF x
  <2> QED BY <2>1, <2>2, RequestStep
<1>4. CASE PublishRow(s)
  <2>1. PICK r, n : Put(s, [op |-> "publish", step |-> "commit", chapter |-> txn[s].chapter,
                            new |-> txn[s].new, row |-> r, counted |-> n])
    BY <1>4 DEF PublishRow
  <2> DEFINE x == [op |-> "publish", step |-> "commit", chapter |-> txn[s].chapter,
                   new |-> txn[s].new, row |-> r, counted |-> n]
  <2>2. Put(s, x) /\ UNCHANGED <<glossary, body, render>>
    BY <1>4, <2>1 DEF PublishRow, novel, chapters
  <2>3. RequestHonest(x, glossary)
    BY <1>4 DEF PublishRow, Honesty, RequestHonest
  <2> HIDE DEF x
  <2> QED BY <2>2, <2>3, RequestStep
<1>5. CASE PublishCommit(s)
  <2>1. /\ Honest(txn[s].new, glossary)
        /\ body' = [body EXCEPT ![txn[s].chapter] = txn[s].new]
        /\ UNCHANGED <<glossary, render>>
    BY <1>5 DEF PublishCommit, Honesty, RequestHonest, novel
  <2>2. PICK x : Put(s, x) /\ x.op # "publish"
    BY <1>5 DEF PublishCommit, Idle
  <2>3. RequestHonest(x, glossary)
    BY <2>2 DEF RequestHonest
  <2>4. DOMAIN txn' = Slot /\ \A t \in Slot : RequestHonest(txn'[t], glossary)
    BY <2>2, <2>3 DEF Put, Honesty
  <2>5. DOMAIN body' = Chapter /\ \A c \in Chapter : Honest(body'[c], glossary)
    BY <2>1 DEF Honesty
  <2> QED BY <2>1, <2>4, <2>5 DEF Honesty
<1>6. CASE UnpublishCommit(s)
  BY <1>6, IdleStep DEF UnpublishCommit, novel
<1>7. CASE NotifyPage(s)
  <2>1. UNCHANGED <<glossary, body, render>>
    BY <1>7 DEF NotifyPage, novel, chapters
  <2>2. CASE Put(s, Idle)
    BY <2>1, <2>2, IdleStep
  <2>3. ASSUME NEW n, NEW a, Put(s, [txn[s] EXCEPT !.sent = n, !.after = a]) PROVE Honesty'
    <3> DEFINE x == [txn[s] EXCEPT !.sent = n, !.after = a]
    <3>1. RequestHonest(x, glossary)
      BY <1>7 DEF NotifyPage, RequestHonest
    <3>2. Put(s, x)
      BY <2>3
    <3> HIDE DEF x
    <3> QED BY <2>1, <3>1, <3>2, RequestStep
  <2> QED BY <1>7, <2>2, <2>3 DEF NotifyPage
<1>8. CASE DeadlockVictim(s)
  BY <1>8, IdleStep DEF DeadlockVictim, novel, chapters
<1> QED BY <1>1, <1>2, <1>3, <1>4, <1>5, <1>6, <1>7, <1>8 DEF Serve

(* The re-render job.                                                      *)
LEMMA RenderStep ==
    ASSUME Honesty, Render
    PROVE  Honesty'
<1>1. glossary' = glossary /\ txn' = txn /\ glossary \in Nat
  BY DEF Render, RenderScan, RenderRead, RenderWrite, RenderCommit, novel, Honesty
<1>2. ASSUME body' = body, RunHonest(render', glossary) PROVE Honesty'
  BY <1>1, <1>2 DEF Honesty
<1>3. CASE RenderScan
  <2>1. PICK S : render' = [step |-> "next", rev |-> glossary, todo |-> S, done |-> << >>]
    BY <1>3 DEF RenderScan
  <2>2. RunHonest(render', glossary)
    BY <1>1, <2>1 DEF RunHonest
  <2> QED BY <1>2, <1>3, <2>2 DEF RenderScan, chapters
<1>4. ASSUME NEW c \in Chapter, RenderRead(c) PROVE Honesty'
  <2>1. RunHonest(render', glossary)
    BY <1>1, <1>4 DEF RenderRead, Honesty, RunHonest
  <2> QED BY <1>2, <1>4, <2>1 DEF RenderRead, chapters
<1>5. CASE RenderWrite
  <2> DEFINE b == [terms |-> render.terms, stamp |-> ScannedStamp]
  <2>1. /\ render.rev \in Nat /\ render.rev <= glossary /\ Honest(b, glossary)
        /\ \A c \in DOMAIN render.done : Honest(render.done[c], glossary)
    BY <1>1, <1>5 DEF RenderWrite, Honesty, RunHonest, Honest, ScannedStamp
  <2>2. /\ render'.step = "next" /\ render'.rev = render.rev
        /\ \/ render'.done = render.done
           \/ render'.done = [d \in DOMAIN render.done \cup {render.chapter} |->
                                IF d = render.chapter THEN b ELSE render.done[d]]
    BY <1>5 DEF RenderWrite
  <2> HIDE DEF b
  <2>3. \A c \in DOMAIN render'.done : Honest(render'.done[c], glossary)
    BY <2>1, <2>2
  <2>4. RunHonest(render', glossary)
    BY <2>1, <2>2, <2>3 DEF RunHonest
  <2> QED BY <1>2, <1>5, <2>4 DEF RenderWrite, chapters
<1>6. CASE RenderCommit
  <2>1. DOMAIN body' = Chapter /\ \A c \in Chapter : Honest(body'[c], glossary)
    BY <1>6 DEF RenderCommit, Honesty, RunHonest
  <2>2. RunHonest(render', glossary)
    BY <1>6 DEF RenderCommit, RunHonest, NoRender
  <2> QED BY <1>1, <2>1, <2>2 DEF Honesty
<1> QED BY <1>3, <1>4, <1>5, <1>6 DEF Render

LEMMA HonestyNext ==
    ASSUME Honesty, [Next]_vars
    PROVE  Honesty'
<1>1. ASSUME UNCHANGED <<glossary, body, txn, render>> PROVE Honesty'
  BY <1>1 DEF Honesty
<1>2. ASSUME NEW c \in Chapter, CreateChapter(c) PROVE Honesty'
  <2>1. /\ body' = [body EXCEPT ![c] = NoBody]
        /\ UNCHANGED <<glossary, txn, render>>
    BY <1>2 DEF CreateChapter, novel
  <2>2. Honest(NoBody, glossary)
    BY DEF Honest, NoBody, Honesty
  <2> QED BY <2>1, <2>2 DEF Honesty
<1>3. ASSUME NEW s \in Slot, NEW c \in Chapter, SaveRow(s, c) \/ UnpublishRow(s, c)
      PROVE  Honesty'
  <2>1. PICK x : Put(s, x) /\ x.op # "publish"
    BY <1>3 DEF SaveRow, UnpublishRow
  <2>2. RequestHonest(x, glossary)
    BY <2>1 DEF RequestHonest
  <2> QED BY <1>3, <2>1, <2>2, RequestStep DEF SaveRow, UnpublishRow, novel, chapters
<1>4. ASSUME NEW s \in Slot, NEW c \in Chapter, NEW lead \in Lead, PublishBegin(s, c, lead)
      PROVE  Honesty'
  <2> DEFINE x == [op |-> "publish", step |-> "render", chapter |-> c,
                   due |-> IF lead > 0 THEN now + lead ELSE Unset, rev |-> glossary]
  <2>1. Put(s, x) /\ UNCHANGED <<glossary, body, render>>
    BY <1>4 DEF PublishBegin, novel, chapters
  <2>2. RequestHonest(x, glossary)
    BY DEF RequestHonest, Honesty
  <2> HIDE DEF x
  <2> QED BY <2>1, <2>2, RequestStep
<1>5. ASSUME NEW s \in Slot, Fail(s) PROVE Honesty'
  BY <1>5, IdleStep DEF Fail, novel
<1>6. CASE Release
  BY <1>1, <1>6 DEF Release, ReleaseScan, ReleaseUpdate, ReleaseCommit, novel, chapters
<1>7. CASE JobFails
  <2>1. RunHonest(render', glossary) /\ UNCHANGED <<glossary, body, txn>>
    BY <1>7 DEF JobFails, Honesty, RunHonest, NoRender, novel
  <2> QED BY <2>1 DEF Honesty
<1>8. CASE EditGlossary
  BY <1>8, GlossaryGrows DEF EditGlossary, chapters
<1>9. CASE Tick
  BY <1>1, <1>9 DEF Tick, novel, chapters
<1>10. ASSUME NEW f \in Follower, Follow(f) PROVE Honesty'
  <2>1. UNCHANGED <<glossary, body, render>>
    BY <1>10 DEF Follow, chapters
  <2>2. DOMAIN txn' = Slot /\ \A s \in Slot : RequestHonest(txn'[s], glossary)
    <3>1. CASE txn' = txn
      BY <2>1, <3>1 DEF Honesty
    <3>2. CASE txn' = [s \in Slot |->
                         IF txn[s].op = "notify"
                         THEN [txn[s] EXCEPT !.audience = txn[s].audience \ {f}]
                         ELSE txn[s]]
      <4>1. ASSUME NEW s \in Slot PROVE RequestHonest(txn'[s], glossary)
        <5>1. CASE txn[s].op = "notify"
          <6>1. txn'[s] = [txn[s] EXCEPT !.audience = txn[s].audience \ {f}]
            BY <3>2, <5>1
          <6>2. txn'[s].op = "notify"
            BY <5>1, <6>1
          <6> QED BY <6>2 DEF RequestHonest
        <5>2. CASE txn[s].op # "notify"
          BY <3>2, <5>2 DEF Honesty
        <5> QED BY <5>1, <5>2
      <4> QED BY <3>2, <4>1
    <3> QED BY <1>10, <3>1, <3>2 DEF Follow
  <2> QED BY <2>1, <2>2 DEF Honesty
<1>11. CASE UNCHANGED vars
  BY <1>1, <1>11 DEF vars
<1> QED BY <1>2, <1>3, <1>4, <1>5, <1>6, <1>7, <1>8, <1>9, <1>10, <1>11,
           ServeStep, RenderStep DEF Next

(* No body is ever marked fresher than the terms it was rendered with, for *)
(* any number of chapters and of requests at once, however glossary edits, *)
(* publications and re-render runs overlap and break off.                  *)
THEOREM StampTruthfulCorrect == Spec => []StampTruthful
<1>1. Init => Honesty
  BY HonestyInit
<1>2. Honesty /\ [Next]_vars => Honesty'
  BY HonestyNext
<1>3. Honesty => StampTruthful
  BY DEF Honesty, Honest, StampTruthful
<1> QED BY <1>1, <1>2, <1>3, PTL DEF Spec

-----------------------------------------------------------------------------
(* The chapter count.  A recount under way that no commit has overtaken is *)
(* about to write the number of chapters that are published after it.      *)

(* What is published when request x has committed.                         *)
Leaves(x, published) ==
    IF x.op = "publish" /\ x.row.status = "published"
    THEN published \cup {x.chapter} ELSE published \ {x.chapter}

RequestCounts(s, x, published, late) ==
    /\ x.op \in {"publish", "unpublish"} => x.chapter \in Chapter
    /\ x.op = "unpublish" => x.step = "commit"
    /\ x.op = "publish" => \/ x.step = "commit" /\ x.row \in Row
                           \/ x.step # "commit" /\ x.due \in Times
    /\ x.step = "commit" =>
         /\ x.op \in {"publish", "unpublish"}
         /\ s \notin late => x.counted = Cardinality(Leaves(x, published))

RunCounts(r, published, late) ==
    r.step = "commit" =>
        /\ r.due \subseteq Chapter
        /\ r.recount /\ "release" \notin late =>
              r.counted = Cardinality(published \cup r.due)

Counting ==
    /\ now \in Nat /\ row \in [Chapter -> Row] /\ DOMAIN txn = Slot
    /\ \A s \in Slot : RequestCounts(s, txn[s], Published, outdated)
    /\ RunCounts(release, Published, outdated)
    /\ CountMatches

LEMMA CountingInit == Init => Counting
<1> SUFFICES ASSUME Init PROVE Counting
  OBVIOUS
<1>1. Published = {} /\ row \in [Chapter -> Row]
  BY DEF Init, Published, NoRow, Row, Times, Unset
<1>2. CountMatches
  BY <1>1, FS_EmptySet DEF Init, CountMatches
<1>3. \A s \in Slot : RequestCounts(s, txn[s], Published, outdated)
  BY DEF Init, RequestCounts, Idle
<1>4. RunCounts(release, Published, outdated)
  BY DEF Init, RunCounts, NoRelease
<1> QED BY <1>1, <1>2, <1>3, <1>4 DEF Init, Counting

(* Steps that only move one request forward.                               *)
LEMMA RequestMoves ==
    ASSUME Counting, NEW s \in Slot, NEW x, Put(s, x),
           RequestCounts(s, x, Published, outdated),
           UNCHANGED <<now, row, count, outdated, drifted, release>>
    PROVE  Counting'
<1>1. DOMAIN txn' = Slot /\ \A t \in Slot : txn'[t] = IF t = s THEN x ELSE txn[t]
  BY DEF Put, Counting
<1>2. Published' = Published
  BY DEF Published
<1>3. \A t \in Slot : RequestCounts(t, txn'[t], Published, outdated)
  BY <1>1 DEF Counting
<1>4. RunCounts(release', Published', outdated')
  BY <1>2 DEF Counting
<1>5. CountMatches'
  BY <1>2 DEF Counting, CountMatches
<1> QED BY <1>1, <1>2, <1>3, <1>4, <1>5 DEF Counting

LEMMA DraftRow == /\ [NoRow EXCEPT !.status = "draft"] \in Row
                  /\ [NoRow EXCEPT !.status = "draft"].status = "draft"
<1>1. NoRow \in Row
  BY DEF NoRow, Row, Times
<1> QED BY <1>1 DEF Row

LEMMA IdleCounts == \A s, published, late : RequestCounts(s, Idle, published, late)
  BY DEF RequestCounts, Idle

(* A request commits: it writes its number, and every other recount under  *)
(* way is late from now on.                                                *)
LEMMA CommitCounts ==
    ASSUME Counting, NEW s \in Slot, txn[s].step = "commit",
           CommitCount(s, txn[s].counted), NEW x, Put(s, x),
           x.op \notin {"publish", "unpublish"}, x.step # "commit",
           row' \in [Chapter -> Row], Published' = Leaves(txn[s], Published),
           UNCHANGED <<now, release>>
    PROVE  Counting'
<1>1. DOMAIN txn' = Slot /\ \A t \in Slot : txn'[t] = IF t = s THEN x ELSE txn[t]
  BY DEF Put, Counting
<1>2. outdated' = (outdated \cup Recounting) \ {s} /\ "release" # s
  BY SetAssumption DEF CommitCount
<1>3. \A t \in Slot : RequestCounts(t, txn'[t], Published', outdated')
  <2> SUFFICES ASSUME NEW t \in Slot PROVE RequestCounts(t, txn'[t], Published', outdated')
    OBVIOUS
  <2>1. CASE t = s
    BY <1>1, <2>1 DEF RequestCounts
  <2>2. CASE t # s
    <3>1. txn'[t] = txn[t] /\ RequestCounts(t, txn[t], Published, outdated)
      BY <1>1, <2>2 DEF Counting
    <3>2. txn[t].step = "commit" => t \in outdated'
      BY <1>2, <2>2 DEF Recounting
    <3> QED BY <3>1, <3>2 DEF RequestCounts
  <2> QED BY <2>1, <2>2
<1>4. RunCounts(release', Published', outdated')
  <2>1. release.step = "commit" => "release" \in outdated'
    BY <1>2 DEF Recounting
  <2> QED BY <2>1 DEF Counting, RunCounts
<1>5. CountMatches'
  <2>1. RequestCounts(s, txn[s], Published, outdated)
    BY DEF Counting
  <2>2. s \notin outdated => txn[s].counted = Cardinality(Published')
    BY <2>1 DEF RequestCounts
  <2> QED BY <2>2 DEF CommitCount, CountMatches
<1> QED BY <1>1, <1>3, <1>4, <1>5 DEF Counting

LEMMA ServeCounts ==
    ASSUME Counting, NEW s \in Slot, Serve(s)
    PROVE  Counting'
<1>0. RequestCounts(s, txn[s], Published, outdated) /\ row \in [Chapter -> Row]
  BY DEF Counting
<1>1. CASE SaveBody(s)
  BY <1>1, IdleCounts, RequestMoves DEF SaveBody, novel, chapters
<1>2. CASE PublishRender(s)
  <2> DEFINE x == [op |-> "publish", step |-> "write", chapter |-> txn[s].chapter,
                   due |-> txn[s].due, new |-> [terms |-> glossary, stamp |-> txn[s].rev]]
  <2>1. Put(s, x) /\ UNCHANGED <<now, row, count, outdated, drifted, release>>
    BY <1>2 DEF PublishRender, novel, chapters
  <2>2. RequestCounts(s, x, Published, outdated)
    BY <1>0, <1>2 DEF PublishRender, RequestCounts
  <2> HIDE DEF x
  <2> QED BY <2>1, <2>2, RequestMoves
<1>3. CASE PublishBody(s)
  <2> DEFINE x == [txn[s] EXCEPT !.step = "row"]
  <2>1. Put(s, x) /\ UNCHANGED <<now, row, count, outdated, drifted, release>>
    BY <1>3 DEF PublishBody, novel, chapters
  <2>2. x.op = "publish" /\ x.chapter = txn[s].chapter /\ x.due = txn[s].due /\ x.step # "commit"
    BY <1>3 DEF PublishBody
  <2>3. RequestCounts(s, x, Published, outdated)
    BY <1>0, <1>3, <2>2 DEF PublishBody, RequestCounts
  <2> HIDE DEF x
  <2> QED BY <2>1, <2>3, RequestMoves
<1>4. CASE PublishRow(s)
  <2> DEFINE y == IF Immediate(s) THEN [status |-> "published", dueAt |-> Unset]
                  ELSE [status |-> "scheduled", dueAt |-> txn[s].due]
             n == IF Immediate(s) THEN Recount({txn[s].chapter}, {})
                  ELSE Recount({}, {txn[s].chapter})
             x == [op |-> "publish", step |-> "commit", chapter |-> txn[s].chapter,
                   new |-> txn[s].new, row |-> y, counted |-> n]
  <2>1. Put(s, x) /\ UNCHANGED <<now, row, count, outdated, drifted, release>>
    BY <1>4 DEF PublishRow, novel, chapters
  <2>2. txn[s].chapter \in Chapter /\ txn[s].due \in Times
    BY <1>0, <1>4 DEF PublishRow, RequestCounts
  <2>3. y \in Row
    BY <2>2 DEF Row, Times, Unset
  <2>4. n = Cardinality(IF y.status = "published" THEN Published \cup {txn[s].chapter}
                        ELSE Published \ {txn[s].chapter})
    <3>1. CASE Immediate(s)
      <4>1. (Published \cup {txn[s].chapter}) \ {} = Published \cup {txn[s].chapter}
        OBVIOUS
      <4> QED BY <3>1, <4>1 DEF Recount
    <3>2. CASE ~Immediate(s)
      <4>1. (Published \cup {}) \ {txn[s].chapter} = Published \ {txn[s].chapter}
        OBVIOUS
      <4> QED BY <3>2, <4>1 DEF Recount
    <3> QED BY <3>1, <3>2
  <2> HIDE DEF y, n
  <2>5. RequestCounts(s, x, Published, outdated)
    BY <2>2, <2>3, <2>4 DEF RequestCounts, Leaves
  <2> HIDE DEF x
  <2> QED BY <2>1, <2>5, RequestMoves
<1>5. CASE PublishCommit(s)
  <2>1. /\ txn[s].step = "commit" /\ txn[s].op = "publish"
        /\ txn[s].chapter \in Chapter /\ txn[s].row \in Row
    BY <1>0, <1>5 DEF PublishCommit, RequestCounts
  <2>2. row' = [row EXCEPT ![txn[s].chapter] = txn[s].row]
    BY <1>5 DEF PublishCommit
  <2>3. row' \in [Chapter -> Row]
    BY <1>0, <2>1, <2>2
  <2>4. Published' = Leaves(txn[s], Published)
    BY <1>0, <2>1, <2>2 DEF Leaves, Published
  <2>5. PICK x : Put(s, x) /\ x.op \notin {"publish", "unpublish"} /\ x.step # "commit"
    BY <1>5 DEF PublishCommit, Idle
  <2>6. CommitCount(s, txn[s].counted) /\ UNCHANGED <<now, release>>
    BY <1>5 DEF PublishCommit
  <2> QED BY <2>1, <2>3, <2>4, <2>5, <2>6, CommitCounts
<1>6. CASE UnpublishCommit(s)
  <2>0. txn[s].step = "commit"
    BY <1>0, <1>6 DEF UnpublishCommit, RequestCounts
  <2>1. txn[s].op = "unpublish" /\ txn[s].chapter \in Chapter
    BY <1>0, <1>6 DEF UnpublishCommit, RequestCounts
  <2>2. PICK r \in Row : /\ r.status = "draft"
                         /\ row' = [row EXCEPT ![txn[s].chapter] = r]
    BY <1>6, DraftRow DEF UnpublishCommit
  <2>3. row' \in [Chapter -> Row]
    BY <1>0, <2>1, <2>2
  <2>4. Published' = Leaves(txn[s], Published)
    BY <1>0, <2>1, <2>2 DEF Leaves, Published
  <2>5. Put(s, Idle) /\ CommitCount(s, txn[s].counted) /\ UNCHANGED <<now, release>>
    BY <1>6 DEF UnpublishCommit
  <2>6. Idle.op \notin {"publish", "unpublish"} /\ Idle.step # "commit"
    BY DEF Idle
  <2> QED BY <2>0, <2>3, <2>4, <2>5, <2>6, CommitCounts
<1>7. CASE NotifyPage(s)
  <2>1. UNCHANGED <<now, row, count, outdated, drifted, release>>
    BY <1>7 DEF NotifyPage, novel, chapters
  <2>2. CASE Put(s, Idle)
    BY <2>1, <2>2, IdleCounts, RequestMoves
  <2>3. ASSUME NEW n, NEW a, Put(s, [txn[s] EXCEPT !.sent = n, !.after = a]) PROVE Counting'
    <3> DEFINE x == [txn[s] EXCEPT !.sent = n, !.after = a]
    <3>1. x.op = "notify" /\ x.step = txn[s].step
      BY <1>7 DEF NotifyPage
    <3>2. txn[s].step # "commit"
      BY <1>0, <1>7 DEF NotifyPage, RequestCounts
    <3>3. RequestCounts(s, x, Published, outdated)
      BY <3>1, <3>2 DEF RequestCounts
    <3>4. Put(s, x)
      BY <2>3
    <3> HIDE DEF x
    <3> QED BY <2>1, <3>3, <3>4, RequestMoves
  <2> QED BY <1>7, <2>2, <2>3 DEF NotifyPage
<1>8. CASE DeadlockVictim(s)
  BY <1>8, IdleCounts, RequestMoves DEF DeadlockVictim, novel, chapters
<1> QED BY <1>1, <1>2, <1>3, <1>4, <1>5, <1>6, <1>7, <1>8 DEF Serve

LEMMA ReleaseCounts ==
    ASSUME Counting, Release
    PROVE  Counting'
<1>0. now \in Nat /\ row \in [Chapter -> Row] /\ txn' = txn /\ now' = now
  BY DEF Counting, Release, ReleaseScan, ReleaseUpdate, ReleaseCommit
<1>1. ASSUME RunCounts(release', Published, outdated),
             UNCHANGED <<row, count, outdated, drifted>>
      PROVE  Counting'
  <2>1. Published' = Published
    BY <1>1 DEF Published
  <2>2. CountMatches'
    BY <1>1, <2>1 DEF Counting, CountMatches
  <2> QED BY <1>0, <1>1, <2>1, <2>2 DEF Counting
<1>2. CASE ReleaseScan
  <2>1. RunCounts(release', Published, outdated)
    BY <1>2 DEF ReleaseScan, RunCounts
  <2> QED BY <1>1, <1>2, <2>1 DEF ReleaseScan, chapters
<1>3. CASE ReleaseUpdate
  <2> DEFINE due == {c \in Chapter : Due(c, release.at)}
  <2>1. \/ release' = NoRelease
        \/ release' = [step |-> "commit", at |-> release.at, due |-> due,
                       recount |-> release.recount, counted |-> Recount(due, {})]
    BY <1>3 DEF ReleaseUpdate
  <2>2. Recount(due, {}) = Cardinality(Published \cup due)
    <3>1. (Published \cup due) \ {} = Published \cup due
      OBVIOUS
    <3> QED BY <3>1 DEF Recount
  <2>3. due \subseteq Chapter
    OBVIOUS
  <2> HIDE DEF due
  <2>4. RunCounts(release', Published, outdated)
    BY <2>1, <2>2, <2>3 DEF RunCounts, NoRelease
  <2> QED BY <1>1, <1>3, <2>4 DEF ReleaseUpdate, chapters
<1>4. CASE ReleaseCommit
  <2>1. release.step = "commit" /\ release.due \subseteq Chapter
    BY <1>4 DEF ReleaseCommit, Counting, RunCounts
  <2>2. row' = [c \in Chapter |-> IF c \in release.due
                                  THEN [row[c] EXCEPT !.status = "published"] ELSE row[c]]
    BY <1>4 DEF ReleaseCommit
  <2>3. \A c \in Chapter : [row[c] EXCEPT !.status = "published"] \in Row
    BY <1>0 DEF Row
  <2>4. row' \in [Chapter -> Row]
    BY <1>0, <2>2, <2>3
  <2>5. \A c \in Chapter : row'[c].status = IF c \in release.due THEN "published" ELSE row[c].status
    BY <1>0, <2>2 DEF Row
  <2>6. Published' = Published \cup release.due
    BY <2>1, <2>5 DEF Published
  <2>7. outdated' = (outdated \cup Recounting) \ {"release"}
    BY <1>4 DEF ReleaseCommit, CommitCount
  <2>8. \A s \in Slot : RequestCounts(s, txn[s], Published', outdated')
    <3> SUFFICES ASSUME NEW s \in Slot PROVE RequestCounts(s, txn[s], Published', outdated')
      OBVIOUS
    <3>1. txn[s].step = "commit" => s \in outdated'
      BY <2>7, SetAssumption DEF Recounting
    <3> QED BY <3>1 DEF Counting, RequestCounts
  <2>9. RunCounts(release', Published', outdated')
    BY <1>4 DEF ReleaseCommit, NoRelease, RunCounts
  <2>10. CountMatches'
    <3>1. CASE release.recount
      <4>1. "release" \notin outdated => release.counted = Cardinality(Published')
        BY <2>1, <2>6, <3>1 DEF Counting, RunCounts
      <4> QED BY <1>4, <3>1, <4>1 DEF ReleaseCommit, CommitCount, CountMatches
    <3>2. CASE ~release.recount
      BY <1>4, <3>2 DEF ReleaseCommit, CountMatches
    <3> QED BY <3>1, <3>2
  <2> QED BY <1>0, <2>4, <2>8, <2>9, <2>10 DEF Counting
<1> QED BY <1>2, <1>3, <1>4 DEF Release

LEMMA CountingNext ==
    ASSUME Counting, [Next]_vars
    PROVE  Counting'
<1>1. ASSUME UNCHANGED <<row, count, outdated, drifted, release>>, now' \in Nat, DOMAIN txn' = Slot,
             \A s \in Slot : RequestCounts(s, txn'[s], Published, outdated)
      PROVE  Counting'
  <2>1. Published' = Published
    BY <1>1 DEF Published
  <2>2. CountMatches'
    BY <1>1, <2>1 DEF Counting, CountMatches
  <2> QED BY <1>1, <2>1, <2>2 DEF Counting
<1>2. ASSUME NEW c \in Chapter, CreateChapter(c) PROVE Counting'
  <2>1. PICK r \in Row : r.status = "draft" /\ row' = [row EXCEPT ![c] = r]
    BY <1>2, DraftRow DEF CreateChapter
  <2>2. row[c].status = "none"
    BY <1>2 DEF CreateChapter
  <2>5. row' \in [Chapter -> Row] /\ Published' = Published
    BY <2>1, <2>2 DEF Counting, Published
  <2>3. UNCHANGED <<now, count, txn, release, outdated, drifted>>
    BY <1>2 DEF CreateChapter
  <2>4. CountMatches'
    BY <2>5, <2>3 DEF Counting, CountMatches
  <2> QED BY <2>5, <2>3, <2>4 DEF Counting
<1>3. ASSUME NEW s \in Slot, NEW c \in Chapter, SaveRow(s, c) \/ UnpublishRow(s, c)
      PROVE  Counting'
  <2>1. PICK x : /\ Put(s, x)
                 /\ \/ x = [op |-> "save", step |-> "body", chapter |-> c]
                    \/ x = [op |-> "unpublish", step |-> "commit", chapter |-> c,
                            counted |-> Recount({}, {c})]
    BY <1>3 DEF SaveRow, UnpublishRow
  <2>2. Recount({}, {c}) = Cardinality(Published \ {c})
    <3>1. (Published \cup {}) \ {c} = Published \ {c}
      OBVIOUS
    <3> QED BY <3>1 DEF Recount
  <2>3. RequestCounts(s, x, Published, outdated)
    BY <2>1, <2>2 DEF RequestCounts, Leaves
  <2> QED BY <1>3, <2>1, <2>3, RequestMoves DEF SaveRow, UnpublishRow, novel, chapters
<1>4. ASSUME NEW s \in Slot, NEW c \in Chapter, NEW lead \in Lead, PublishBegin(s, c, lead)
      PROVE  Counting'
  <2> DEFINE x == [op |-> "publish", step |-> "render", chapter |-> c,
                   due |-> IF lead > 0 THEN now + lead ELSE Unset, rev |-> glossary]
  <2>1. Put(s, x) /\ UNCHANGED <<now, row, count, outdated, drifted, release>>
    BY <1>4 DEF PublishBegin, novel, chapters
  <2>2. RequestCounts(s, x, Published, outdated)
    BY PolicyAssumption DEF RequestCounts, Counting, Times
  <2> HIDE DEF x
  <2> QED BY <2>1, <2>2, RequestMoves
<1>5. ASSUME NEW s \in Slot, Fail(s) PROVE Counting'
  <2>1. outdated' = outdated \ {s} /\ "release" # s
    BY <1>5, SetAssumption DEF Fail
  <2>2. UNCHANGED <<now, row, count, drifted, release>> /\ Put(s, Idle)
    BY <1>5 DEF Fail
  <2>3. DOMAIN txn' = Slot /\ \A t \in Slot : txn'[t] = IF t = s THEN Idle ELSE txn[t]
    BY <2>2 DEF Put, Counting
  <2>4. Published' = Published
    BY <2>2 DEF Published
  <2>5. \A t \in Slot : RequestCounts(t, txn'[t], Published, outdated')
    BY <2>1, <2>3, IdleCounts DEF Counting, RequestCounts
  <2>6. RunCounts(release, Published, outdated')
    BY <2>1 DEF Counting, RunCounts
  <2>7. CountMatches'
    BY <2>2, <2>4 DEF Counting, CountMatches
  <2> QED BY <2>2, <2>3, <2>4, <2>5, <2>6, <2>7 DEF Counting
<1>6. CASE Release
  BY <1>6, ReleaseCounts
<1>7. CASE Render
  BY <1>1, <1>7 DEF Render, RenderScan, RenderRead, RenderWrite, RenderCommit, novel, chapters,
                    Counting
<1>8. CASE JobFails
  <2>1. /\ UNCHANGED <<now, row, count, drifted, txn>>
        /\ \/ release' = NoRelease /\ outdated' = outdated \ {"release"}
           \/ UNCHANGED <<release, outdated>>
    BY <1>8 DEF JobFails, novel
  <2>2. Published' = Published
    BY <2>1 DEF Published
  <2>3. \A s \in Slot : RequestCounts(s, txn[s], Published, outdated')
    BY <2>1, SetAssumption DEF Counting, RequestCounts
  <2>4. RunCounts(release', Published, outdated')
    BY <2>1 DEF Counting, RunCounts, NoRelease
  <2>5. CountMatches'
    BY <2>1, <2>2 DEF Counting, CountMatches
  <2> QED BY <2>1, <2>2, <2>3, <2>4, <2>5 DEF Counting
<1>9. CASE EditGlossary \/ Tick
  BY <1>1, <1>9 DEF EditGlossary, Tick, novel, chapters, Counting
<1>10. ASSUME NEW f \in Follower, Follow(f) PROVE Counting'
  <2>1. UNCHANGED <<now, row, count, outdated, drifted, release>>
    BY <1>10 DEF Follow, chapters
  <2>2. DOMAIN txn' = Slot /\ \A s \in Slot : RequestCounts(s, txn'[s], Published, outdated)
    <3>1. CASE txn' = txn
      BY <3>1 DEF Counting
    <3>2. CASE txn' = [s \in Slot |->
                         IF txn[s].op = "notify"
                         THEN [txn[s] EXCEPT !.audience = txn[s].audience \ {f}]
                         ELSE txn[s]]
      <4>1. ASSUME NEW s \in Slot PROVE RequestCounts(s, txn'[s], Published, outdated)
        <5>0. RequestCounts(s, txn[s], Published, outdated)
          BY DEF Counting
        <5>1. CASE txn[s].op = "notify"
          <6>1. txn'[s] = [txn[s] EXCEPT !.audience = txn[s].audience \ {f}]
            BY <3>2, <5>1
          <6>2. txn'[s].op = "notify" /\ txn'[s].step = txn[s].step
            BY <5>1, <6>1
          <6> QED BY <5>0, <5>1, <6>2 DEF RequestCounts
        <5>2. CASE txn[s].op # "notify"
          BY <3>2, <5>0, <5>2
        <5> QED BY <5>1, <5>2
      <4> QED BY <3>2, <4>1
    <3> QED BY <1>10, <3>1, <3>2 DEF Follow
  <2>3. now' \in Nat
    BY <2>1 DEF Counting
  <2> QED BY <1>1, <2>1, <2>2, <2>3
<1>11. CASE UNCHANGED vars
  BY <1>1, <1>11 DEF vars, Counting
<1> QED BY <1>2, <1>3, <1>4, <1>5, <1>6, <1>7, <1>8, <1>9, <1>10, <1>11, ServeCounts DEF Next

(* The novel's chapter count is the number of its published chapters,      *)
(* however many publications, withdrawals and scheduled releases overlap   *)
(* and break off, unless the recount that wrote it had begun before        *)
(* another of them committed.                                              *)
THEOREM CountMatchesCorrect == Spec => []CountMatches
<1>1. Init => Counting
  BY CountingInit
<1>2. Counting /\ [Next]_vars => Counting'
  BY CountingNext
<1>3. Counting => CountMatches
  BY DEF Counting
<1> QED BY <1>1, <1>2, <1>3, PTL DEF Spec

-----------------------------------------------------------------------------
(* The fan-out.  What a page read by keyset contains: everybody up to its  *)
(* last follower, and everybody there is if it is not full.                *)
LEMMA PageMembers ==
    ASSUME NEW S, S \subseteq Nat, IsFiniteSet(S), NEW n \in Nat \ {0}
    PROVE  /\ Smallest(S, n) \subseteq S
           /\ Cardinality(Smallest(S, n)) < n => Smallest(S, n) = S
           /\ Smallest(S, n) # {} => \E m \in Smallest(S, n) : \A g \in Smallest(S, n) : g <= m
           /\ \A m \in Smallest(S, n), f \in S : f <= m => f \in Smallest(S, n)
<1> DEFINE P == Smallest(S, n)
           Below(f) == {g \in S : g < f}
<1>1. P = {f \in S : Cardinality(Below(f)) < n} /\ P \subseteq S /\ IsFiniteSet(P)
  BY FS_Subset DEF Smallest
<1>2. \A f \in S : IsFiniteSet(Below(f)) /\ Cardinality(Below(f)) \in Nat
  <2> SUFFICES ASSUME NEW f \in S PROVE IsFiniteSet(Below(f)) /\ Cardinality(Below(f)) \in Nat
    OBVIOUS
  <2>1. Below(f) \in SUBSET S
    OBVIOUS
  <2> QED BY <2>1, FS_Subset, FS_CardinalityType
<1>3. ASSUME NEW m \in P, NEW f \in S, f <= m PROVE f \in P
  <2>1. m \in S /\ m \in Nat /\ f \in Nat /\ Cardinality(Below(m)) < n
    BY <1>1
  <2>2. Below(f) \in SUBSET Below(m)
    <3> SUFFICES ASSUME NEW g \in S, g < f PROVE g < m
      OBVIOUS
    <3>1. g \in Nat
      OBVIOUS
    <3> QED BY <1>3, <2>1, <3>1
  <2>3. Cardinality(Below(f)) <= Cardinality(Below(m))
    BY <1>2, <2>1, <2>2, FS_Subset
  <2>4. Cardinality(Below(f)) < n
    BY <1>2, <2>1, <2>3
  <2> QED BY <1>1, <2>4
<1>4. ASSUME P # {} PROVE \E m \in P : \A g \in P : g <= m
  <2>1. P \in SUBSET Int
    <3> SUFFICES ASSUME NEW g \in P PROVE g \in Int
      OBVIOUS
    <3>1. g \in S
      BY <1>1
    <3>2. g \in Nat
      BY <3>1
    <3> QED BY <3>2
  <2> HIDE DEF P
  <2> QED BY <1>1, <1>4, <2>1, GreatestMember
<1>5. ASSUME Cardinality(P) < n PROVE P = S
  <2> SUFFICES ASSUME S \ P # {} PROVE FALSE
    BY <1>1
  <2>1. S \ P \in SUBSET Int
    <3> SUFFICES ASSUME NEW g \in S PROVE g \in Int
      OBVIOUS
    <3>1. g \in Nat
      OBVIOUS
    <3> QED BY <3>1
  <2>a. IsFiniteSet(S \ P)
    <3>1. S \ P \in SUBSET S
      OBVIOUS
    <3> HIDE DEF P
    <3> QED BY <3>1, FS_Subset
  <2>2. PICK f \in S \ P : \A g \in S \ P : f <= g
    <3> HIDE DEF P
    <3> QED BY <2>1, <2>a, LeastMember
  <2>3. Below(f) \in SUBSET P
    <3> SUFFICES ASSUME NEW g \in Below(f), g \notin P PROVE FALSE
      OBVIOUS
    <3>1. g \in Nat /\ f \in Nat /\ g < f /\ f <= g
      BY <2>2
    <3> QED BY <3>1
  <2>4. Cardinality(Below(f)) <= Cardinality(P) /\ Cardinality(P) \in Nat
    BY <1>1, <2>3, FS_Subset, FS_CardinalityType
  <2>5. Cardinality(Below(f)) < n
    BY <1>2, <1>5, <2>4
  <2> QED BY <1>1, <2>5
<1> HIDE DEF P, Below
<1>6. P = Smallest(S, n)
  BY DEF P
<1> QED BY <1>1, <1>3, <1>4, <1>5, <1>6

(* Whoever has been passed has been told.                                  *)
Reaches(x, fans, notices) ==
    x.op = "notify" =>
        /\ x = [op |-> "notify", step |-> x.step, chapter |-> x.chapter, after |-> x.after,
                sent |-> x.sent, audience |-> x.audience]
        /\ x.after \in Nat /\ x.audience \subseteq fans
        /\ \A f \in x.audience : f <= x.after => <<f, x.chapter>> \in notices

Reaching == /\ follows \subseteq Follower /\ DOMAIN txn = Slot
            /\ \A s \in Slot : Reaches(txn[s], follows, told)

LEMMA ReachMoves ==
    ASSUME Reaching, NEW s \in Slot, NEW x, Put(s, x), follows' = follows,
           told \subseteq told', Reaches(x, follows, told')
    PROVE  Reaching'
<1>1. DOMAIN txn' = Slot /\ \A t \in Slot : txn'[t] = IF t = s THEN x ELSE txn[t]
  BY DEF Put, Reaching
<1>2. \A t \in Slot : Reaches(txn'[t], follows, told')
  BY <1>1 DEF Reaching, Reaches
<1> QED BY <1>1, <1>2 DEF Reaching

LEMMA ReachElsewhere ==
    ASSUME Reaching, NEW s \in Slot, NEW x, Put(s, x), x.op # "notify",
           UNCHANGED <<follows, told>>
    PROVE  Reaching'
BY ReachMoves DEF Reaches

LEMMA ReachPage ==
    ASSUME Reaching, NEW s \in Slot, NotifyPage(s)
    PROVE  /\ Reaching'
           /\ txn'[s].op # "notify" => (txn[s].audience \X {txn[s].chapter}) \subseteq told'
<1> DEFINE x == txn[s]
           fans == {f \in follows : f > x.after}
           page == Page(x)
<1>1. x.op = "notify" /\ Reaches(x, follows, told) /\ follows \subseteq Nat \ {0}
  BY SetAssumption DEF NotifyPage, Reaching
<1>2. follows' = follows /\ told' = told \cup (page \X {x.chapter})
  BY DEF NotifyPage, novel
<1>3. fans \in SUBSET Follower /\ IsFiniteSet(fans) /\ fans \subseteq Nat
  BY <1>1, SetAssumption, FS_Subset DEF Reaching
<1>4. page = Smallest(fans, PageSize)
  BY DEF Page
<1>a. PageSize \in Nat \ {0}
  BY PolicyAssumption
<1>5. /\ page \subseteq fans
      /\ Cardinality(page) < PageSize => page = fans
      /\ page # {} => \E m \in page : \A g \in page : g <= m
      /\ \A m \in page, f \in fans : f <= m => f \in page
  <2> HIDE DEF fans, page
  <2> QED BY <1>3, <1>4, <1>a, PageMembers
<1>6. CASE Cardinality(page) < PageSize
  <2>1. Put(s, Idle)
    BY <1>6 DEF NotifyPage
  <2>2. Idle.op # "notify" /\ Reaches(Idle, follows, told')
    BY DEF Idle, Reaches
  <2>3. Reaching'
    BY <1>2, <2>1, <2>2, ReachMoves
  <2>4. ASSUME NEW f \in x.audience PROVE <<f, x.chapter>> \in told'
    <3>1. f \in follows /\ f \in Nat /\ x.after \in Nat
      BY <1>1 DEF Reaches
    <3>2. CASE f <= x.after
      BY <1>1, <1>2, <3>2 DEF Reaches
    <3>3. CASE f > x.after
      BY <1>2, <1>5, <1>6, <3>1, <3>3
    <3> QED BY <3>1, <3>2, <3>3
  <2> QED BY <2>3, <2>4
<1>7. CASE ~(Cardinality(page) < PageSize)
  <2> DEFINE m == CHOOSE f \in page : \A g \in page : g <= f
             y == [x EXCEPT !.sent = x.sent + PageSize, !.after = m]
  <2>1. Put(s, y)
    BY <1>7 DEF NotifyPage
  <2>2. page # {}
    BY <1>7, <1>a, FS_EmptySet
  <2>3. m \in page /\ m \in fans /\ m \in Nat
    BY <1>3, <1>5, <2>2
  <2>4. y.op = "notify" /\ y.after = m /\ y.audience = x.audience /\ y.chapter = x.chapter
    <3>1. x = [op |-> "notify", step |-> x.step, chapter |-> x.chapter, after |-> x.after,
                sent |-> x.sent, audience |-> x.audience]
      BY <1>1 DEF Reaches
    <3> HIDE DEF x, m
    <3> QED BY <3>1
  <2> HIDE DEF m, y
  <2>5. ASSUME NEW f \in y.audience, f <= m PROVE <<f, y.chapter>> \in told'
    <3>1. f \in follows /\ f \in Nat /\ x.after \in Nat
      BY <1>1, <2>4 DEF Reaches
    <3>2. CASE f <= x.after
      BY <1>1, <1>2, <2>4, <3>2 DEF Reaches
    <3>3. CASE f > x.after
      <4>1. f \in fans
        BY <3>1, <3>3
      <4>2. f \in page
        BY <1>5, <2>3, <2>5, <4>1
      <4> QED BY <1>2, <2>4, <4>2
    <3> QED BY <3>1, <3>2, <3>3
  <2>6. Reaches(y, follows, told')
    <3>1. x = [op |-> "notify", step |-> x.step, chapter |-> x.chapter, after |-> x.after,
                sent |-> x.sent, audience |-> x.audience]
      BY <1>1 DEF Reaches
    <3>2. y = [op |-> "notify", step |-> y.step, chapter |-> y.chapter, after |-> y.after,
                sent |-> y.sent, audience |-> y.audience]
      <4> HIDE DEF x, m
      <4>1. PICK a1, a2, a3, a4, a5 :
                x = [op |-> "notify", step |-> a1, chapter |-> a2, after |-> a3,
                     sent |-> a4, audience |-> a5]
        BY <3>1
      <4>2. PICK n : y = [x EXCEPT !.sent = n, !.after = m]
        BY DEF y
      <4>3. y = [op |-> "notify", step |-> a1, chapter |-> a2, after |-> m,
                 sent |-> n, audience |-> a5]
        BY <4>1, <4>2
      <4> QED BY <4>3
    <3> QED BY <1>1, <2>3, <2>4, <2>5, <3>2 DEF Reaches
  <2>7. Reaching'
    BY <1>2, <2>1, <2>6, ReachMoves
  <2>8. txn'[s].op = "notify"
    BY <2>1, <2>4 DEF Put, Reaching
  <2> QED BY <2>7, <2>8
<1> QED BY <1>6, <1>7

LEMMA ReachingInit == Init => Reaching
<1> SUFFICES ASSUME Init PROVE Reaching
  OBVIOUS
<1>1. \A s \in Slot : Reaches(txn[s], follows, told)
  BY DEF Init, Reaches, Idle
<1>2. follows \subseteq Follower
  BY DEF Init
<1> QED BY <1>1, <1>2 DEF Init, Reaching

LEMMA ServeReaches ==
    ASSUME Reaching, NEW s \in Slot, Serve(s)
    PROVE  Reaching'
<1>0. Idle.op # "notify"
  BY DEF Idle
<1>1. CASE SaveBody(s)
  BY <1>0, <1>1, ReachElsewhere DEF SaveBody, novel
<1>2. CASE PublishRender(s)
  BY <1>2, ReachElsewhere DEF PublishRender, novel
<1>3. CASE PublishBody(s)
  <2> DEFINE x == [txn[s] EXCEPT !.step = "row"]
  <2>1. x.op # "notify" /\ Put(s, x) /\ UNCHANGED <<follows, told>>
    BY <1>3 DEF PublishBody, novel
  <2> HIDE DEF x
  <2> QED BY <2>1, ReachElsewhere
<1>4. CASE PublishRow(s)
  BY <1>4, ReachElsewhere DEF PublishRow, novel
<1>5. CASE PublishCommit(s)
  <2> DEFINE x == [op |-> "notify", step |-> "page", chapter |-> txn[s].chapter, after |-> 0,
                   sent |-> 0, audience |-> follows]
  <2>1. follows' = follows /\ told' = told
    BY <1>5 DEF PublishCommit, novel
  <2>2. CASE Put(s, Idle)
    BY <1>0, <2>1, <2>2, ReachElsewhere
  <2>3. CASE Put(s, x)
    <3>1. \A f \in follows : ~(f <= 0)
      <4>1. \A f \in follows : f \in Nat \ {0}
        BY SetAssumption DEF Reaching
      <4> QED BY <4>1
    <3>2. Reaches(x, follows, told)
      BY <3>1 DEF Reaches
    <3> HIDE DEF x
    <3> QED BY <2>1, <2>3, <3>2, ReachMoves
  <2> QED BY <1>5, <2>2, <2>3 DEF PublishCommit
<1>6. CASE UnpublishCommit(s)
  BY <1>0, <1>6, ReachElsewhere DEF UnpublishCommit, novel
<1>7. CASE NotifyPage(s)
  BY <1>7, ReachPage
<1>8. CASE DeadlockVictim(s)
  BY <1>0, <1>8, ReachElsewhere DEF DeadlockVictim, novel
<1> QED BY <1>1, <1>2, <1>3, <1>4, <1>5, <1>6, <1>7, <1>8 DEF Serve

LEMMA FollowReaches ==
    ASSUME Reaching, NEW f \in Follower, Follow(f)
    PROVE  Reaching'
<1>0. told' = told
  BY DEF Follow
<1>1. CASE f \notin follows /\ follows' = follows \cup {f} /\ UNCHANGED txn
  BY <1>0, <1>1 DEF Reaching, Reaches
<1>2. CASE /\ f \in follows /\ follows' = follows \ {f}
           /\ txn' = [s \in Slot |->
                        IF txn[s].op = "notify"
                        THEN [txn[s] EXCEPT !.audience = txn[s].audience \ {f}]
                        ELSE txn[s]]
  <2>1. ASSUME NEW s \in Slot PROVE Reaches(txn'[s], follows', told')
    <3>0. Reaches(txn[s], follows, told)
      BY DEF Reaching
    <3>1. CASE txn[s].op = "notify"
      <4>1. PICK x, a : x = txn[s] /\ a = x.audience \ {f}
        OBVIOUS
      <4>2. x = [op |-> "notify", step |-> x.step, chapter |-> x.chapter, after |-> x.after,
                 sent |-> x.sent, audience |-> x.audience]
        BY <3>0, <3>1, <4>1 DEF Reaches
      <4>3. txn'[s] = [x EXCEPT !.audience = a]
        BY <1>2, <3>1, <4>1
      <4>4. txn'[s] = [op |-> "notify", step |-> x.step, chapter |-> x.chapter,
                       after |-> x.after, sent |-> x.sent, audience |-> a]
        BY <4>2, <4>3
      <4> QED BY <1>0, <1>2, <3>0, <3>1, <4>1, <4>4 DEF Reaches
    <3>2. CASE txn[s].op # "notify"
      BY <1>2, <3>2 DEF Reaches
    <3> QED BY <3>1, <3>2
  <2> QED BY <1>2, <2>1 DEF Reaching
<1> QED BY <1>1, <1>2 DEF Follow

LEMMA ReachingNext ==
    ASSUME Reaching, [Next]_vars
    PROVE  Reaching'
<1>0. Idle.op # "notify"
  BY DEF Idle
<1>1. ASSUME UNCHANGED <<follows, told, txn>> PROVE Reaching'
  BY <1>1 DEF Reaching
<1>2. ASSUME NEW c \in Chapter, CreateChapter(c) PROVE Reaching'
  BY <1>1, <1>2 DEF CreateChapter, novel
<1>3. ASSUME NEW s \in Slot, NEW c \in Chapter, SaveRow(s, c) \/ UnpublishRow(s, c)
      PROVE  Reaching'
  BY <1>3, ReachElsewhere DEF SaveRow, UnpublishRow, novel
<1>4. ASSUME NEW s \in Slot, NEW c \in Chapter, NEW lead \in Lead, PublishBegin(s, c, lead)
      PROVE  Reaching'
  BY <1>4, ReachElsewhere DEF PublishBegin, novel
<1>5. ASSUME NEW s \in Slot, Fail(s) PROVE Reaching'
  BY <1>0, <1>5, ReachElsewhere DEF Fail, novel
<1>6. CASE Release \/ JobFails
  BY <1>1, <1>6 DEF Release, ReleaseScan, ReleaseUpdate, ReleaseCommit, JobFails, novel
<1>7. CASE Render
  BY <1>1, <1>7 DEF Render, RenderScan, RenderRead, RenderWrite, RenderCommit, novel
<1>8. CASE EditGlossary \/ Tick
  BY <1>1, <1>8 DEF EditGlossary, Tick, novel
<1>9. CASE UNCHANGED vars
  BY <1>1, <1>9 DEF vars
<1> QED BY <1>2, <1>3, <1>4, <1>5, <1>6, <1>7, <1>8, <1>9, ServeReaches, FollowReaches DEF Next

LEMMA FaultsCounted == faults \in Nat /\ [Next]_vars => faults' \in Nat
<1> SUFFICES ASSUME faults \in Nat, [Next]_vars
             PROVE  faults' = faults \/ faults' = faults + 1
  OBVIOUS
<1>1. ASSUME NEW s \in Slot, Serve(s) PROVE faults' = faults
  BY <1>1 DEF Serve, SaveBody, PublishRender, PublishBody, PublishRow, PublishCommit,
              UnpublishCommit, NotifyPage, DeadlockVictim
<1>2. ASSUME NEW s \in Slot, Fail(s) PROVE faults' = faults + 1
  BY <1>2 DEF Fail
<1>3. ASSUME NEW s \in Slot, NEW c \in Chapter,
             \/ SaveRow(s, c) \/ UnpublishRow(s, c)
             \/ \E lead \in Lead : PublishBegin(s, c, lead)
      PROVE  faults' = faults
  BY <1>3 DEF SaveRow, UnpublishRow, PublishBegin
<1>4. CASE Release \/ Render
  BY <1>4 DEF Release, ReleaseScan, ReleaseUpdate, ReleaseCommit,
              Render, RenderScan, RenderRead, RenderWrite, RenderCommit
<1>5. CASE JobFails
  BY <1>5 DEF JobFails
<1>6. CASE EditGlossary \/ Tick \/ \E f \in Follower : Follow(f)
  BY <1>6 DEF EditGlossary, Tick, Follow
<1>7. CASE \E c \in Chapter : CreateChapter(c)
  BY <1>7 DEF CreateChapter
<1>8. CASE UNCHANGED vars
  BY <1>8 DEF vars
<1> QED BY <1>1, <1>2, <1>3, <1>4, <1>5, <1>6, <1>7, <1>8 DEF Next

(* A fan-out ends early only with a fault.                                 *)
LEMMA FanOutEnds ==
    ASSUME Reaching, faults \in Nat, Next, NEW s \in Slot, txn[s].op = "notify",
           txn'[s].op # "notify", faults' = faults
    PROVE  NotifyPage(s)
<1>0. DOMAIN txn = Slot
  BY DEF Reaching
<1>1. ASSUME NEW t \in Slot, NEW x, Put(t, x), txn[t].op # "notify" PROVE FALSE
  BY <1>0, <1>1 DEF Put
<1>2. ASSUME UNCHANGED txn PROVE FALSE
  BY <1>2
<1>3. CASE \E c \in Chapter : CreateChapter(c)
  BY <1>2, <1>3 DEF CreateChapter
<1>4. ASSUME NEW t \in Slot, NEW c \in Chapter,
             \/ SaveRow(t, c) \/ UnpublishRow(t, c)
             \/ \E lead \in Lead : PublishBegin(t, c, lead)
      PROVE  FALSE
  <2>1. PICK x : txn[t] = Idle /\ Put(t, x)
    BY <1>4 DEF SaveRow, UnpublishRow, PublishBegin, MayBegin
  <2>2. txn[t].op # "notify"
    BY <2>1 DEF Idle
  <2> QED BY <1>1, <2>1, <2>2
<1>5. ASSUME NEW t \in Slot, Serve(t) PROVE NotifyPage(s)
  <2>1. CASE NotifyPage(t)
    <3>1. CASE t = s
      BY <2>1, <3>1
    <3>2. CASE t # s
      <4>1. PICK x : Put(t, x)
        BY <2>1 DEF NotifyPage
      <4> QED BY <1>0, <3>2, <4>1 DEF Put
    <3> QED BY <3>1, <3>2
  <2>2. CASE DeadlockVictim(t)
    BY <1>1, <2>2 DEF DeadlockVictim
  <2>3. CASE SaveBody(t) \/ UnpublishCommit(t)
    BY <1>1, <2>3 DEF SaveBody, UnpublishCommit
  <2>4. CASE PublishRender(t) \/ PublishBody(t) \/ PublishRow(t)
    BY <1>1, <2>4 DEF PublishRender, PublishBody, PublishRow
  <2>5. CASE PublishCommit(t)
    BY <1>1, <2>5 DEF PublishCommit
  <2> QED BY <1>5, <2>1, <2>2, <2>3, <2>4, <2>5 DEF Serve
<1>6. ASSUME NEW t \in Slot, Fail(t) PROVE FALSE
  <2>1. faults' = faults + 1
    BY <1>6 DEF Fail
  <2> QED BY <2>1
<1>7. CASE Release \/ Render
  BY <1>2, <1>7 DEF Release, ReleaseScan, ReleaseUpdate, ReleaseCommit,
                    Render, RenderScan, RenderRead, RenderWrite, RenderCommit
<1>8. CASE JobFails \/ EditGlossary \/ Tick
  BY <1>2, <1>8 DEF JobFails, EditGlossary, Tick
<1>9. ASSUME NEW f \in Follower, Follow(f) PROVE FALSE
  <2>1. CASE UNCHANGED txn
    BY <1>2, <2>1
  <2>2. CASE txn' = [t \in Slot |->
                       IF txn[t].op = "notify"
                       THEN [txn[t] EXCEPT !.audience = txn[t].audience \ {f}]
                       ELSE txn[t]]
    <3>1. txn'[s] = [txn[s] EXCEPT !.audience = txn[s].audience \ {f}]
      BY <2>2
    <3>2. txn'[s].op = txn[s].op
      BY <3>1
    <3> QED BY <3>2
  <2> QED BY <1>9, <2>1, <2>2 DEF Follow
<1> QED BY <1>3, <1>4, <1>5, <1>6, <1>7, <1>8, <1>9 DEF Next

(* A fan-out that runs to its end has told every follower that is left of  *)
(* those it began with, for any number of followers, any size of a page    *)
(* and whoever follows or unfollows between two pages.                     *)
THEOREM FollowersReachedCorrect == Spec => FollowersReached
<1>1. Init => Reaching /\ faults \in Nat
  BY ReachingInit DEF Init
<1>2. Reaching /\ faults \in Nat /\ [Next]_vars => (Reaching /\ faults \in Nat)'
  BY ReachingNext, FaultsCounted
<1>3. Reaching /\ faults \in Nat /\ [Next]_vars =>
        [\A s \in Slot :
           txn[s].op = "notify" /\ txn'[s].op # "notify" /\ faults' = faults
             => (txn[s].audience \X {txn[s].chapter}) \subseteq told']_vars
  <2> SUFFICES ASSUME Reaching, faults \in Nat, Next, NEW s \in Slot,
                      txn[s].op = "notify", txn'[s].op # "notify", faults' = faults
               PROVE  (txn[s].audience \X {txn[s].chapter}) \subseteq told'
    OBVIOUS
  <2> QED BY FanOutEnds, ReachPage
<1> QED BY <1>1, <1>2, <1>3, PTL DEF Spec, FollowersReached
=============================================================================
