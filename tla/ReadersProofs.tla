----------------------------- MODULE ReadersProofs ----------------------------
(***************************************************************************)
(* What readers do, for every number of readers, novels, comments,         *)
(* chapters and requests: counters, threads, the shelf and access to       *)
(* chapters.                                                               *)
(***************************************************************************)
EXTENDS Threads, Reading, Shelf, FiniteSetTheorems, SequenceTheorems, TLAPS

(***************************************************************************)
(* Counters: what a transaction has written is what its commit will count. *)
(***************************************************************************)
(* The requests that insert or delete link rows, and the row that q writes *)
(* for target t.                                                           *)
LinkKinds == InsertKinds \cup DeleteKinds
Row(q, t) == <<ask[q].user, t>>

(* What holds of q's own transaction at each of its statements.            *)
Stepwise(q) ==
    /\ step[q] = "insert" => ask[q].kind \in InsertKinds
    /\ step[q] = "delete" => ask[q].kind \in DeleteKinds
    /\ step[q] = "bump" => ask[q].kind \in LinkKinds
    /\ step[q] \in {"upsert", "recount", "rate"} => ask[q].kind = "review"
    /\ step[q] \in {"insert", "delete"} => locked[q] = {}
    /\ step[q] = "delete" /\ todo[q] = <<>> => touched[q] = {}

(* It writes rows that were not there, or that are, and each is counted.   *)
Counted(q) ==
    /\ \A t \in touched[q] : ask[q].kind \in InsertKinds => Row(q, t) \notin links
    /\ \A t \in touched[q] : ask[q].kind \in DeleteKinds => Row(q, t) \in links
    /\ step[q] = "bump" =>
          todo[q] # <<>> /\ locked[q] \cup ToSet(todo[q]) = touched[q]
    /\ step[q] = "commit" /\ ask[q].kind \in LinkKinds => locked[q] = touched[q]

(* Nobody else writes a row that is written already.                       *)
Apart(p, q) ==
    ask[p].kind \in LinkKinds /\ ask[q].kind \in LinkKinds /\ ask[p].user = ask[q].user
      => touched[p] \cap touched[q] = {}

(* A review alone with its novel has recounted what it will commit.        *)
Rated(q) == [reviews EXCEPT ![<<ask[q].user, Head(ask[q].on)>>] = ask[q].stars]
Alone(q) ==
    /\ step[q] = "start" => q \notin lone
    /\ q \in lone => ask[q].kind = "review"
    /\ q \in lone /\ InFlight(q) => Overlaps(q) = {}
    /\ q \in lone /\ step[q] \in {"rate", "commit"} =>
          agg[q] = AggregateOf(Head(ask[q].on), Rated(q))

ReviewRows(q) ==
    /\ ask[q].kind = "review" => ask[q].on \in [1..1 -> Novel] /\ ask[q].stars \in Stars
    /\ step[q] \in {"upsert", "recount", "rate"} => todo[q] = ask[q].on

CountersInv ==
    /\ TypeOK /\ CountersMatch
    /\ orders \in Seq(Seq(Novel)) /\ orders # <<>>
    /\ \A q \in Request : /\ IsFiniteSet(touched[q])
                          /\ Stepwise(q) /\ Counted(q) /\ ReviewRows(q) /\ Alone(q)
    /\ \A p, q \in Request : p # q => Apart(p, q)

-----------------------------------------------------------------------------
(* Sequences that meet every row of a set once.                            *)
LEMMA OrdersOf ==
    ASSUME NEW S, S \subseteq Target, IsFiniteSet(S), NEW ts \in SetToSeqs(S)
    PROVE  ts \in Seq(Target) /\ ToSet(ts) = S /\ (S # {} => ts # <<>>)
<1> DEFINE n == Cardinality(S)
<1>1. n \in Nat
  BY FS_CardinalityType
<1>2. ts \in [1..n -> S] /\ \A i, j \in 1..n : i # j => ts[i] # ts[j]
  BY DEF SetToSeqs
<1>3. ts \in Injection(1..n, S)
  BY <1>2 DEF Injection, IsInjective
<1>4. IsFiniteSet(1..n) /\ Cardinality(1..n) = n
  BY <1>1, FS_Interval
<1>5. ts \in Surjection(1..n, S)
  BY <1>3, <1>4, FS_Injection
<1>6. ToSet(ts) = S
  BY <1>2, <1>5 DEF ToSet, Surjection
<1>7. ts \in Seq(Target)
  BY <1>1, <1>2
<1> QED BY <1>6, <1>7 DEF ToSet

(* The targets of a request are finitely many.                             *)
LEMMA RangeFinite ==
    ASSUME NEW s \in Seq(Target)
    PROVE  IsFiniteSet(ToSet(s)) /\ ToSet(s) \subseteq Target
<1> DEFINE D == 1..Len(s)
<1>1. Len(s) \in Nat /\ s \in [D -> Target] /\ DOMAIN s = D
  BY LenProperties
<1>2. s \in Surjection(D, ToSet(s))
  BY <1>1 DEF Surjection, ToSet
<1>3. IsFiniteSet(D)
  BY <1>1, FS_Interval
<1> QED BY <1>1, <1>2, <1>3, FS_Surjection DEF ToSet

(* What a request has left to do, and what it does next.                   *)
LEMMA HeadsAndTails ==
    ASSUME NEW s \in Seq(Target), s # <<>>
    PROVE  /\ Head(s) \in Target /\ Tail(s) \in Seq(Target)
           /\ ToSet(s) = {Head(s)} \cup ToSet(Tail(s))
           /\ Len(s) > 1 <=> Tail(s) # <<>>
<1>1. /\ Head(s) \in Target /\ Tail(s) \in Seq(Target) /\ Len(s) \in Nat \ {0}
      /\ Len(Tail(s)) = Len(s) - 1
      /\ \A i \in 1..Len(Tail(s)) : Tail(s)[i] = s[i + 1]
      /\ Head(s) = s[1]
  BY HeadTailProperties, EmptySeq, LenProperties
<1>2. DOMAIN s = 1..Len(s) /\ DOMAIN Tail(s) = 1..(Len(s) - 1)
  BY <1>1, LenProperties
<1>3. \A i \in 2..Len(s) : i - 1 \in 1..Len(Tail(s)) /\ s[i] = Tail(s)[i - 1]
  BY <1>1
<1>4. ToSet(s) \subseteq {Head(s)} \cup ToSet(Tail(s))
  <2> SUFFICES ASSUME NEW i \in 1..Len(s), i # 1 PROVE s[i] \in ToSet(Tail(s))
    BY <1>1, <1>2 DEF ToSet
  <2>1. i \in 2..Len(s)
    BY <1>1
  <2>2. i - 1 \in DOMAIN Tail(s) /\ s[i] = Tail(s)[i - 1]
    BY <1>1, <1>2, <1>3, <2>1
  <2> QED BY <2>2 DEF ToSet
<1>5. {Head(s)} \cup ToSet(Tail(s)) \subseteq ToSet(s)
  <2>1. ASSUME NEW i \in 1..(Len(s) - 1) PROVE Tail(s)[i] \in ToSet(s)
    <3>1. i + 1 \in 1..Len(s) /\ Tail(s)[i] = s[i + 1]
      BY <1>1, <1>2
    <3> QED BY <1>2, <3>1 DEF ToSet
  <2>2. s[1] \in ToSet(s)
    BY <1>1, <1>2 DEF ToSet
  <2> QED BY <1>1, <1>2, <2>1, <2>2 DEF ToSet
<1>6. Len(s) > 1 <=> Tail(s) # <<>>
  <2>1. Tail(s) # <<>> => Len(Tail(s)) \in Nat \ {0}
    BY <1>1, EmptySeq
  <2>2. ASSUME Tail(s) = <<>> PROVE Len(Tail(s)) = 0
    BY <2>2, EmptySeq, Zenon
  <2> QED BY <1>1, <2>1, <2>2
<1> QED BY <1>1, <1>4, <1>5, <1>6

(* A review is of one novel.                                               *)
LEMMA OneBook == ASSUME NEW s \in [1..1 -> Novel] PROVE s # <<>> /\ Head(s) \in Novel
<1>1. DOMAIN s = {1} /\ DOMAIN <<>> = {}
  OBVIOUS
<1>2. s # <<>>
  BY <1>1
<1>3. s[1] \in Novel
  OBVIOUS
<1>4. Head(s) = s[1]
  OBVIOUS
<1> QED BY <1>2, <1>3, <1>4

(* A request with nothing left has no target left.                         *)
LEMMA NothingInEmpty == ToSet(<<>>) = {}
BY DEF ToSet

(* The recount of a novel looks at that novel's reviews only.              *)
LEMMA RecountLooksAtOne ==
    ASSUME NEW n, NEW r, NEW s, \A u \in Reader : r[u, n] = s[u, n]
    PROVE  AggregateOf(n, r) = AggregateOf(n, s)
<1>1. {u \in Reader : r[u, n] # 0} = {u \in Reader : s[u, n] # 0}
  OBVIOUS
<1>2. \A k \in Stars : {u \in {v \in Reader : r[v, n] # 0} : r[u, n] = k}
                         = {u \in {v \in Reader : s[v, n] # 0} : s[u, n] = k}
  OBVIOUS
<1> QED BY <1>1, <1>2 DEF AggregateOf

(* A recount counts.                                                       *)
LEMMA AggregateIsTyped ==
    ASSUME NEW n, NEW r
    PROVE  AggregateOf(n, r) \in Aggregate
<1> DEFINE raters == {u \in Reader : r[u, n] # 0}
           sums   == [s \in Stars |-> s * Cardinality({u \in raters : r[u, n] = s})]
<1>1. IsFiniteSet(raters) /\ Cardinality(raters) \in Nat
  BY SetAssumption, FS_Subset, FS_CardinalityType
<1>2. ASSUME NEW s \in Stars
      PROVE  s * Cardinality({u \in raters : r[u, n] = s}) \in Nat
  <2>1. Cardinality({u \in raters : r[u, n] = s}) \in Nat
    BY <1>1, FS_Subset, FS_CardinalityType
  <2> DEFINE c == Cardinality({u \in raters : r[u, n] = s})
  <2>2. c \in Nat
    BY <2>1
  <2>4. s \in Nat
    BY DEF Stars
  <2> HIDE DEF c
  <2>3. s * c \in Nat
    BY <2>2, <2>4
  <2> QED BY <2>3 DEF c
<1>3. sums \in [Stars -> Nat]
  BY <1>2
<1>4. sums[1] + sums[2] + sums[3] + sums[4] + sums[5] \in Nat
  <2> HIDE DEF sums
  <2> QED BY <1>3 DEF Stars
<1> QED BY <1>1, <1>4 DEF AggregateOf, Aggregate

(* A target has finitely many fans.                                        *)
LEMMA FansFinite == ASSUME NEW t PROVE IsFiniteSet(Fans(t)) /\ Cardinality(Fans(t)) \in Nat
BY SetAssumption, FS_Subset, FS_CardinalityType DEF Fans

-----------------------------------------------------------------------------
(* Every history starts with counters that match.                          *)
LEMMA CountersInvInit == ASSUME NEW h \in Histories, CountersInit(h) PROVE CountersInv
<1> USE HistoryAssumption, SetAssumption DEF CountersInit
<1>1. /\ ask \in [Request -> Ask] /\ links \subseteq Reader \X Target
      /\ \A q \in Request : WellAsked(ask[q])
  OBVIOUS
<1>2. count \in [Target -> Nat] /\ CountersMatch
  BY FansFinite DEF CountersMatch
<1>3. <<>> \in Seq(Target)
  OBVIOUS
<1>4. TypeOK
  BY <1>1, <1>2, <1>3 DEF TypeOK, Steps, Aggregate, InFlight
<1>5. \A q \in Request : ReviewRows(q)
  BY <1>1 DEF ReviewRows, WellAsked, SeriesKinds, Steps
<1> QED BY <1>2, <1>4, <1>5, FS_EmptySet
        DEF CountersInv, Stepwise, Counted, Apart, Alone

(***************************************************************************)
(* A step of q that leaves the committed rows alone; what it must show of  *)
(* q, and what follows for the others.                                     *)
(***************************************************************************)
OnlyOf(q) ==
    \A p \in Request \ {q} :
        /\ ask'[p] = ask[p] /\ step'[p] = step[p] /\ todo'[p] = todo[p]
        /\ touched'[p] = touched[p] /\ locked'[p] = locked[p] /\ agg'[p] = agg[p]

(* Requests that do not move lose nothing.                                 *)
LEMMA OthersKeep ==
    ASSUME CountersInv, NEW q \in Request, OnlyOf(q), UNCHANGED <<links, reviews>>,
           UNCHANGED lone, ask' = ask,
           ask[q].kind = "review" /\ InFlight(q)' => InFlight(q)
    PROVE  \A p \in Request \ {q} : /\ IsFiniteSet(touched'[p])
                                    /\ Stepwise(p)' /\ Counted(p)' /\ ReviewRows(p)'
                                    /\ Alone(p)'
<1> SUFFICES ASSUME NEW p \in Request \ {q}
             PROVE  /\ IsFiniteSet(touched'[p])
                    /\ Stepwise(p)' /\ Counted(p)' /\ ReviewRows(p)' /\ Alone(p)'
  OBVIOUS
<1>1. /\ step'[p] = step[p] /\ todo'[p] = todo[p]
      /\ touched'[p] = touched[p] /\ locked'[p] = locked[p] /\ agg'[p] = agg[p]
  BY DEF OnlyOf
<1>2. IsFiniteSet(touched[p]) /\ Stepwise(p) /\ Counted(p) /\ ReviewRows(p) /\ Alone(p)
  BY DEF CountersInv
<1>3. Overlaps(p) = {} => Overlaps(p)' = {}
  BY DEF OnlyOf, Overlaps, InFlight
<1> QED BY <1>1, <1>2, <1>3
        DEF Stepwise, Counted, ReviewRows, Alone, Rated, InFlight, Row

(* A statement of q that commits nothing.                                  *)
LEMMA StepOfOne ==
    ASSUME CountersInv, NEW q \in Request, OnlyOf(q), TypeOK',
           UNCHANGED <<ask, links, count, reviews, orders, lone>>,
           ask[q].kind = "review" /\ InFlight(q)' => InFlight(q),
           IsFiniteSet(touched'[q]), Stepwise(q)', Counted(q)', ReviewRows(q)', Alone(q)',
           touched'[q] = touched[q] \/ \A p \in Request \ {q} : Apart(p, q)'
    PROVE  CountersInv'
<1>1. \A p \in Request \ {q} : /\ IsFiniteSet(touched'[p])
                               /\ Stepwise(p)' /\ Counted(p)' /\ ReviewRows(p)'
                               /\ Alone(p)'
  BY OthersKeep
<1>2. CountersMatch'
  BY DEF CountersInv, CountersMatch, Fans
<1>3. ASSUME NEW p \in Request, NEW r \in Request, p # r PROVE Apart(p, r)'
  <2>1. Apart(p, r) /\ Apart(r, p)
    BY <1>3 DEF CountersInv
  <2>2. CASE touched'[q] = touched[q]
    BY <2>1, <2>2 DEF Apart, OnlyOf
  <2>3. CASE \A t \in Request \ {q} : Apart(t, q)'
    BY <1>3, <2>1, <2>3 DEF Apart, OnlyOf
  <2> QED BY <2>2, <2>3
<1> QED BY <1>1, <1>2, <1>3 DEF CountersInv

(* BEGIN of a transaction that inserts or deletes links.                   *)
LEMMA BeginKeeps ==
    ASSUME CountersInv, NEW q \in Request, NEW s, NEW ts \in Seq(Target),
           Begin(q, s, ts), UNCHANGED lone,
           \/ s = "insert" /\ ask[q].kind \in InsertKinds
           \/ s = "delete" /\ ask[q].kind \in DeleteKinds
    PROVE  CountersInv'
<1> USE DEF Begin, rows
<1>1. /\ TypeOK /\ Stepwise(q) /\ Counted(q) /\ ReviewRows(q) /\ Alone(q)
      /\ IsFiniteSet(touched[q])
  BY DEF CountersInv
<1>2. /\ step \in [Request -> Steps] /\ todo \in [Request -> Seq(Target)]
      /\ step[q] = "start" /\ touched[q] = {} /\ locked[q] = {}
  BY <1>1 DEF TypeOK, InFlight
<1>3. step'[q] = s /\ todo'[q] = ts /\ OnlyOf(q)
  BY <1>2 DEF OnlyOf
<1>4. TypeOK'
  BY <1>1, <1>2 DEF TypeOK, InFlight, Steps
<1>5. ask[q].kind # "review"
  BY DEF InsertKinds, DeleteKinds
<1>6. Stepwise(q)' /\ Counted(q)' /\ ReviewRows(q)' /\ Alone(q)'
  BY <1>1, <1>2, <1>3, <1>5
     DEF Stepwise, Counted, ReviewRows, Alone, LinkKinds
<1> QED BY <1>1, <1>2, <1>3, <1>4, <1>5, <1>6, StepOfOne

(* INSERT ... ON CONFLICT DO NOTHING, and DELETE: the row is written or it *)
(* is not, and no other transaction has written it.                        *)
LEMMA MeetKeeps ==
    ASSUME CountersInv, NEW q \in Request, NEW written \in BOOLEAN, Meet(q, written),
           todo[q] # <<>>,
           \/ step[q] = "insert" /\ (written <=> Row(q, Head(todo[q])) \notin links)
           \/ step[q] = "delete" /\ (written <=> Row(q, Head(todo[q])) \in links)
    PROVE  CountersInv'
<1> DEFINE mine == touched[q] \cup RowsAffected(q, written)
<1>1. /\ TypeOK /\ Stepwise(q) /\ Counted(q) /\ ReviewRows(q) /\ Alone(q)
      /\ IsFiniteSet(touched[q])
  BY DEF CountersInv
<1>2. /\ step \in [Request -> Steps] /\ todo \in [Request -> Seq(Target)]
      /\ touched \in [Request -> SUBSET Target]
      /\ ask[q].kind \in LinkKinds /\ locked[q] = {} /\ InFlight(q)
  BY <1>1 DEF TypeOK, InFlight, Stepwise, LinkKinds
<1>3. Head(todo[q]) \in Target /\ Tail(todo[q]) \in Seq(Target)
      /\ (Len(todo[q]) > 1 => Tail(todo[q]) # <<>>)
  BY <1>2, HeadsAndTails
<1>4. mine \subseteq Target /\ IsFiniteSet(mine)
  <2>1. mine = touched[q] \/ mine = touched[q] \cup {Head(todo[q])}
    BY DEF RowsAffected
  <2> QED BY <1>1, <1>2, <1>3, <2>1, FS_AddElement
<1>5. /\ touched' = [touched EXCEPT ![q] = mine] /\ ~Blocked(q)
      /\ UNCHANGED <<ask, links, count, reviews, rating, orders, locked, agg, lone, faults>>
  BY DEF Meet, rows
<1>6. \E ts \in Seq(Target), s \in Steps :
        /\ todo' = [todo EXCEPT ![q] = ts] /\ step' = [step EXCEPT ![q] = s]
        /\ \/ s = step[q] /\ ts # <<>>
           \/ s = "commit" /\ mine = {}
           \/ s = "bump" /\ ts # <<>> /\ ToSet(ts) = mine
  <2>1. CASE Len(todo[q]) > 1
    <3>1. todo' = [todo EXCEPT ![q] = Tail(todo[q])] /\ step' = [step EXCEPT ![q] = step[q]]
      BY <1>2, <2>1 DEF Meet
    <3>2. step[q] \in Steps
      BY <1>2
    <3> QED BY <1>3, <2>1, <3>1, <3>2
  <2>2. CASE ~(Len(todo[q]) > 1)
    <3>1. PICK ts \in SetToSeqs(mine) :
            /\ todo' = [todo EXCEPT ![q] = ts]
            /\ step' = [step EXCEPT ![q] = IF mine = {} THEN "commit" ELSE "bump"]
      BY <2>2 DEF Meet
    <3>2. ts \in Seq(Target) /\ ToSet(ts) = mine /\ (mine # {} => ts # <<>>)
      BY <1>4, OrdersOf
    <3> QED BY <3>1, <3>2 DEF Steps
  <2> QED BY <2>1, <2>2
<1>7. PICK ts \in Seq(Target), s \in Steps :
        /\ todo' = [todo EXCEPT ![q] = ts] /\ step' = [step EXCEPT ![q] = s]
        /\ \/ s = step[q] /\ ts # <<>>
           \/ s = "commit" /\ mine = {}
           \/ s = "bump" /\ ts # <<>> /\ ToSet(ts) = mine
  BY <1>6
<1> HIDE DEF mine
<1>8. step'[q] = s /\ todo'[q] = ts /\ touched'[q] = mine /\ OnlyOf(q)
  BY <1>2, <1>5, <1>7 DEF OnlyOf
<1>9. TypeOK'
  BY <1>1, <1>2, <1>4, <1>5, <1>7 DEF TypeOK, InFlight, Steps
<1>10. ask[q].kind # "review"
  BY <1>2 DEF LinkKinds, InsertKinds, DeleteKinds
<1>11. Stepwise(q)' /\ ReviewRows(q)' /\ Alone(q)'
  BY <1>1, <1>2, <1>5, <1>7, <1>8, <1>10 DEF Stepwise, ReviewRows, Alone
<1>12. Counted(q)'
  <2>1. \A t \in mine : t \in touched[q] \/ (written /\ t = Head(todo[q]))
    BY DEF mine, RowsAffected
  <2>2. /\ step[q] = "insert" => ask[q].kind \notin DeleteKinds
        /\ step[q] = "delete" => ask[q].kind \notin InsertKinds
    BY <1>1 DEF Stepwise, InsertKinds, DeleteKinds
  <2>3. /\ \A t \in mine : ask[q].kind \in InsertKinds => Row(q, t) \notin links
        /\ \A t \in mine : ask[q].kind \in DeleteKinds => Row(q, t) \in links
    BY <1>1, <2>1, <2>2 DEF Counted
  <2> QED BY <1>2, <1>5, <1>7, <1>8, <2>3 DEF Counted, Row
<1>13. ASSUME NEW p \in Request \ {q} PROVE Apart(p, q)'
  <2> SUFFICES ASSUME ask[p].kind \in LinkKinds, ask[p].user = ask[q].user
               PROVE  touched[p] \cap mine = {}
    BY <1>5, <1>8 DEF Apart, OnlyOf
  <2>1. touched[p] \cap touched[q] = {}
    BY <1>2 DEF CountersInv, Apart
  <2>2. Head(todo[q]) \notin touched[p]
    <3>1. SameTable(p, q)
      BY <1>2 DEF SameTable, LinkKinds, InsertKinds, DeleteKinds
    <3> QED BY <1>5, <3>1 DEF Blocked, Waits
  <2> QED BY <2>1, <2>2 DEF mine, RowsAffected
<1> QED BY <1>1, <1>2, <1>4, <1>5, <1>8, <1>9, <1>10, <1>11, <1>12, <1>13, StepOfOne

(* One UPDATE of a counter.                                                *)
LEMMA BumpKeeps ==
    ASSUME CountersInv, NEW q \in Request, Bump(q)
    PROVE  CountersInv'
<1> USE DEF Bump, rows
<1>1. /\ TypeOK /\ Stepwise(q) /\ Counted(q) /\ ReviewRows(q) /\ Alone(q)
      /\ IsFiniteSet(touched[q])
  BY DEF CountersInv
<1>2. /\ step \in [Request -> Steps] /\ todo \in [Request -> Seq(Target)]
      /\ locked \in [Request -> SUBSET Target]
      /\ ask[q].kind \in LinkKinds /\ InFlight(q) /\ step[q] = "bump"
  BY <1>1 DEF TypeOK, InFlight, Stepwise
<1>3. todo[q] # <<>> /\ locked[q] \cup ToSet(todo[q]) = touched[q]
  BY <1>1, <1>2 DEF Counted
<1>4. /\ Head(todo[q]) \in Target /\ Tail(todo[q]) \in Seq(Target)
      /\ ToSet(todo[q]) = {Head(todo[q])} \cup ToSet(Tail(todo[q]))
      /\ Len(todo[q]) > 1 <=> Tail(todo[q]) # <<>>
  BY <1>2, <1>3, HeadsAndTails
<1>5. /\ step'[q] = IF Len(todo[q]) > 1 THEN "bump" ELSE "commit"
      /\ todo'[q] = Tail(todo[q]) /\ locked'[q] = locked[q] \cup {Head(todo[q])}
      /\ OnlyOf(q)
  BY <1>2 DEF OnlyOf
<1>6. TypeOK'
  BY <1>1, <1>2, <1>4 DEF TypeOK, InFlight, Steps
<1>7. ask[q].kind # "review"
  BY <1>2 DEF LinkKinds, InsertKinds, DeleteKinds
<1>8. Stepwise(q)' /\ ReviewRows(q)' /\ Alone(q)'
  BY <1>1, <1>2, <1>5, <1>7 DEF Stepwise, ReviewRows, Alone
<1>9. Counted(q)'
  <2>1. locked'[q] \cup ToSet(todo'[q]) = touched[q]
    BY <1>3, <1>4, <1>5
  <2>2. Tail(todo[q]) = <<>> => ToSet(todo'[q]) = {}
    BY <1>5, NothingInEmpty
  <2> QED BY <1>1, <1>4, <1>5, <2>1, <2>2 DEF Counted, Row
<1> QED BY <1>1, <1>2, <1>5, <1>6, <1>7, <1>8, <1>9, StepOfOne

(* A DELETE that finds no row.                                             *)
LEMMA DeleteNothingKeeps ==
    ASSUME CountersInv, NEW q \in Request, DeleteNothing(q)
    PROVE  CountersInv'
<1> USE DEF DeleteNothing, rows
<1>1. /\ TypeOK /\ Stepwise(q) /\ Counted(q) /\ ReviewRows(q) /\ Alone(q)
      /\ IsFiniteSet(touched[q])
  BY DEF CountersInv
<1>2. /\ step \in [Request -> Steps] /\ touched[q] = {} /\ locked[q] = {}
      /\ ask[q].kind \in DeleteKinds /\ InFlight(q)
  BY <1>1 DEF TypeOK, InFlight, Stepwise
<1>3. step'[q] = "commit" /\ OnlyOf(q)
  BY <1>2 DEF OnlyOf
<1>4. TypeOK'
  BY <1>1, <1>2 DEF TypeOK, InFlight, Steps
<1>5. Stepwise(q)' /\ Counted(q)' /\ ReviewRows(q)' /\ Alone(q)'
  BY <1>1, <1>2, <1>3 DEF Stepwise, Counted, ReviewRows, Alone, DeleteKinds
<1> QED BY <1>1, <1>2, <1>3, <1>4, <1>5, StepOfOne

(* The read of a series' novels before they are followed.                  *)
LEMMA ReadSeriesKeeps ==
    ASSUME CountersInv, NEW q \in Request, ReadSeries(q)
    PROVE  CountersInv'
<1> USE DEF ReadSeries, rows
<1>1. /\ TypeOK /\ Stepwise(q) /\ Counted(q) /\ ReviewRows(q) /\ Alone(q)
      /\ IsFiniteSet(touched[q])
  BY DEF CountersInv
<1>2. /\ step \in [Request -> Steps] /\ ask \in [Request -> Ask] /\ step[q] = "start"
      /\ touched[q] = {} /\ locked[q] = {} /\ ask[q].kind \in LinkKinds
      /\ ask[q].kind # "review"
  BY <1>1 DEF TypeOK, InFlight, LinkKinds, SeriesKinds, InsertKinds, DeleteKinds
<1>3. CASE SeriesBooks = <<>>
  <2>1. UNCHANGED ask /\ step' = [step EXCEPT ![q] = "done"]
    BY <1>3
  <2>2. step'[q] = "done" /\ OnlyOf(q)
    BY <1>2, <2>1 DEF OnlyOf
  <2>3. TypeOK'
    BY <1>1, <1>2, <2>1 DEF TypeOK, InFlight, Steps
  <2>4. Stepwise(q)' /\ Counted(q)' /\ ReviewRows(q)' /\ Alone(q)'
    BY <1>1, <1>2, <2>1, <2>2 DEF Stepwise, Counted, ReviewRows, Alone, InFlight
  <2> QED BY <1>1, <1>2, <2>1, <2>2, <2>3, <2>4, StepOfOne
<1>4. CASE SeriesBooks # <<>>
  <2>1. UNCHANGED step /\ ask' = [ask EXCEPT ![q].on = SeriesBooks]
    BY <1>4
  <2>2. SeriesBooks \in Seq(Target)
    <3>1. SeriesBooks \in Seq(Novel)
      BY HeadTailProperties DEF SeriesBooks, CountersInv
    <3> QED BY <3>1, SeqMonotonic DEF Target
  <2>3. ask' \in [Request -> Ask]
    BY <1>2, <2>1, <2>2 DEF Ask
  <2>4. \A p \in Request : /\ ask'[p].kind = ask[p].kind /\ ask'[p].user = ask[p].user
                           /\ p # q => ask'[p] = ask[p]
    BY <1>2, <2>1 DEF Ask
  <2>5. TypeOK'
    BY <1>1, <2>1, <2>3 DEF TypeOK, InFlight
  <2>6. \A p \in Request : Overlaps(p) = {} /\ ask[p].kind = "review" => Overlaps(p)' = {}
    BY <1>2, <2>1, <2>4 DEF Overlaps, InFlight
  <2>7. ASSUME NEW p \in Request
        PROVE  /\ IsFiniteSet(touched'[p])
               /\ Stepwise(p)' /\ Counted(p)' /\ ReviewRows(p)' /\ Alone(p)'
    <3>1. /\ IsFiniteSet(touched[p])
          /\ Stepwise(p) /\ Counted(p) /\ ReviewRows(p) /\ Alone(p)
      BY DEF CountersInv
    <3>2. /\ ask'[p].kind = ask[p].kind /\ ask'[p].user = ask[p].user
          /\ p # q => ask'[p] = ask[p]
          /\ p = q => ask[p].kind # "review" /\ step[p] = "start"
      BY <1>2, <2>4
    <3>3. UNCHANGED <<step, touched, locked, todo, links, lone, agg, reviews>>
      BY <2>1
    <3>4. Stepwise(p)'
      BY <3>1, <3>2, <3>3 DEF Stepwise
    <3>5. Counted(p)'
      BY <3>1, <3>2, <3>3 DEF Counted, Row
    <3>6. ReviewRows(p)'
      BY <3>1, <3>2, <3>3 DEF ReviewRows
    <3>7. Alone(p)'
      BY <2>6, <3>1, <3>2, <3>3 DEF Alone, Rated, InFlight
    <3> QED BY <3>1, <3>3, <3>4, <3>5, <3>6, <3>7
  <2>8. \A p, r \in Request : p # r => Apart(p, r)'
    BY <2>4 DEF CountersInv, Apart
  <2>9. CountersMatch' /\ UNCHANGED orders
    BY DEF CountersInv, CountersMatch, Fans
  <2> QED BY <2>5, <2>7, <2>8, <2>9 DEF CountersInv
<1> QED BY <1>3, <1>4

(* A series is rearranged.                                                 *)
LEMMA SeriesChangesKeep ==
    ASSUME CountersInv, SeriesChanges
    PROVE  CountersInv'
<1>1. Tail(orders) \in Seq(Seq(Novel)) /\ Tail(orders) # <<>>
  <2>1. /\ Tail(orders) \in Seq(Seq(Novel)) /\ Len(Tail(orders)) = Len(orders) - 1
        /\ Len(orders) \in Nat
    BY HeadTailProperties, LenProperties DEF CountersInv
  <2>2. Tail(orders) = <<>> => Len(Tail(orders)) = 0
    BY EmptySeq, Zenon
  <2>3. Len(orders) > 1
    BY DEF SeriesChanges
  <2>4. Len(Tail(orders)) # 0
    <3> DEFINE n == Len(orders)
               m == Len(Tail(orders))
    <3>1. m = n - 1 /\ n > 1 /\ n \in Nat
      BY <2>1, <2>3
    <3> HIDE DEF n, m
    <3>2. m # 0
      BY <3>1
    <3> QED BY <3>2 DEF m
  <2> QED BY <2>1, <2>2, <2>4
<1>2. TypeOK' /\ CountersMatch'
  BY DEF CountersInv, SeriesChanges, rows, TypeOK, InFlight, CountersMatch, Fans
<1>3. ASSUME NEW q \in Request
      PROVE  /\ IsFiniteSet(touched'[q])
             /\ Stepwise(q)' /\ Counted(q)' /\ ReviewRows(q)' /\ Alone(q)'
  BY DEF CountersInv, SeriesChanges, rows, Stepwise, Counted, ReviewRows, Alone, Rated,
         InFlight, Row, Overlaps
<1>4. \A p, q \in Request : p # q => Apart(p, q)'
  BY DEF CountersInv, SeriesChanges, Apart
<1> QED BY <1>1, <1>2, <1>3, <1>4 DEF CountersInv, SeriesChanges

-----------------------------------------------------------------------------
(* A review starts: it is alone if nobody reviews the novel, and those who *)
(* do are alone no more.                                                   *)
LEMMA UpsertReviewKeeps ==
    ASSUME CountersInv, NEW q \in Request, UpsertReview(q)
    PROVE  CountersInv'
<1> USE DEF UpsertReview, Begin, rows
<1>1. /\ TypeOK /\ Stepwise(q) /\ Counted(q) /\ ReviewRows(q) /\ Alone(q)
      /\ IsFiniteSet(touched[q])
  BY DEF CountersInv
<1>2. /\ step \in [Request -> Steps] /\ todo \in [Request -> Seq(Target)]
      /\ step[q] = "start" /\ touched[q] = {} /\ locked[q] = {}
      /\ ask[q].kind = "review" /\ ask[q].on \in Seq(Target)
  BY <1>1 DEF TypeOK, InFlight, Ask
<1>3. step'[q] = "upsert" /\ todo'[q] = ask[q].on /\ OnlyOf(q)
  BY <1>2 DEF OnlyOf
<1>4. lone' \subseteq lone \cup {q} /\ q \notin lone
      /\ (q \in lone' => Overlaps(q) = {}) /\ lone' \cap Overlaps(q) = {}
  BY <1>1, <1>2 DEF Alone, Overlaps
<1>5. TypeOK'
  <2>1. lone' \subseteq Request
    BY <1>1, <1>4 DEF TypeOK
  <2> QED BY <1>1, <1>2, <2>1 DEF TypeOK, InFlight, Steps
<1>6. /\ IsFiniteSet(touched'[q])
      /\ Stepwise(q)' /\ Counted(q)' /\ ReviewRows(q)'
  BY <1>1, <1>2, <1>3 DEF Stepwise, Counted, ReviewRows, LinkKinds, InsertKinds, DeleteKinds
<1>7. Alone(q)'
  <2>1. Overlaps(q)' = Overlaps(q)
    BY <1>3 DEF Overlaps, OnlyOf, InFlight
  <2> QED BY <1>2, <1>3, <1>4, <2>1 DEF Alone
<1>8. ASSUME NEW p \in Request \ {q}
      PROVE  /\ IsFiniteSet(touched'[p])
             /\ Stepwise(p)' /\ Counted(p)' /\ ReviewRows(p)' /\ Alone(p)'
  <2>1. /\ step'[p] = step[p] /\ todo'[p] = todo[p]
        /\ touched'[p] = touched[p] /\ locked'[p] = locked[p] /\ agg'[p] = agg[p]
    BY <1>3 DEF OnlyOf
  <2>2. IsFiniteSet(touched[p]) /\ Stepwise(p) /\ Counted(p) /\ ReviewRows(p) /\ Alone(p)
    BY DEF CountersInv
  <2>3. Overlaps(p)' \subseteq Overlaps(p) \cup {q}
    BY <1>3 DEF Overlaps, OnlyOf, InFlight
  <2>4. ASSUME p \in lone', InFlight(p) PROVE Overlaps(p)' = {}
    <3>1. p \in lone /\ ask[p].kind = "review" /\ Overlaps(p) = {}
      BY <1>4, <2>2, <2>4 DEF Alone
    <3>2. ask[p].on # ask[q].on
      BY <1>4, <2>4, <3>1 DEF Overlaps
    <3> QED BY <2>3, <3>1, <3>2 DEF Overlaps
  <2>5. p \in lone' => p \in lone
    BY <1>4
  <2> QED BY <2>1, <2>2, <2>4, <2>5
          DEF Stepwise, Counted, ReviewRows, Alone, Rated, InFlight, Row
<1>9. \A p, r \in Request : p # r => Apart(p, r)'
  BY DEF CountersInv, Apart
<1>10. CountersMatch'
  BY DEF CountersInv, CountersMatch, Fans
<1> QED BY <1>5, <1>6, <1>7, <1>8, <1>9, <1>10 DEF CountersInv

(* Statements of a review that is under way.                               *)
LEMMA ReviewMoves ==
    ASSUME CountersInv, NEW q \in Request, step[q] \in {"upsert", "recount", "rate"}
    PROVE  /\ TypeOK /\ Stepwise(q) /\ Counted(q) /\ ReviewRows(q) /\ Alone(q)
           /\ IsFiniteSet(touched[q])
           /\ ask[q].kind = "review" /\ todo[q] = ask[q].on /\ InFlight(q)
           /\ step \in [Request -> Steps] /\ Head(ask[q].on) \in Novel
<1>1. /\ TypeOK /\ Stepwise(q) /\ Counted(q) /\ ReviewRows(q) /\ Alone(q)
      /\ IsFiniteSet(touched[q])
  BY DEF CountersInv
<1>2. ask[q].kind = "review" /\ todo[q] = ask[q].on /\ InFlight(q)
      /\ ask[q].on \in [1..1 -> Novel]
  BY <1>1 DEF InFlight, Stepwise, ReviewRows
<1>4. Head(ask[q].on) \in Novel
  BY <1>2, OneBook
<1> QED BY <1>1, <1>2, <1>4 DEF TypeOK

(* The statements of a review: the row, the recount, the novel's rating.   *)
LEMMA ReviewKeeps ==
    ASSUME CountersInv, NEW q \in Request, UpsertRow(q) \/ Recount(q) \/ Rate(q)
    PROVE  CountersInv'
<1> USE DEF rows
<1>1. /\ TypeOK /\ Stepwise(q) /\ Counted(q) /\ ReviewRows(q) /\ Alone(q)
      /\ IsFiniteSet(touched[q])
      /\ ask[q].kind = "review" /\ todo[q] = ask[q].on /\ InFlight(q)
      /\ step \in [Request -> Steps] /\ Head(ask[q].on) \in Novel
  BY ReviewMoves DEF UpsertRow, Recount, Rate
<1>2. Head(ask[q].on) \in Target /\ ask[q].kind \notin LinkKinds
  BY <1>1 DEF Target, LinkKinds, InsertKinds, DeleteKinds
<1>3. CASE UpsertRow(q)
  <2>1. step'[q] = "recount" /\ touched'[q] = {Head(todo[q])} /\ OnlyOf(q)
        /\ UNCHANGED <<ask, rows, orders, todo, locked, agg, lone, faults>>
    BY <1>1, <1>3 DEF UpsertRow, OnlyOf, TypeOK
  <2>2. TypeOK'
    BY <1>1, <1>2, <1>3 DEF UpsertRow, TypeOK, InFlight, Steps
  <2>3. /\ IsFiniteSet(touched'[q])
        /\ Stepwise(q)' /\ Counted(q)' /\ ReviewRows(q)' /\ Alone(q)'
    <3>1. Overlaps(q)' = Overlaps(q)
      BY <2>1 DEF Overlaps, OnlyOf, InFlight
    <3>2. IsFiniteSet(touched'[q])
      BY <2>1, FS_Singleton
    <3>3. Stepwise(q)' /\ ReviewRows(q)' /\ Alone(q)'
      BY <1>1, <1>2, <2>1, <3>1 DEF Stepwise, ReviewRows, Alone
    <3>4. Counted(q)'
      BY <1>1, <1>2, <2>1 DEF Counted, LinkKinds
    <3> QED BY <3>2, <3>3, <3>4
  <2>4. \A p \in Request \ {q} : Apart(p, q)'
    BY <1>2, <2>1 DEF Apart
  <2> QED BY <1>1, <2>1, <2>2, <2>3, <2>4, StepOfOne
<1>4. CASE Recount(q)
  <2> DEFINE a == AggregateOf(Head(todo[q]), ReviewsSeen(q))
  <2>1. step'[q] = "rate" /\ agg'[q] = a /\ OnlyOf(q)
        /\ UNCHANGED <<ask, rows, orders, todo, touched, locked, lone, faults>>
    BY <1>1, <1>4 DEF Recount, OnlyOf, TypeOK
  <2>2. a \in Aggregate /\ a = AggregateOf(Head(ask[q].on), Rated(q))
    BY <1>1, AggregateIsTyped DEF ReviewsSeen, Rated
  <2> HIDE DEF a
  <2>3. TypeOK'
    <3>1. agg' = [agg EXCEPT ![q] = a] /\ step' = [step EXCEPT ![q] = "rate"]
      BY <1>4 DEF Recount, a
    <3> QED BY <1>1, <2>1, <2>2, <3>1 DEF TypeOK, InFlight, Steps
  <2>4. /\ IsFiniteSet(touched'[q])
        /\ Stepwise(q)' /\ Counted(q)' /\ ReviewRows(q)' /\ Alone(q)'
    <3>1. Overlaps(q)' = Overlaps(q) /\ Rated(q)' = Rated(q)
      BY <2>1 DEF Overlaps, OnlyOf, InFlight, Rated
    <3> QED BY <1>1, <1>2, <2>1, <2>2, <3>1
            DEF Stepwise, Counted, ReviewRows, Alone, LinkKinds
  <2> QED BY <1>1, <2>1, <2>3, <2>4, StepOfOne
<1>5. CASE Rate(q)
  <2>1. step'[q] = "commit" /\ todo'[q] = <<>> /\ locked'[q] = {Head(todo[q])} /\ OnlyOf(q)
        /\ UNCHANGED <<ask, rows, orders, touched, agg, lone, faults>> /\ step[q] = "rate"
    BY <1>1, <1>5 DEF Rate, OnlyOf, TypeOK
  <2>2. TypeOK'
    <3>1. <<>> \in Seq(Target)
      OBVIOUS
    <3> QED BY <1>1, <1>2, <1>5, <3>1 DEF Rate, TypeOK, InFlight, Steps
  <2>3. /\ IsFiniteSet(touched'[q])
        /\ Stepwise(q)' /\ Counted(q)' /\ ReviewRows(q)' /\ Alone(q)'
    <3>1. Overlaps(q)' = Overlaps(q) /\ Rated(q)' = Rated(q)
      BY <2>1 DEF Overlaps, OnlyOf, InFlight, Rated
    <3> QED BY <1>1, <1>2, <2>1, <3>1
            DEF Stepwise, Counted, ReviewRows, Alone, LinkKinds
  <2> QED BY <1>1, <2>1, <2>2, <2>3, StepOfOne
<1> QED BY <1>3, <1>4, <1>5

-----------------------------------------------------------------------------
(* The end of a transaction: it keeps nothing, and nobody else is touched. *)
LEMMA FinishKeeps ==
    ASSUME CountersInv, NEW q \in Request, NEW s \in {"done", "failed"}, Finish(q, s),
           links' \subseteq Reader \X Target, count' \in [Target -> Nat], CountersMatch',
           reviews' \in [Reader \X Novel -> 0..5], rating' \in [Novel -> Aggregate],
           faults' \in 0..MaxFaults,
           \A p \in Request \ {q} : \A t \in touched[p] :
              ask[p].kind \in LinkKinds => (Row(p, t) \in links' <=> Row(p, t) \in links),
           \A p \in Request \ {q} :
              p \in lone /\ InFlight(p) =>
                AggregateOf(Head(ask[p].on), Rated(p)') = AggregateOf(Head(ask[p].on), Rated(p))
    PROVE  CountersInv'
<1> USE DEF Finish
<1>1. TypeOK /\ ReviewRows(q) /\ Alone(q)
  BY DEF CountersInv
<1>2. /\ step'[q] = s /\ todo'[q] = <<>> /\ touched'[q] = {} /\ locked'[q] = {}
      /\ OnlyOf(q) /\ ~InFlight(q)'
  BY <1>1 DEF TypeOK, OnlyOf, InFlight
<1>3. TypeOK'
  <2>1. <<>> \in Seq(Target) /\ [total |-> 0, sum |-> 0] \in Aggregate
    BY DEF Aggregate
  <2> QED BY <1>1, <2>1 DEF TypeOK, InFlight, Steps
<1>4. /\ IsFiniteSet(touched'[q])
      /\ Stepwise(q)' /\ Counted(q)' /\ ReviewRows(q)' /\ Alone(q)'
  BY <1>1, <1>2, FS_EmptySet DEF Stepwise, Counted, ReviewRows, Alone
<1>5. ASSUME NEW p \in Request \ {q}
      PROVE  /\ IsFiniteSet(touched'[p])
             /\ Stepwise(p)' /\ Counted(p)' /\ ReviewRows(p)' /\ Alone(p)'
  <2>1. /\ step'[p] = step[p] /\ todo'[p] = todo[p]
        /\ touched'[p] = touched[p] /\ locked'[p] = locked[p] /\ agg'[p] = agg[p]
    BY <1>2 DEF OnlyOf
  <2>2. IsFiniteSet(touched[p]) /\ Stepwise(p) /\ Counted(p) /\ ReviewRows(p) /\ Alone(p)
    BY DEF CountersInv
  <2>3. Overlaps(p) = {} => Overlaps(p)' = {}
    BY <1>2 DEF Overlaps, OnlyOf, InFlight
  <2>4. \A t \in touched[p] : Row(p, t)' = Row(p, t)
    BY DEF Row
  <2>5. Stepwise(p)' /\ ReviewRows(p)'
    BY <2>1, <2>2 DEF Stepwise, ReviewRows
  <2>6. Counted(p)'
    BY <2>1, <2>2, <2>4 DEF Counted, LinkKinds
  <2>7. Alone(p)'
    BY <2>1, <2>2, <2>3 DEF Alone, InFlight
  <2> QED BY <2>1, <2>2, <2>5, <2>6, <2>7
<1>6. \A p, r \in Request : p # r => Apart(p, r)'
  BY <1>2 DEF CountersInv, Apart, OnlyOf
<1> QED BY <1>3, <1>4, <1>5, <1>6 DEF CountersInv

(* A transaction that is rolled back.                                      *)
LEMMA FailingKeeps ==
    ASSUME CountersInv, NEW q \in Request, DeadlockVictim(q) \/ Fail(q)
    PROVE  CountersInv'
<1>1. Finish(q, "failed") /\ UNCHANGED rows /\ (faults' = faults \/ faults' \in 0..MaxFaults)
  BY SetAssumption DEF DeadlockVictim, Fail, CountersInv, TypeOK
<1>2. CountersMatch' /\ TypeOK
  BY <1>1 DEF CountersInv, CountersMatch, Fans, rows
<1>3. \A p \in Request : Rated(p)' = Rated(p)
  BY <1>1 DEF Rated, Finish, rows
<1> QED BY <1>1, <1>2, <1>3, FinishKeeps DEF rows, TypeOK

(* The commit of a follow or a like: as many fans more as counters were    *)
(* raised.                                                                 *)
LEMMA CommitInsertKeeps ==
    ASSUME CountersInv, NEW q \in Request, CommitInsert(q)
    PROVE  CountersInv'
<1> DEFINE u == ask[q].user
<1>1. /\ TypeOK /\ ask \in [Request -> Ask] /\ u \in Reader /\ touched[q] \subseteq Target
      /\ locked[q] = touched[q] /\ ask[q].kind \in InsertKinds
      /\ \A t \in touched[q] : <<u, t>> \notin links
  BY DEF CountersInv, CommitInsert, Counted, LinkKinds, Row, TypeOK, Ask
<1>2. /\ links' = links \cup ({u} \X touched[q])
      /\ count' = [t \in Target |-> IF t \in touched[q] THEN count[t] + 1 ELSE count[t]]
      /\ Finish(q, "done") /\ UNCHANGED <<reviews, rating, faults>>
  BY <1>1 DEF CommitInsert
<1>3. ASSUME NEW t \in Target PROVE count'[t] = Cardinality(Fans(t)')
  <2>1. IsFiniteSet(Fans(t)) /\ count[t] = Cardinality(Fans(t)) /\ count[t] \in Nat
    BY FansFinite DEF CountersInv, CountersMatch, TypeOK
  <2>2. CASE t \in touched[q]
    <3>1. Fans(t)' = Fans(t) \cup {u} /\ u \notin Fans(t)
      BY <1>1, <1>2, <2>2 DEF Fans
    <3>2. Cardinality(Fans(t) \cup {u}) = Cardinality(Fans(t)) + 1
      BY <2>1, <3>1, FS_AddElement
    <3>3. count'[t] = count[t] + 1
      BY <1>2, <2>2
    <3> QED BY <2>1, <3>1, <3>2, <3>3
  <2>3. CASE t \notin touched[q]
    <3>1. Fans(t)' = Fans(t)
      BY <1>1, <1>2, <2>3 DEF Fans
    <3> QED BY <1>2, <2>1, <2>3, <3>1
  <2> QED BY <2>2, <2>3
<1>4. CountersMatch' /\ count' \in [Target -> Nat]
  BY <1>1, <1>2, <1>3 DEF CountersMatch, TypeOK
<1>5. ASSUME NEW p \in Request \ {q}, NEW t \in touched[p], ask[p].kind \in LinkKinds
      PROVE  Row(p, t) \in links' <=> Row(p, t) \in links
  <2>1. Apart(p, q)
    BY DEF CountersInv
  <2> QED BY <1>1, <1>2, <1>5, <2>1 DEF Apart, Row, LinkKinds
<1>6. \A p \in Request : Rated(p)' = Rated(p)
  BY <1>2 DEF Rated, Finish
<1>7. links' \subseteq Reader \X Target
  BY <1>1, <1>2 DEF TypeOK
<1> QED BY <1>1, <1>2, <1>4, <1>5, <1>6, <1>7, FinishKeeps DEF TypeOK

(* The commit of an unfollow or an unlike: no counter it lowers is at      *)
(* zero, so the floor in the UPDATE is never reached.                      *)
LEMMA CommitDeleteKeeps ==
    ASSUME CountersInv, NEW q \in Request, CommitDelete(q)
    PROVE  CountersInv'
<1> DEFINE u == ask[q].user
<1>1. /\ TypeOK /\ ask \in [Request -> Ask] /\ u \in Reader /\ touched[q] \subseteq Target
      /\ locked[q] = touched[q] /\ ask[q].kind \in DeleteKinds
      /\ \A t \in touched[q] : <<u, t>> \in links
  BY DEF CountersInv, CommitDelete, Counted, LinkKinds, Row, TypeOK, Ask
<1>2. /\ links' = links \ ({u} \X touched[q])
      /\ count' = [t \in Target |-> IF t \in touched[q] THEN Less(count[t]) ELSE count[t]]
      /\ Finish(q, "done") /\ UNCHANGED <<reviews, rating, faults>>
  BY <1>1 DEF CommitDelete
<1>3. ASSUME NEW t \in Target PROVE count'[t] = Cardinality(Fans(t)') /\ count'[t] \in Nat
  <2>1. IsFiniteSet(Fans(t)) /\ count[t] = Cardinality(Fans(t)) /\ count[t] \in Nat
    BY FansFinite DEF CountersInv, CountersMatch, TypeOK
  <2>2. CASE t \in touched[q]
    <3>1. Fans(t)' = Fans(t) \ {u} /\ u \in Fans(t)
      BY <1>1, <1>2, <2>2 DEF Fans
    <3>2. Cardinality(Fans(t)') = Cardinality(Fans(t)) - 1
      <4>1. Cardinality(Fans(t) \ {u}) = Cardinality(Fans(t)) - 1
        BY <2>1, <3>1, FS_RemoveElement
      <4> QED BY <3>1, <4>1
    <3>3. Cardinality(Fans(t)) # 0
      BY <2>1, <3>1, FS_EmptySet
    <3>4. count'[t] = Less(count[t])
      BY <1>2, <2>2
    <3> QED BY <2>1, <3>2, <3>3, <3>4 DEF Less
  <2>3. CASE t \notin touched[q]
    <3>1. Fans(t)' = Fans(t)
      BY <1>1, <1>2, <2>3 DEF Fans
    <3> QED BY <1>2, <2>1, <2>3, <3>1
  <2> QED BY <2>2, <2>3
<1>4. CountersMatch' /\ count' \in [Target -> Nat]
  BY <1>1, <1>2, <1>3 DEF CountersMatch, TypeOK
<1>5. ASSUME NEW p \in Request \ {q}, NEW t \in touched[p], ask[p].kind \in LinkKinds
      PROVE  Row(p, t) \in links' <=> Row(p, t) \in links
  <2>1. Apart(p, q)
    BY DEF CountersInv
  <2> QED BY <1>1, <1>2, <1>5, <2>1 DEF Apart, Row, LinkKinds
<1>6. \A p \in Request : Rated(p)' = Rated(p)
  BY <1>2 DEF Rated, Finish
<1>7. links' \subseteq Reader \X Target
  BY <1>1, <1>2 DEF TypeOK
<1> QED BY <1>1, <1>2, <1>4, <1>5, <1>6, <1>7, FinishKeeps DEF TypeOK

(* What a commit of a review writes.                                       *)
LEMMA CommitReviewWrites ==
    ASSUME CountersInv, NEW q \in Request, CommitReview(q)
    PROVE  /\ Head(ask[q].on) \in Novel /\ ask[q].stars \in Stars
           /\ reviews' = Rated(q) /\ rating' = [rating EXCEPT ![Head(ask[q].on)] = agg[q]]
  BY OneBook DEF CountersInv, CommitReview, ReviewRows, Rated

(* The commit of a review touches one novel's reviews, and no other lone   *)
(* review recounts that novel.                                             *)
LEMMA CommitReviewKeeps ==
    ASSUME CountersInv, NEW q \in Request, CommitReview(q)
    PROVE  CountersInv'
<1> DEFINE n == Head(ask[q].on)
<1>1. /\ TypeOK /\ n \in Novel /\ ask[q].stars \in Stars
      /\ reviews' = Rated(q) /\ rating' = [rating EXCEPT ![n] = agg[q]]
      /\ Finish(q, "done") /\ UNCHANGED <<links, count, faults>>
      /\ ask[q].kind = "review" /\ step[q] = "commit"
  BY CommitReviewWrites DEF CountersInv, CommitReview
<1>2. CountersMatch'
  BY <1>1 DEF CountersInv, CountersMatch, Fans
<1>3. reviews' \in [Reader \X Novel -> 0..5] /\ rating' \in [Novel -> Aggregate]
  <2>1. agg[q] \in Aggregate /\ ask[q].stars \in 0..5
    BY <1>1 DEF TypeOK, Stars
  <2>2. reviews \in [Reader \X Novel -> 0..5] /\ rating \in [Novel -> Aggregate]
    BY <1>1 DEF TypeOK
  <2> QED BY <1>1, <2>1, <2>2 DEF Rated
<1>4. ASSUME NEW p \in Request \ {q}, p \in lone, InFlight(p)
      PROVE  AggregateOf(Head(ask[p].on), Rated(p)') = AggregateOf(Head(ask[p].on), Rated(p))
  <2> DEFINE m == Head(ask[p].on)
  <2>1. ask[p].kind = "review" /\ Overlaps(p) = {} /\ ReviewRows(p)
    BY <1>4 DEF CountersInv, Alone
  <2>2. ask[p].on # ask[q].on
    BY <1>1, <2>1 DEF Overlaps, InFlight
  <2>3. m # n
    <3>1. ask[p].on \in [1..1 -> Novel] /\ ask[q].on \in [1..1 -> Novel]
      BY <1>1, <2>1 DEF CountersInv, ReviewRows
    <3>2. m = ask[p].on[1] /\ n = ask[q].on[1]
      BY <3>1
    <3> QED BY <2>2, <3>1, <3>2
  <2>4. m \in Novel
    BY <2>1, OneBook DEF ReviewRows
  <2>5. Rated(p)' = [reviews' EXCEPT ![<<ask[p].user, m>>] = ask[p].stars]
    BY <1>1 DEF Rated, Finish
  <2> HIDE DEF m, n
  <2>6. \A u \in Reader : reviews'[u, m] = reviews[u, m]
    BY <1>1, <2>3, <2>4 DEF Rated, TypeOK, n
  <2>7. \A u \in Reader : Rated(p)'[u, m] = Rated(p)[u, m]
    <3> TAKE u \in Reader
    <3>1. DOMAIN reviews = Reader \X Novel /\ DOMAIN reviews' = Reader \X Novel
      BY <1>1, <1>3 DEF TypeOK
    <3>2. PICK who, stars : who = ask[p].user /\ stars = ask[p].stars
      OBVIOUS
    <3>3. /\ Rated(p) = [reviews EXCEPT ![<<who, m>>] = stars]
          /\ Rated(p)' = [reviews' EXCEPT ![<<who, m>>] = stars]
      BY <2>5, <3>2 DEF Rated, m
    <3>4. <<u, m>> \in Reader \X Novel /\ reviews'[u, m] = reviews[u, m]
      BY <2>4, <2>6
    <3> QED BY <3>1, <3>3, <3>4
  <2> QED BY <2>7, RecountLooksAtOne DEF m
<1>5. \A p \in Request : \A t \in touched[p] : Row(p, t) \in links' <=> Row(p, t) \in links
  BY <1>1
<1>6. links' \subseteq Reader \X Target /\ count' \in [Target -> Nat] /\ faults' \in 0..MaxFaults
  BY <1>1 DEF TypeOK
<1> HIDE DEF n
<1> QED BY <1>1, <1>2, <1>3, <1>4, <1>5, <1>6, FinishKeeps

-----------------------------------------------------------------------------
(* Every step of every request.                                            *)
LEMMA CountersInvNext == CountersInv /\ [Next]_vars => CountersInv'
<1> SUFFICES ASSUME CountersInv, [Next]_vars PROVE CountersInv'
  OBVIOUS
<1>1. TypeOK
  BY DEF CountersInv
<1>2. ASSUME NEW q \in Request, Follow(q) \/ Like(q) \/ FollowMany(q) PROVE CountersInv'
  <2>1. Begin(q, "insert", ask[q].on) /\ UNCHANGED lone /\ ask[q].kind \in InsertKinds
    BY <1>2 DEF Follow, Like, FollowMany, InsertKinds
  <2>2. ask[q].on \in Seq(Target)
    BY <1>1 DEF TypeOK, Ask
  <2> QED BY <2>1, <2>2, BeginKeeps
<1>3. ASSUME NEW q \in Request, Unfollow(q) \/ Unlike(q) \/ UnfollowMany(q) PROVE CountersInv'
  <2>1. PICK ts \in SetToSeqs(Visible(q)) : Begin(q, "delete", ts)
    BY <1>3 DEF Unfollow, Unlike, UnfollowMany, BeginDelete
  <2>2. UNCHANGED lone /\ ask[q].kind \in DeleteKinds
    BY <1>3 DEF Unfollow, Unlike, UnfollowMany, DeleteKinds
  <2>3. IsFiniteSet(Visible(q)) /\ Visible(q) \subseteq Target
    <3>1. ask[q].on \in Seq(Target)
      BY <1>1 DEF TypeOK, Ask
    <3>2. IsFiniteSet(ToSet(ask[q].on)) /\ ToSet(ask[q].on) \subseteq Target
      BY <3>1, RangeFinite
    <3> QED BY <3>2, FS_Subset DEF Visible
  <2>4. ts \in Seq(Target)
    BY <2>3, OrdersOf
  <2> QED BY <2>1, <2>2, <2>4, BeginKeeps
<1>4. ASSUME NEW q \in Request, InsertRow(q) \/ DeleteRow(q) PROVE CountersInv'
  <2>1. \E w \in BOOLEAN :
          /\ Meet(q, w) /\ todo[q] # <<>>
          /\ \/ step[q] = "insert" /\ (w <=> Row(q, Head(todo[q])) \notin links)
             \/ step[q] = "delete" /\ (w <=> Row(q, Head(todo[q])) \in links)
    <3>1. CASE InsertRow(q)
      <4> WITNESS (Row(q, Head(todo[q])) \notin links) \in BOOLEAN
      <4> QED BY <3>1 DEF InsertRow, Row
    <3>2. CASE DeleteRow(q)
      <4> WITNESS (Row(q, Head(todo[q])) \in links) \in BOOLEAN
      <4> QED BY <3>2 DEF DeleteRow, Row
    <3> QED BY <1>4, <3>1, <3>2
  <2> QED BY <2>1, MeetKeeps
<1>5. ASSUME NEW q \in Request, Serve(q) \/ Fail(q) PROVE CountersInv'
  <2>1. CASE \/ ReadSeries(q) \/ DeleteNothing(q) \/ Bump(q)
             \/ UpsertReview(q) \/ UpsertRow(q) \/ Recount(q) \/ Rate(q)
    BY <2>1, ReadSeriesKeeps, DeleteNothingKeeps, BumpKeeps, UpsertReviewKeeps, ReviewKeeps
  <2>2. CASE \/ CommitInsert(q) \/ CommitDelete(q) \/ CommitReview(q)
             \/ DeadlockVictim(q) \/ Fail(q)
    BY <2>2, CommitInsertKeeps, CommitDeleteKeeps, CommitReviewKeeps, FailingKeeps
  <2> QED BY <1>2, <1>3, <1>4, <1>5, <2>1, <2>2 DEF Serve
<1>6. CASE UNCHANGED vars
  BY <1>6 DEF vars, CountersInv, TypeOK, InFlight, CountersMatch, Fans, Stepwise, Counted, Row,
              ReviewRows, Alone, Rated, Overlaps, Apart
<1> QED BY <1>5, <1>6, SeriesChangesKeep DEF Next

(* The counters' invariant holds in every state.                           *)
LEMMA CountersInvCorrect == Spec => []CountersInv
<1>1. Init => CountersInv
  BY CountersInvInit DEF Init
<1> QED BY <1>1, CountersInvNext, PTL DEF Spec

(* followers_count and likes_count are the numbers of their rows after     *)
(* every commit, for any number of readers, targets and transactions,      *)
(* whichever of them wait, fail or are chosen as a deadlock's victim.      *)
THEOREM CountersMatchCorrect == Spec => []CountersMatch
<1>1. CountersInv => CountersMatch
  BY DEF CountersInv
<1> QED BY <1>1, CountersInvCorrect, PTL

(* Only its own commit ends a review.                                      *)
LEMMA CommitsOnly ==
    ASSUME CountersInv, [Next]_vars, NEW q \in Request, ask[q].kind = "review",
           step[q] = "commit", step'[q] = "done"
    PROVE  CommitReview(q)
<1>1. step \in [Request -> Steps] /\ step' # step
  BY DEF CountersInv, TypeOK
<1>2. ASSUME NEW p \in Request \ {q}, Serve(p) \/ Fail(p) PROVE step'[q] = step[q]
  BY <1>1, <1>2
  DEF Serve, Fail, Follow, Like, FollowMany, Unfollow, Unlike, UnfollowMany, BeginDelete, Begin,
      ReadSeries, InsertRow, DeleteRow, Meet, DeleteNothing, Bump, UpsertReview, UpsertRow,
      Recount, Rate, CommitInsert, CommitDelete, CommitReview, DeadlockVictim, Finish
<1>3. ASSUME Serve(q) \/ Fail(q) PROVE CommitReview(q)
  BY <1>1, <1>3
  DEF Serve, Fail, Follow, Like, FollowMany, Unfollow, Unlike, UnfollowMany, BeginDelete, Begin,
      ReadSeries, InsertRow, DeleteRow, DeleteNothing, Bump, UpsertReview, UpsertRow,
      Recount, Rate, CommitInsert, CommitDelete, DeadlockVictim, Finish, InsertKinds, DeleteKinds
<1> QED BY <1>1, <1>2, <1>3 DEF Next, SeriesChanges, vars

(* A review that overlapped no other review of its novel leaves the rating *)
(* that the novel's reviews add up to, whatever it was before              *)
(* (UpsertReview).                                                         *)
THEOREM RatingHealsCorrect == Spec => RatingHeals
<1>1. ASSUME CountersInv, [Next]_vars, NEW q \in lone, step[q] = "commit", step'[q] = "done"
      PROVE  rating'[Head(ask[q].on)] = AggregateOf(Head(ask[q].on), reviews')
  <2>1. /\ q \in Request /\ ask[q].kind = "review" /\ rating \in [Novel -> Aggregate]
        /\ agg[q] = AggregateOf(Head(ask[q].on), Rated(q))
    BY <1>1 DEF CountersInv, TypeOK, Alone
  <2>2. CommitReview(q)
    BY <1>1, <2>1, CommitsOnly
  <2> QED BY <1>1, <2>1, <2>2, CommitReviewWrites
<1>2. CountersInv /\ [Next]_vars =>
        [\A q \in lone : step[q] = "commit" /\ step'[q] = "done" =>
           rating'[Head(ask[q].on)] = AggregateOf(Head(ask[q].on), reviews')]_vars
  BY <1>1
<1> QED BY <1>2, CountersInvCorrect, PTL DEF Spec, RatingHeals

-----------------------------------------------------------------------------
(***************************************************************************)
(* Threads: what a call knows of the comments between its statements.      *)
(***************************************************************************)
(* Whether a comment's id has been given out.                              *)
There(c) == comments[c] # NoComment

(* The types of the calls and of what they write.                          *)
ThreadTypeOK ==
    /\ call \in [Call -> Post \cup Drop]
    /\ comments \in [Comment -> CommentRow \cup {NoComment}]
    /\ stage \in [Call -> Stages] /\ made \in [Call -> Comment \cup {0}]
    /\ answer \in [Call -> Answers]
    /\ notices \subseteq Reader \X Comment

(* A call that may delete a comment has seen it, and its right to.         *)
Dropping(k) ==
    /\ stage[k] = "delete" \/ answer[k] = "deleted" =>
         /\ call[k].kind = "drop" /\ There(call[k].comment)
         /\ CanDelete(call[k].comment, call[k].user)
    /\ answer[k] = "deleted" => comments[call[k].comment].deleted
    /\ answer[k] # "none" => stage[k] = "done"

(* A call that has posted a reply has seen the comment that it answers.    *)
Posting(k) ==
    /\ stage[k] \in {"insert", "reread", "tell"} \/ answer[k] = "posted" =>
         call[k].kind = "post" /\ (call[k].parent # 0 => There(call[k].parent))
    /\ stage[k] \in {"reread", "tell"} =>
         /\ made[k] \in Comment /\ There(made[k])
         /\ comments[made[k]].user = call[k].user
         /\ comments[made[k]].parent = call[k].parent
    /\ stage[k] = "tell" => call[k].parent # 0

(* The author of a comment has been told of a reply that was posted.       *)
Told(k) ==
    answer[k] = "posted" /\ call[k].parent # 0 =>
      \/ comments[call[k].parent].deleted
      \/ comments[call[k].parent].user = call[k].user
      \/ <<comments[call[k].parent].user, made[k]>> \in notices

(* A notice is about a reply to a comment of another reader.               *)
NoticeRight(x) ==
    /\ There(x[2]) /\ comments[x[2]].parent \in Comment /\ There(comments[x[2]].parent)
    /\ x[1] = comments[comments[x[2]].parent].user
    /\ x[1] # comments[x[2]].user

(* What is known of every call while no call has failed, and of the        *)
(* deletions whatever fails.                                               *)
ThreadInv ==
    /\ ThreadTypeOK /\ faults \in Nat
    /\ \A k \in Call : Dropping(k) /\ Posting(k)
    /\ \A j, k \in Call : answer[j] = "deleted" /\ answer[k] = "deleted"
                            /\ call[j].comment = call[k].comment => j = k
    /\ \A x \in notices : NoticeRight(x)
    /\ faults = 0 => \A k \in Call : Told(k)

(* No comment is the absent one; calls post or drop.                       *)
LEMMA RowsDiffer ==
    /\ NoComment \notin CommentRow
    /\ \A k \in Call : call[k] \in Post \cup Drop =>
         /\ call[k].kind \in {"post", "drop"} /\ call[k].user \in Reader
         /\ call[k].kind = "post" => /\ call[k].parent \in Comment \cup {0}
                                     /\ call[k].chapter \in Chapter
         /\ call[k].kind = "drop" => call[k].comment \in Comment
<1>1. ASSUME NEW r \in CommentRow PROVE r # NoComment
  <2>1. DOMAIN r = {"chapter", "user", "parent", "badge", "deleted"}
    BY DEF CommentRow
  <2>2. DOMAIN NoComment = {"absent"}
    BY DEF NoComment
  <2> QED BY <2>1, <2>2
<1> QED BY <1>1 DEF Post, Drop

(* Comments come, and are deleted; nothing else of them changes.           *)
CommentsGrow ==
    \A c \in Comment : There(c) =>
       /\ There(c)' /\ comments'[c].user = comments[c].user
       /\ comments'[c].parent = comments[c].parent
       /\ comments'[c].chapter = comments[c].chapter
       /\ comments[c].deleted => comments'[c].deleted

(* A step of one call, the comments only growing.                          *)
LEMMA OneCallMoves ==
    ASSUME ThreadInv, ThreadTypeOK', CommentsGrow, NEW k \in Call, faults' \in Nat,
           UNCHANGED call,
           \A j \in Call \ {k} : /\ stage'[j] = stage[j] /\ made'[j] = made[j]
                                 /\ answer'[j] = answer[j],
           Dropping(k)', Posting(k)',
           answer'[k] = "deleted" /\ answer[k] # "deleted" => Live(call[k].comment),
           answer[k] = "deleted" => answer'[k] = "deleted",
           notices \subseteq notices',
           \A x \in notices' \ notices : NoticeRight(x)',
           faults' = 0 => faults = 0 /\ Told(k)'
    PROVE  ThreadInv'
<1> USE RowsDiffer
<1>1. ThreadTypeOK /\ \A j \in Call : call[j] \in Post \cup Drop
  BY DEF ThreadInv, ThreadTypeOK
<1>2. ASSUME NEW j \in Call \ {k} PROVE Dropping(j)' /\ Posting(j)'
  <2>1. Dropping(j) /\ Posting(j)
    BY DEF ThreadInv
  <2>2. Dropping(j)'
    BY <1>1, <2>1 DEF Dropping, CommentsGrow, CanDelete
  <2>3. Posting(j)'
    BY <1>1, <2>1 DEF Posting, CommentsGrow
  <2> QED BY <2>2, <2>3
<1>3. ASSUME NEW i \in Call, NEW j \in Call, answer'[i] = "deleted", answer'[j] = "deleted",
             call[i].comment = call[j].comment
      PROVE  i = j
  <2>1. \A l \in Call : answer[l] = "deleted" => comments[call[l].comment].deleted
    BY DEF ThreadInv, Dropping
  <2> QED BY <1>3, <2>1 DEF ThreadInv, Live
<1>4. ASSUME NEW x \in notices PROVE NoticeRight(x)'
  <2>1. NoticeRight(x) /\ x[2] \in Comment
    BY <1>1 DEF ThreadInv, ThreadTypeOK
  <2> QED BY <2>1 DEF NoticeRight, CommentsGrow
<1>5. ASSUME faults' = 0, NEW j \in Call \ {k} PROVE Told(j)'
  <2>1. Told(j) /\ Posting(j)
    BY <1>5 DEF ThreadInv
  <2> QED BY <1>1, <2>1 DEF Told, Posting, CommentsGrow
<1> QED BY <1>2, <1>3, <1>4, <1>5 DEF ThreadInv

(* No call is under way at first.                                          *)
LEMMA ThreadInvInit == ASSUME NEW h \in Histories, CountersInit(h), ThreadInit(h) PROVE ThreadInv
<1>1. ThreadTypeOK
  BY CallAssumption DEF ThreadInit, ThreadTypeOK, Stages, Answers
<1> QED BY <1>1 DEF ThreadInv, ThreadInit, CountersInit, Dropping, Posting, Told

(* A call that reads, and writes no comment.                               *)
LEMMA ReadingCallKeeps ==
    ASSUME ThreadInv, NEW k \in Call, UNCHANGED <<call, comments, made>>,
           NEW s \in Stages, stage' = [stage EXCEPT ![k] = s],
           NEW a \in Answers \ {"deleted"}, answer' = [answer EXCEPT ![k] = a],
           stage[k] # "done", a # "none" => s = "done", faults' \in Nat,
           s \in {"insert", "reread", "tell"} \/ a = "posted" =>
             call[k].kind = "post" /\ (call[k].parent # 0 => There(call[k].parent)),
           s \in {"reread", "tell"} =>
             /\ made[k] \in Comment /\ There(made[k])
             /\ comments[made[k]].user = call[k].user
             /\ comments[made[k]].parent = call[k].parent,
           s = "tell" => call[k].parent # 0,
           s = "delete" => /\ call[k].kind = "drop" /\ There(call[k].comment)
                           /\ CanDelete(call[k].comment, call[k].user),
           notices \subseteq notices', notices' \subseteq Reader \X Comment,
           \A x \in notices' \ notices : NoticeRight(x),
           faults' = 0 => faults = 0 /\ Told(k)'
    PROVE  ThreadInv'
<1>1. /\ ThreadTypeOK /\ stage'[k] = s /\ answer'[k] = a
      /\ \A j \in Call \ {k} : stage'[j] = stage[j] /\ answer'[j] = answer[j]
  BY DEF ThreadInv, ThreadTypeOK
<1>2. ThreadTypeOK' /\ CommentsGrow
  BY <1>1 DEF ThreadTypeOK, CommentsGrow, There
<1>3. answer[k] # "deleted"
  BY DEF ThreadInv, Dropping
<1>4. Dropping(k)'
  BY <1>1 DEF Dropping, There, CanDelete
<1>5. Posting(k)'
  BY <1>1 DEF Posting, There
<1>6. \A x \in notices' \ notices : NoticeRight(x)'
  BY DEF NoticeRight, There
<1> QED BY <1>1, <1>2, <1>3, <1>4, <1>5, <1>6, OneCallMoves

(* CreateComment reads the comment that is answered.                       *)
LEMMA ReadParentKeeps ==
    ASSUME ThreadInv, NEW k \in Call, ReadParent(k), UNCHANGED faults PROVE ThreadInv'
<1>1. /\ ThreadTypeOK /\ stage[k] = "start" /\ answer[k] = "none" /\ Told(k) /\ faults \in Nat
      /\ call[k].kind = "post" /\ UNCHANGED <<call, comments, notices, made>>
  BY DEF ThreadInv, ReadParent, Dropping, Told
<1>2. CASE call[k].parent = 0 \/ Answerable(k) = "none"
  <2>1. stage' = [stage EXCEPT ![k] = "insert"] /\ answer' = [answer EXCEPT ![k] = "none"]
    BY <1>1, <1>2 DEF ReadParent, Continue, ThreadTypeOK
  <2>2. call[k].parent # 0 => There(call[k].parent)
    BY <1>2 DEF Answerable, Live, There
  <2>3. Told(k)'
    BY <1>1, <2>1 DEF Told, ThreadTypeOK
  <2> QED BY <1>1, <2>1, <2>2, <2>3, ReadingCallKeeps DEF Stages, Answers, ThreadTypeOK
<1>3. CASE ~(call[k].parent = 0 \/ Answerable(k) = "none")
  <2>1. PICK a \in {"not_found", "too_deep"} :
          stage' = [stage EXCEPT ![k] = "done"] /\ answer' = [answer EXCEPT ![k] = a]
    BY <1>3 DEF ReadParent, Reply, Answerable
  <2>2. Told(k)'
    BY <1>1, <2>1 DEF Told, ThreadTypeOK
  <2> QED BY <1>1, <2>1, <2>2, ReadingCallKeeps DEF Stages, Answers, ThreadTypeOK
<1> QED BY <1>2, <1>3

(* It inserts the reply under the next id ...                              *)
LEMMA InsertCommentKeeps ==
    ASSUME ThreadInv, NEW k \in Call, InsertComment(k), UNCHANGED faults PROVE ThreadInv'
<1> USE RowsDiffer
<1>1. /\ ThreadTypeOK /\ stage[k] = "insert" /\ answer[k] = "none" /\ faults \in Nat
      /\ call[k].kind = "post" /\ (call[k].parent # 0 => There(call[k].parent))
      /\ UNCHANGED <<call, notices>> /\ call[k] \in Post \cup Drop
  BY DEF ThreadInv, InsertComment, Dropping, Posting, ThreadTypeOK
<1>2. PICK c \in Comment :
        /\ NextId(c)
        /\ comments' = [comments EXCEPT ![c] =
             [chapter |-> call[k].chapter, user |-> call[k].user,
              parent |-> call[k].parent, deleted |-> FALSE,
              badge |-> TranslatorOf[call[k].chapter] = call[k].user]]
        /\ made' = [made EXCEPT ![k] = c]
  BY DEF InsertComment
<1>3. stage' = [stage EXCEPT ![k] = "reread"] /\ answer' = answer
  BY DEF InsertComment, Continue
<1>4. /\ comments'[c] \in CommentRow /\ comments'[c].user = call[k].user
      /\ comments'[c].parent = call[k].parent
      /\ \A d \in Comment \ {c} : comments'[d] = comments[d]
  <2>1. comments'[c] = [chapter |-> call[k].chapter, user |-> call[k].user,
              parent |-> call[k].parent, deleted |-> FALSE,
              badge |-> TranslatorOf[call[k].chapter] = call[k].user]
    BY <1>1, <1>2 DEF ThreadTypeOK
  <2> QED BY <1>1, <1>2, <2>1 DEF CommentRow, ThreadTypeOK
<1>5. ThreadTypeOK'
  BY <1>1, <1>2, <1>3, <1>4 DEF ThreadTypeOK, Stages
<1>6. CommentsGrow
  BY <1>2, <1>4 DEF CommentsGrow, NextId, There
<1>7. Dropping(k)' /\ Told(k)'
  BY <1>1, <1>3 DEF Dropping, Told, ThreadTypeOK
<1>8. Posting(k)'
  BY <1>1, <1>2, <1>3, <1>4, <1>6 DEF Posting, There, ThreadTypeOK, CommentsGrow
<1>9. \A j \in Call \ {k} : /\ stage'[j] = stage[j] /\ made'[j] = made[j]
                            /\ answer'[j] = answer[j]
  BY <1>1, <1>2, <1>3 DEF ThreadTypeOK
<1> QED BY <1>1, <1>3, <1>5, <1>6, <1>7, <1>8, <1>9, OneCallMoves

(* ... reads it back ...                                                   *)
LEMMA RereadKeeps ==
    ASSUME ThreadInv, NEW k \in Call, Reread(k), UNCHANGED faults PROVE ThreadInv'
<1>1. /\ ThreadTypeOK /\ stage[k] = "reread" /\ answer[k] = "none" /\ faults \in Nat
      /\ call[k].kind = "post" /\ (call[k].parent # 0 => There(call[k].parent))
      /\ made[k] \in Comment /\ There(made[k])
      /\ comments[made[k]].user = call[k].user
      /\ comments[made[k]].parent = call[k].parent
      /\ UNCHANGED <<call, comments, notices, made>>
  BY DEF ThreadInv, Reread, Dropping, Posting
<1>2. PICK s \in Stages, a \in Answers :
        /\ stage' = [stage EXCEPT ![k] = s] /\ answer' = [answer EXCEPT ![k] = a]
        /\ \/ s = "done" /\ a = "not_found"
           \/ s = "done" /\ a = "posted" /\ call[k].parent = 0
           \/ s = "tell" /\ a = "none" /\ call[k].parent # 0
  BY <1>1 DEF Reread, Reply, Continue, Stages, Answers, ThreadTypeOK
<1>3. Told(k)'
  BY <1>1, <1>2 DEF Told, ThreadTypeOK
<1> QED BY <1>1, <1>2, <1>3, ReadingCallKeeps DEF ThreadTypeOK

(* ... and notifies the author of the comment it read, if another.         *)
LEMMA TellKeeps ==
    ASSUME ThreadInv, NEW k \in Call, Tell(k), UNCHANGED faults PROVE ThreadInv'
<1> USE RowsDiffer
<1> DEFINE p == call[k].parent
<1>1. /\ ThreadTypeOK /\ stage[k] = "tell" /\ faults \in Nat
      /\ call[k].kind = "post" /\ p # 0 /\ There(p) /\ call[k] \in Post \cup Drop
      /\ made[k] \in Comment /\ There(made[k])
      /\ comments[made[k]].user = call[k].user
      /\ comments[made[k]].parent = p
      /\ notices' = notices \cup Hears(k) /\ UNCHANGED <<call, comments, made>>
  BY DEF ThreadInv, Tell, Dropping, Posting, ThreadTypeOK
<1>2. p \in Comment /\ comments[p] \in CommentRow
  BY <1>1 DEF There, ThreadTypeOK
<1>3. stage' = [stage EXCEPT ![k] = "done"] /\ answer' = [answer EXCEPT ![k] = "posted"]
  BY DEF Tell, Reply
<1>4. \A x \in Hears(k) : x \in Reader \X Comment /\ NoticeRight(x)
  BY <1>1, <1>2 DEF Hears, NoticeRight, CommentRow
<1>5. \/ comments[p].deleted \/ comments[p].user = call[k].user
      \/ <<comments[p].user, made[k]>> \in Hears(k)
  BY <1>1, <1>2 DEF Hears, Live, There, CommentRow
<1>6. Told(k)'
  BY <1>1, <1>5 DEF Told
<1>7. notices \subseteq notices' /\ notices' \subseteq Reader \X Comment
      /\ \A x \in notices' \ notices : NoticeRight(x)
  BY <1>1, <1>4 DEF ThreadTypeOK
<1> QED BY <1>1, <1>3, <1>6, <1>7, ReadingCallKeeps DEF Stages, Answers

(* DeleteComment reads the comment and the right to delete it.             *)
LEMMA ReadForDeleteKeeps ==
    ASSUME ThreadInv, NEW k \in Call, ReadForDelete(k), UNCHANGED faults PROVE ThreadInv'
<1>1. /\ ThreadTypeOK /\ stage[k] = "start" /\ answer[k] = "none" /\ faults \in Nat
      /\ call[k].kind = "drop" /\ UNCHANGED <<call, comments, notices, made>>
  BY DEF ThreadInv, ReadForDelete, Dropping
<1>2. PICK s \in Stages, a \in Answers :
        /\ stage' = [stage EXCEPT ![k] = s] /\ answer' = [answer EXCEPT ![k] = a]
        /\ \/ s = "done" /\ a \in {"not_found", "forbidden"}
           \/ /\ s = "delete" /\ a = "none"
              /\ There(call[k].comment) /\ CanDelete(call[k].comment, call[k].user)
  BY <1>1 DEF ReadForDelete, Reply, Continue, Stages, Answers, ThreadTypeOK, Live, There
<1>3. Told(k)'
  BY <1>1, <1>2 DEF Told, ThreadTypeOK
<1> QED BY <1>1, <1>2, <1>3, ReadingCallKeeps DEF ThreadTypeOK

(* Its UPDATE asks again whether the comment is there.                     *)
LEMMA SoftDeleteKeeps ==
    ASSUME ThreadInv, NEW k \in Call, SoftDelete(k), UNCHANGED faults PROVE ThreadInv'
<1> USE RowsDiffer
<1> DEFINE c == call[k].comment
<1>1. /\ ThreadTypeOK /\ stage[k] = "delete" /\ answer[k] = "none" /\ faults \in Nat
      /\ call[k].kind = "drop" /\ There(c) /\ CanDelete(c, call[k].user)
      /\ UNCHANGED <<call, notices, made>> /\ call[k] \in Post \cup Drop
  BY DEF ThreadInv, SoftDelete, Dropping, ThreadTypeOK
<1>2. c \in Comment /\ comments[c] \in CommentRow
  BY <1>1 DEF There, ThreadTypeOK
<1>3. CASE ~Live(c)
  <2>1. /\ stage' = [stage EXCEPT ![k] = "done"] /\ answer' = [answer EXCEPT ![k] = "not_found"]
        /\ UNCHANGED comments
    BY <1>3 DEF SoftDelete, Reply
  <2>2. Told(k)'
    BY <1>1, <2>1 DEF Told, ThreadTypeOK
  <2> QED BY <1>1, <2>1, <2>2, ReadingCallKeeps DEF Stages, Answers, ThreadTypeOK
<1>4. CASE Live(c)
  <2>1. /\ stage' = [stage EXCEPT ![k] = "done"] /\ answer' = [answer EXCEPT ![k] = "deleted"]
        /\ comments' = [comments EXCEPT ![c].deleted = TRUE]
    BY <1>4 DEF SoftDelete, Reply
  <2>2. /\ comments'[c] \in CommentRow /\ comments'[c].deleted
        /\ comments'[c].user = comments[c].user /\ comments'[c].parent = comments[c].parent
        /\ comments'[c].chapter = comments[c].chapter
        /\ \A d \in Comment \ {c} : comments'[d] = comments[d]
    BY <1>1, <1>2, <2>1 DEF ThreadTypeOK, CommentRow
  <2>3. ThreadTypeOK'
    BY <1>1, <1>2, <2>1, <2>2 DEF ThreadTypeOK, Stages, Answers
  <2>4. CommentsGrow
    BY <1>2, <2>2 DEF CommentsGrow, There
  <2>5. Dropping(k)'
    BY <1>1, <1>2, <2>1, <2>2 DEF Dropping, There, CanDelete, ThreadTypeOK
  <2>6. Posting(k)' /\ Told(k)'
    BY <1>1, <2>1 DEF Posting, Told, ThreadTypeOK
  <2>7. \A j \in Call \ {k} : stage'[j] = stage[j] /\ made'[j] = made[j] /\ answer'[j] = answer[j]
    BY <1>1, <2>1 DEF ThreadTypeOK
  <2> QED BY <1>1, <1>4, <2>1, <2>3, <2>4, <2>5, <2>6, <2>7, OneCallMoves
<1> QED BY <1>3, <1>4

(* A statement of a call fails.                                            *)
LEMMA CallFailsKeeps ==
    ASSUME ThreadInv, NEW k \in Call, CallFails(k) PROVE ThreadInv'
<1>1. /\ ThreadTypeOK /\ stage[k] # "done" /\ faults \in Nat
      /\ UNCHANGED <<call, comments, notices, made>> /\ faults' \in Nat /\ faults' # 0
      /\ Posting(k)
  BY DEF ThreadInv, CallFails
<1>2. PICK a \in {"none", "posted"} :
        /\ stage' = [stage EXCEPT ![k] = "done"] /\ answer' = [answer EXCEPT ![k] = a]
        /\ a = "posted" => stage[k] = "tell"
  BY DEF CallFails, Reply
<1> QED BY <1>1, <1>2, ReadingCallKeeps DEF Stages, Answers, ThreadTypeOK, Posting

-----------------------------------------------------------------------------
(* The counters and the threads together, as they share the faults.        *)
CommunityInv == CountersInv /\ ThreadInv
communityVars == <<vars, threadVars>>

(* Every step of the counters and of the threads.                          *)
LEMMA CommunityInvNext == CommunityInv /\ [CommunityNext]_communityVars => CommunityInv'
<1> SUFFICES ASSUME CommunityInv, [CommunityNext]_communityVars PROVE CommunityInv'
  OBVIOUS
<1>1. CASE Next /\ UNCHANGED threadVars
  <2>1. CountersInv'
    BY <1>1, CountersInvNext DEF CommunityInv
  <2>2. faults' \in Nat /\ faults \in Nat /\ (faults' = 0 => faults = 0)
    <3>1. faults \in Nat /\ faults' \in Nat
      BY <2>1, SetAssumption DEF CountersInv, TypeOK, CommunityInv
    <3>2. faults' = faults \/ faults' = faults + 1
      BY <1>1
      DEF Next, Serve, Fail, Follow, Like, FollowMany, Unfollow, Unlike, UnfollowMany,
          BeginDelete, Begin, ReadSeries, InsertRow, DeleteRow, Meet, DeleteNothing, Bump,
          UpsertReview, UpsertRow, Recount, Rate, CommitInsert, CommitDelete, CommitReview,
          DeadlockVictim, SeriesChanges
    <3> QED BY <3>1, <3>2
  <2>3. ThreadInv'
    BY <1>1, <2>2 DEF threadVars, CommunityInv, ThreadInv, ThreadTypeOK, Dropping, Posting, Told,
                      NoticeRight, There, CanDelete
  <2> QED BY <2>1, <2>3 DEF CommunityInv
<1>2. ASSUME NEW k \in Call, ServeCall(k), UNCHANGED vars PROVE CommunityInv'
  <2>1. UNCHANGED faults /\ CountersInv'
    BY <1>2, CountersInvNext DEF vars, CommunityInv
  <2>2. ThreadInv'
    BY <1>2, <2>1, ReadParentKeeps, InsertCommentKeeps, RereadKeeps, TellKeeps,
       ReadForDeleteKeeps, SoftDeleteKeeps
    DEF ServeCall, CommunityInv
  <2> QED BY <2>1, <2>2 DEF CommunityInv
<1>3. ASSUME NEW k \in Call, CallFails(k),
             UNCHANGED <<ask, rows, orders, step, todo, touched, locked, agg, lone>>
      PROVE  CommunityInv'
  <2>1. ThreadInv'
    BY <1>3, CallFailsKeeps DEF CommunityInv
  <2>2. CountersInv'
    <3>1. TypeOK'
      BY <1>3, SetAssumption DEF CommunityInv, CountersInv, TypeOK, rows, CallFails, InFlight
    <3>2. UNCHANGED <<ask, links, count, reviews, rating, orders, step, todo, touched, locked,
                      agg, lone>>
      BY <1>3 DEF rows
    <3>3. CountersMatch' /\ \A p, q \in Request : p # q => Apart(p, q)'
      BY <3>2 DEF CommunityInv, CountersInv, CountersMatch, Fans, Apart
    <3>4. ASSUME NEW q \in Request
          PROVE  /\ IsFiniteSet(touched'[q])
                 /\ Stepwise(q)' /\ Counted(q)' /\ ReviewRows(q)' /\ Alone(q)'
      BY <3>2 DEF CommunityInv, CountersInv, Stepwise, Counted, Row, ReviewRows, Alone, Rated,
                  Overlaps, InFlight
    <3> QED BY <3>1, <3>2, <3>3, <3>4 DEF CommunityInv, CountersInv
  <2> QED BY <2>1, <2>2 DEF CommunityInv
<1>4. CASE UNCHANGED communityVars
  <2>1. CountersInv'
    BY <1>4, CountersInvNext DEF communityVars, CommunityInv
  <2>2. ThreadInv'
    BY <1>4 DEF communityVars, vars, threadVars, CommunityInv, ThreadInv, ThreadTypeOK, Dropping,
                Posting, Told, NoticeRight, There, CanDelete
  <2> QED BY <2>1, <2>2 DEF CommunityInv
<1> QED BY <1>1, <1>2, <1>3, <1>4 DEF CommunityNext

(* The two invariants hold together in every state.                        *)
LEMMA CommunityInvCorrect == CommunitySpec => []CommunityInv
<1>1. CommunityInit => CommunityInv
  BY CountersInvInit, ThreadInvInit DEF CommunityInit, CommunityInv
<1> QED BY <1>1, CommunityInvNext, PTL DEF CommunitySpec, communityVars

(* Two calls never both answer that they deleted a comment, and every      *)
(* reply that was posted has been told to the author of the comment it     *)
(* answers unless that author wrote it, the comment is deleted or a call   *)
(* failed (CreateComment, DeleteComment, NotifyReply).                     *)
THEOREM AnswersTruthfulCorrect == CommunitySpec => []AnswersTruthful
<1>1. ASSUME CommunityInv PROVE DeletedOnce
  BY <1>1 DEF CommunityInv, ThreadInv, Dropping, CanDelete, DeletedOnce
<1>2. ASSUME CommunityInv PROVE RepliesTold
  BY <1>2 DEF CommunityInv, ThreadInv, NoticeRight, Told, RepliesTold
<1> QED BY <1>1, <1>2, CommunityInvCorrect, PTL DEF AnswersTruthful

-----------------------------------------------------------------------------
(***************************************************************************)
(* Shelf: a DELETE that goes by an id has seen the bookmark's owner.       *)
(***************************************************************************)
(* The types of the rows and of the requests that will write them.         *)
ShelfTypeOK ==
    /\ shelf \in [Owner -> [tab : Tab \cup {"off"}, added : Nat]]
    /\ bookmarks \in [Item -> [of : Owner \cup {Nobody}, gone : BOOLEAN]]
    /\ inbox \in [Item -> [to : Owner \cup {Nobody}, readAt : Nat]]
    /\ clock \in Nat
    /\ \A d \in Device : device[d].kind \in {"put", "read"} => device[d].at \in Nat
    /\ \A d \in Device : device[d].kind = "put" => device[d].tab \in Tab
    /\ device = [d \in Device |-> device[d]]

(* DeleteBookmark has read whose bookmark it is; that never changes.       *)
SeenOwner(d) ==
    device[d].kind = "unbookmark" =>
      /\ device[d].id \in Item /\ device[d].user \in Owner
      /\ bookmarks[device[d].id].of = device[d].user

(* What is known of every request.                                         *)
ShelfInv == ShelfTypeOK /\ \A d \in Device : SeenOwner(d)

(* No device has asked anything at first.                                  *)
LEMMA ShelfInvInit == ShelfInit => ShelfInv
BY DEF ShelfInit, ShelfInv, ShelfTypeOK, SeenOwner, Off, Free

(* A request arrives and reads.                                            *)
LEMMA TakeKeeps ==
    ASSUME ShelfInv, NEW d \in Device, NEW r, Take(d, r), UNCHANGED <<stores, clock>>,
           r.kind \in {"put", "read"} => r.at \in Nat, r.kind = "put" => r.tab \in Tab,
           r.kind = "unbookmark" => /\ r.id \in Item /\ r.user \in Owner
                                    /\ bookmarks[r.id].of = r.user
    PROVE  ShelfInv'
<1>1. device' = [device EXCEPT ![d] = r] /\ device = [e \in Device |-> device[e]]
  BY DEF Take, ShelfInv, ShelfTypeOK
<1>2. device'[d] = r /\ \A e \in Device \ {d} : device'[e] = device[e]
  BY <1>1
<1>3. ShelfTypeOK'
  BY <1>1, <1>2 DEF ShelfInv, ShelfTypeOK, stores
<1>4. ASSUME NEW e \in Device PROVE SeenOwner(e)'
  BY <1>2 DEF ShelfInv, SeenOwner, stores
<1> QED BY <1>3, <1>4 DEF ShelfInv

(* Every handler that reads before it writes.                              *)
LEMMA ArriveKeeps ==
    ASSUME ShelfInv, NEW d \in Device, NEW u \in Owner, Arrive(d, u), UNCHANGED clock
    PROVE  ShelfInv'
<1>1. clock \in Nat
  BY DEF ShelfInv, ShelfTypeOK
<1>2. ASSUME NEW t \in Tab, SetShelfStatus(d, u, t) PROVE ShelfInv'
  BY <1>1, <1>2, TakeKeeps DEF SetShelfStatus
<1>3. ASSUME NEW p \in Pct, SaveProgress(d, u, p) PROVE ShelfInv'
  BY <1>1, <1>3, TakeKeeps DEF SaveProgress
<1>4. ASSUME NEW i \in Item, ReadBookmark(d, u, i) PROVE ShelfInv'
  BY <1>1, <1>4, TakeKeeps DEF ReadBookmark
<1>5. ASSUME NEW ids \in SUBSET Item, MarkRead(d, u, ids) PROVE ShelfInv'
  BY <1>1, <1>5, TakeKeeps DEF MarkRead
<1> QED BY <1>2, <1>3, <1>4, <1>5 DEF Arrive

(* What a write may do to the rows: a bookmark that is there keeps its     *)
(* reader, and only requests that are done change.                         *)
LEMMA WriteKeeps ==
    ASSUME ShelfInv, UNCHANGED clock,
           \A d \in Device : device'[d] = device[d] \/ device'[d] = Free,
           device' = [d \in Device |-> device'[d]],
           shelf' \in [Owner -> [tab : Tab \cup {"off"}, added : Nat]],
           bookmarks' \in [Item -> [of : Owner \cup {Nobody}, gone : BOOLEAN]],
           inbox' \in [Item -> [to : Owner \cup {Nobody}, readAt : Nat]],
           \A i \in Item : bookmarks[i].of = Nobody \/ bookmarks'[i].of = bookmarks[i].of
    PROVE  ShelfInv'
<1>1. ShelfTypeOK'
  BY DEF ShelfInv, ShelfTypeOK, Free
<1>2. ASSUME NEW d \in Device PROVE SeenOwner(d)'
  <2>1. CASE device'[d] = Free
    BY <2>1 DEF SeenOwner, Free
  <2>2. CASE device'[d] = device[d]
    <3> SUFFICES ASSUME device[d].kind = "unbookmark" PROVE SeenOwner(d)'
      BY <2>2 DEF SeenOwner
    <3>1. /\ device[d].id \in Item /\ device[d].user \in Owner
          /\ bookmarks[device[d].id].of = device[d].user
      BY DEF ShelfInv, SeenOwner
    <3> QED BY <2>2, <3>1, ShelfAssumption DEF SeenOwner
  <2> QED BY <2>1, <2>2
<1> QED BY <1>1, <1>2 DEF ShelfInv

(* What each step does to the rows.                                        *)
RowsTheirs ==
    /\ \A i \in Item :
         /\ bookmarks'[i].gone # bookmarks[i].gone =>
              \E d \in Device : /\ device[d].kind = "unbookmark"
                                /\ device[d].user = bookmarks[i].of
         /\ inbox'[i].readAt # inbox[i].readAt =>
              /\ inbox[i].readAt = 0
              /\ \E d \in Device : /\ device[d].kind = "read"
                                   /\ device[d].user = inbox[i].to
    /\ \A u \in Owner :
         shelf[u] # Off /\ shelf'[u] # Off => shelf'[u].added = shelf[u].added

(* Every step keeps the invariant and the owners' rows.                    *)
LEMMA ShelfStep ==
    ASSUME ShelfInv, [ShelfNext]_shelfVars
    PROVE  ShelfInv' /\ RowsTheirs
<1> USE DEF stores
<1>1. /\ ShelfTypeOK /\ \A d \in Device : SeenOwner(d)
      /\ device = [d \in Device |-> device[d]]
  BY DEF ShelfInv, ShelfTypeOK
<1>2. ASSUME UNCHANGED stores PROVE RowsTheirs
  BY <1>2 DEF RowsTheirs
<1>3. ASSUME NEW d \in Device, Done(d)
      PROVE  /\ device' = [e \in Device |-> device'[e]]
             /\ \A e \in Device : device'[e] = device[e] \/ device'[e] = Free
  <2>1. device' = [device EXCEPT ![d] = Free]
    BY <1>3 DEF Done
  <2> QED BY <1>1, <2>1
<1>4. ASSUME NEW d \in Device, NEW u \in Owner, Arrive(d, u), UNCHANGED clock
      PROVE  ShelfInv' /\ RowsTheirs
  BY <1>2, <1>4, ArriveKeeps
  DEF Arrive, SetShelfStatus, SaveProgress, ReadBookmark, MarkRead
<1>5. ASSUME NEW u \in Owner, RemoveShelf(u), UNCHANGED clock PROVE ShelfInv' /\ RowsTheirs
  BY <1>1, <1>5, WriteKeeps DEF RemoveShelf, RowsTheirs, ShelfTypeOK, Off
<1>6. ASSUME NEW u \in Owner, CreateBookmark(u), UNCHANGED clock PROVE ShelfInv' /\ RowsTheirs
  <2>1. PICK i \in Item : bookmarks[i].of = Nobody /\ bookmarks' = [bookmarks EXCEPT ![i].of = u]
    BY <1>6 DEF CreateBookmark, Fresh
  <2>2. /\ bookmarks' \in [Item -> [of : Owner \cup {Nobody}, gone : BOOLEAN]]
        /\ \A j \in Item : /\ bookmarks[j].of = Nobody \/ bookmarks'[j].of = bookmarks[j].of
                           /\ bookmarks'[j].gone = bookmarks[j].gone
    BY <1>1, <2>1 DEF ShelfTypeOK
  <2> QED BY <1>1, <1>6, <2>2, WriteKeeps DEF CreateBookmark, RowsTheirs, ShelfTypeOK
<1>7. ASSUME NEW u \in Owner, Notify(u), UNCHANGED clock PROVE ShelfInv' /\ RowsTheirs
  <2>1. PICK i \in Item : inbox' = [inbox EXCEPT ![i].to = u]
    BY <1>7 DEF Notify
  <2>2. /\ inbox' \in [Item -> [to : Owner \cup {Nobody}, readAt : Nat]]
        /\ \A j \in Item : inbox'[j].readAt = inbox[j].readAt
    BY <1>1, <2>1 DEF ShelfTypeOK
  <2> QED BY <1>1, <1>7, <2>2, WriteKeeps DEF Notify, RowsTheirs, ShelfTypeOK
<1>8. ASSUME NEW d \in Device, UpsertShelf(d), UNCHANGED clock PROVE ShelfInv' /\ RowsTheirs
  <2> DEFINE v == device[d].user
  <2>1. /\ shelf' = [shelf EXCEPT ![v] = Upserted(shelf[v], device[d].tab, device[d].at)]
        /\ UNCHANGED <<position, bookmarks, inbox>> /\ Done(d)
        /\ device[d].tab \in Tab /\ device[d].at \in Nat
    BY <1>1, <1>8 DEF UpsertShelf, ShelfTypeOK
  <2>2. ASSUME NEW u \in Owner
        PROVE  /\ shelf'[u] \in [tab : Tab \cup {"off"}, added : Nat]
               /\ shelf[u] # Off => shelf'[u].added = shelf[u].added
    <3>1. shelf[u] \in [tab : Tab \cup {"off"}, added : Nat]
      BY <1>1 DEF ShelfTypeOK
    <3>2. shelf'[u] = shelf[u] \/ shelf'[u] = Upserted(shelf[u], device[d].tab, device[d].at)
      BY <1>1, <2>1 DEF ShelfTypeOK
    <3> QED BY <2>1, <3>1, <3>2 DEF Upserted
  <2>3. shelf' \in [Owner -> [tab : Tab \cup {"off"}, added : Nat]]
    BY <1>1, <2>1, <2>2 DEF ShelfTypeOK
  <2>4. ShelfInv'
    BY <1>1, <1>3, <1>8, <2>1, <2>3, WriteKeeps DEF ShelfTypeOK
  <2> QED BY <2>1, <2>2, <2>4 DEF RowsTheirs
<1>9. ASSUME NEW d \in Device, UpsertProgress(d), UNCHANGED clock PROVE ShelfInv' /\ RowsTheirs
  BY <1>1, <1>3, <1>9, WriteKeeps DEF UpsertProgress, RowsTheirs, ShelfTypeOK
<1>10. ASSUME NEW d \in Device, DeleteBookmark(d), UNCHANGED clock PROVE ShelfInv' /\ RowsTheirs
  <2>1. /\ bookmarks' = [bookmarks EXCEPT ![device[d].id].gone = TRUE] /\ Done(d)
        /\ UNCHANGED <<shelf, position, inbox>>
        /\ device[d].id \in Item /\ bookmarks[device[d].id].of = device[d].user
        /\ device[d].kind = "unbookmark"
    BY <1>1, <1>10 DEF DeleteBookmark, SeenOwner
  <2>2. /\ bookmarks' \in [Item -> [of : Owner \cup {Nobody}, gone : BOOLEAN]]
        /\ \A j \in Item : /\ bookmarks'[j].of = bookmarks[j].of
                           /\ bookmarks'[j].gone # bookmarks[j].gone => j = device[d].id
    <3>1. PICK i \in Item : i = device[d].id
      BY <2>1
    <3>2. bookmarks \in [Item -> [of : Owner \cup {Nobody}, gone : BOOLEAN]]
      BY <1>1 DEF ShelfTypeOK
    <3>3. bookmarks' = [bookmarks EXCEPT ![i].gone = TRUE]
      BY <2>1, <3>1
    <3>4. \A j \in Item : bookmarks'[j] = IF j = i THEN [bookmarks[i] EXCEPT !.gone = TRUE]
                                                   ELSE bookmarks[j]
      BY <3>2, <3>3
    <3>5. PICK b \in [of : Owner \cup {Nobody}, gone : BOOLEAN] : b = bookmarks[i]
      BY <3>2
    <3>6. /\ [b EXCEPT !.gone = TRUE] \in [of : Owner \cup {Nobody}, gone : BOOLEAN]
          /\ [b EXCEPT !.gone = TRUE].of = b.of
      OBVIOUS
    <3>7. bookmarks' \in [Item -> [of : Owner \cup {Nobody}, gone : BOOLEAN]]
      BY <3>2, <3>3, <3>5, <3>6
    <3>8. \A j \in Item : /\ bookmarks'[j].of = bookmarks[j].of
                          /\ bookmarks'[j].gone # bookmarks[j].gone => j = device[d].id
      BY <3>1, <3>4, <3>5, <3>6
    <3> QED BY <3>7, <3>8
  <2>3. ShelfInv'
    BY <1>1, <1>3, <1>10, <2>1, <2>2, WriteKeeps DEF ShelfTypeOK
  <2> QED BY <2>1, <2>2, <2>3 DEF RowsTheirs
<1>11. ASSUME NEW d \in Device, UpdateRead(d), UNCHANGED clock PROVE ShelfInv' /\ RowsTheirs
  <2>1. /\ inbox' = [i \in Item |-> IF Marks(device[d], i)
                                    THEN [inbox[i] EXCEPT !.readAt = device[d].at]
                                    ELSE inbox[i]]
        /\ Done(d) /\ UNCHANGED <<shelf, position, bookmarks>>
        /\ device[d].kind = "read" /\ device[d].at \in Nat
    BY <1>1, <1>11 DEF UpdateRead, ShelfTypeOK
  <2>2. /\ inbox' \in [Item -> [to : Owner \cup {Nobody}, readAt : Nat]]
        /\ \A i \in Item : inbox'[i].readAt # inbox[i].readAt => Marks(device[d], i)
    BY <1>1, <2>1 DEF ShelfTypeOK
  <2>3. ShelfInv'
    BY <1>1, <1>3, <1>11, <2>1, <2>2, WriteKeeps DEF ShelfTypeOK
  <2> QED BY <2>1, <2>2, <2>3 DEF RowsTheirs, Marks
<1>12. CASE Write /\ UNCHANGED clock
  BY <1>5, <1>6, <1>7, <1>8, <1>9, <1>10, <1>11, <1>12 DEF Write
<1>13. CASE clock < MaxClock /\ clock' = clock + 1 /\ UNCHANGED <<stores, device, writes>>
  <2>1. ShelfInv'
    BY <1>1, <1>13 DEF ShelfInv, ShelfTypeOK, SeenOwner
  <2> QED BY <1>2, <1>13, <2>1
<1>14. CASE UNCHANGED shelfVars
  <2>1. ShelfInv'
    BY <1>1, <1>14 DEF shelfVars, ShelfInv, ShelfTypeOK, SeenOwner
  <2> QED BY <1>2, <1>14, <2>1 DEF shelfVars
<1> QED BY <1>4, <1>12, <1>13, <1>14 DEF ShelfNext

(* A bookmark goes and a notification is read by its owner's request only, *)
(* the time of the first reading stays, and a novel keeps the time it was  *)
(* put on the shelf, for any number of readers, devices and rows           *)
(* (DeleteBookmark, MarkRead, MarkAllRead, UpsertShelf).                   *)
THEOREM RowsStayTheirsCorrect == ShelfSpec => RowsStayTheirs
<1>1. ShelfInv /\ [ShelfNext]_shelfVars => ShelfInv' /\ [RowsTheirs]_shelfVars
  BY ShelfStep
<1>2. [][RowsTheirs]_shelfVars => RowsStayTheirs
  BY PTL DEF RowsTheirs, RowsStayTheirs
<1> QED BY <1>1, <1>2, ShelfInvInit, PTL DEF ShelfSpec

-----------------------------------------------------------------------------
(***************************************************************************)
(* Reading: what a request has read was so at the time, and what was so    *)
(* throughout is what it has read.                                         *)
(***************************************************************************)
(* The rows a chapter can have, and what a request can be: the row it read *)
(* first, then what it learnt of its visitor.                              *)
Rows == {r \in [status : {"draft", "published"}, price : Price, publicAt : Nat] :
            r.status = "draft" => r.publicAt = 0}
ViewAnswers == {"not_found", "early_access", "paywall", "body"}
Views == {NoRead}
    \cup [visitor : Visitor, step : {"unlock"}, row : Rows]
    \cup [visitor : Visitor, step : {"subscription"}, row : Rows, unlocked : BOOLEAN]
    \cup [visitor : Visitor, step : {"decide"}, row : Rows, unlocked : BOOLEAN,
          subscribed : BOOLEAN]
    \cup [visitor : Visitor, step : {"body"}, answer : {"body"}]
    \cup [visitor : Visitor, step : {"done"}, answer : ViewAnswers]

ReadingTypeOK ==
    /\ chapter \in Rows
    /\ owners \subseteq Buyer /\ subscribers \subseteq Buyer
    /\ hour \in Nat
    /\ view \in [Open -> Views]
    /\ had \in [Open -> SUBSET Facts] /\ held \in [Open -> SUBSET Facts]

(* The facts of this moment, as a visitor would find them.                 *)
Present(v) == FactsOf(v, chapter, owners, subscribers, hour)

(* While a request is served, what held throughout holds now, and what     *)
(* holds now has held.                                                     *)
InTime(x, h, k, f) ==
    x.step \in {"unlock", "subscription", "decide", "body"} => f \subseteq h /\ k \subseteq f

(* The row that a request carries was the chapter's when it was read: what *)
(* it says has been a fact, and what was a fact throughout is what it      *)
(* says.  A publication time that is no longer the chapter's had come.     *)
RowKnown(x, h, k) ==
    x.step \in {"unlock", "subscription", "decide"} =>
        /\ x.row.status = "published" => "published" \in h
        /\ "published" \in k => x.row.status = "published"
        /\ x.row.price = 0 => "free" \in h
        /\ "free" \in k => x.row.price = 0
        /\ x.row.publicAt = chapter.publicAt \/ "public" \in h
        /\ "public" \in k => x.row.publicAt <= hour

(* The same of the unlock and of the subscription: each is looked for only *)
(* where the row leaves the question open.                                 *)
UnlockKnown(x, h, k) ==
    x.step \in {"subscription", "decide"} =>
        /\ x.unlocked => "owned" \in h /\ x.visitor # Anonymous
        /\ "owned" \in k => x.unlocked \/ x.row.price = 0

SubscriptionKnown(x, h, k) ==
    x.step = "decide" =>
        /\ x.subscribed => "subscribed" \in h
        /\ "subscribed" \in k => x.subscribed \/ x.row.publicAt <= hour

(* Who may have the body by what has held, and whom a refusal wrongs.      *)
Entitled(v, h) == v = Translator \/ "admin" \in RolesOf[v] \/ Claim(h)
Refusable(h, k) ==
    Claim(k) => "owned" \in k /\ "public" \notin k /\ "free" \in h

AnswerRight(x, h, k) ==
    /\ x.step \in {"body", "done"} /\ x.answer = "body" => Entitled(x.visitor, h)
    /\ x.step = "done" /\ x.answer # "body" => Refusable(h, k)

(* All that is known of a request, and of every request.                   *)
Known(x, h, k) ==
    /\ InTime(x, h, k, Present(x.visitor))
    /\ RowKnown(x, h, k) /\ UnlockKnown(x, h, k) /\ SubscriptionKnown(x, h, k)
    /\ AnswerRight(x, h, k)

ReadingInv == ReadingTypeOK /\ \A o \in Open : Known(view[o], had[o], held[o])

(* The facts of a moment, one by one.                                      *)
LEMMA FactsAre ==
    ASSUME NEW v, NEW ch, NEW own, NEW subs, NEW t
    PROVE  LET f == FactsOf(v, ch, own, subs, t)
           IN  /\ f \subseteq Facts
               /\ "published" \in f <=> ch.status = "published"
               /\ "public" \in f <=> ch.publicAt <= t
               /\ "subscribed" \in f <=> v \in subs
               /\ "owned" \in f <=> v \in own
               /\ "free" \in f <=> ch.price = 0
  BY DEF FactsOf, Facts

(* What a request is at each of its steps.                                 *)
LEMMA StepsDiffer ==
    ASSUME NEW x \in Views
    PROVE  /\ x.step \in {"idle", "unlock", "subscription", "decide", "body", "done"}
           /\ x.step = "idle" => x = NoRead
           /\ x.step # "idle" => x.visitor \in Visitor
           /\ x.step \in {"unlock", "subscription", "decide"} => x.row \in Rows
           /\ x.step \in {"subscription", "decide"} => x.unlocked \in BOOLEAN
           /\ x.step = "decide" => x.subscribed \in BOOLEAN
           /\ x.step = "body" => x.answer = "body"
           /\ x.step = "done" => x.answer \in ViewAnswers
  BY DEF Views, NoRead

(* No request is being served at first.                                    *)
LEMMA ReadingInvInit == ReadingInit => ReadingInv
<1> SUFFICES ASSUME ReadingInit PROVE ReadingInv
  OBVIOUS
<1>1. chapter \in Rows
  BY ReadingAssumption DEF ReadingInit, Rows
<1>2. ReadingTypeOK
  BY <1>1 DEF ReadingInit, ReadingTypeOK, Views
<1> QED BY <1>2 DEF ReadingInv, Known, ReadingInit, NoRead, InTime, RowKnown, UnlockKnown, SubscriptionKnown, AnswerRight

(* What the world does in a step; a publication time that is passed over was
   one that had come. *)
WorldMoves ==
    /\ chapter' \in Rows /\ owners' \subseteq Buyer /\ subscribers' \subseteq Buyer
    /\ hour' \in Nat /\ hour <= hour'
    /\ \/ chapter'.publicAt = chapter.publicAt
       \/ chapter'.publicAt <= hour'
       \/ chapter.publicAt <= hour

(* A statement of another handler is a move of the world.                  *)
LEMMA ChangeMoves ==
    ASSUME ReadingTypeOK, Change
    PROVE  WorldMoves /\ view' = view
<1>1. hour' = hour /\ view' = view /\ hour \in Nat /\ chapter \in Rows
  BY DEF Change, ReadingTypeOK
<1> USE ReadingAssumption DEF WorldMoves, ReadingTypeOK, Rows
<1>2. ASSUME NEW lead \in Lead, Publish(lead) PROVE WorldMoves
  <2>1. /\ chapter' = [chapter EXCEPT !.status = "published", !.publicAt = hour + lead]
        /\ chapter.status = "draft" /\ owners' = owners /\ subscribers' = subscribers
    BY <1>2 DEF Publish
  <2>2. chapter.publicAt = 0 /\ chapter.price \in Price
    BY <1>1, <2>1
  <2>3. hour + lead \in Nat
    BY <1>1
  <2>4. chapter' \in Rows /\ chapter'.publicAt = hour + lead
    BY <1>1, <2>1, <2>3
  <2> QED BY <1>1, <2>1, <2>2, <2>4
<1>3. ASSUME Unpublish PROVE WorldMoves
  <2>1. /\ chapter' = [chapter EXCEPT !.status = "draft", !.publicAt = 0]
        /\ owners' = owners /\ subscribers' = subscribers
    BY <1>3 DEF Unpublish
  <2>2. chapter' \in Rows /\ chapter'.publicAt = 0
    BY <1>1, <2>1
  <2> QED BY <1>1, <2>1, <2>2
<1>4. ASSUME NEW p \in Price, Reprice(p) PROVE WorldMoves
  BY <1>1, <1>4 DEF Reprice
<1>5. ASSUME NEW v \in Buyer, Buy(v) \/ Subscribe(v) \/ Cancel(v) PROVE WorldMoves
  BY <1>1, <1>5 DEF Buy, Subscribe, Cancel
<1> QED BY <1>1, <1>2, <1>3, <1>4, <1>5 DEF Change

(* A request that is not served in a step stays right about what it knows. *)
LEMMA WaitingKnows ==
    ASSUME ReadingInv, WorldMoves, Remember, NEW o \in Open, view'[o] = view[o]
    PROVE  Known(view[o], had[o], held[o])'
<1> DEFINE x == view[o]
           f == FactsOf(x.visitor, chapter', owners', subscribers', hour')
<1>1. /\ x \in Views /\ Known(x, had[o], held[o]) /\ hour \in Nat /\ chapter \in Rows
      /\ had[o] \subseteq Facts
  BY DEF ReadingInv, ReadingTypeOK
<1>2. CASE x.step \in {"idle", "done"}
  <2>1. had'[o] = had[o] /\ held'[o] = held[o]
    BY <1>2 DEF Remember
  <2> QED BY <1>1, <1>2, <2>1 DEF Known, InTime, RowKnown, UnlockKnown,
                                  SubscriptionKnown, AnswerRight
<1>3. CASE x.step \notin {"idle", "done"}
  <2>1. had'[o] = had[o] \cup f /\ held'[o] = held[o] \cap f
    BY <1>3 DEF Remember
  <2>2. "public" \in f <=> chapter'.publicAt <= hour'
    BY FactsAre
  <2>3. "public" \in Present(x.visitor) <=> chapter.publicAt <= hour
    BY FactsAre DEF Present
  <2>4. InTime(x, had'[o], held'[o], f)
    BY <2>1 DEF InTime
  <2>5. RowKnown(x, had[o], held[o])'
    <3> SUFFICES ASSUME x.step \in {"unlock", "subscription", "decide"}
                 PROVE  RowKnown(x, had[o], held[o])'
      BY DEF RowKnown
    <3>1. x.row \in Rows /\ RowKnown(x, had[o], held[o])
          /\ Present(x.visitor) \subseteq had[o]
      BY <1>1, StepsDiffer DEF Known, InTime
    <3> QED BY <1>1, <2>1, <2>2, <2>3, <3>1 DEF RowKnown, WorldMoves, Rows
  <2>6. UnlockKnown(x, had'[o], held'[o])
    BY <1>1, <2>1 DEF Known, UnlockKnown
  <2>7. SubscriptionKnown(x, had[o], held[o])'
    <3>1. x.step = "decide" => x.row \in Rows
      BY <1>1, StepsDiffer
    <3> QED BY <1>1, <2>1, <3>1 DEF Known, SubscriptionKnown, WorldMoves, Rows
  <2>8. AnswerRight(x, had'[o], held'[o])
    BY <1>1, <1>3, <2>1 DEF Known, AnswerRight, Entitled, Claim
  <2> QED BY <2>4, <2>5, <2>6, <2>7, <2>8
          DEF Known, Present, UnlockKnown, AnswerRight, Entitled, Claim
<1> QED BY <1>2, <1>3

(* Serving a request moves nothing but that request.                       *)
LEMMA ServingMoves ==
    ASSUME ReadingInv, NEW o \in Open, ServeView(o)
    PROVE  /\ WorldMoves /\ UNCHANGED <<chapter, owners, subscribers, hour>>
           /\ \A p \in Open \ {o} : view'[p] = view[p]
  BY DEF ServeView, OpenChapter, ReadUnlock, ReadSubscription, DecideView, ReadBody,
         WorldMoves, ReadingInv, ReadingTypeOK, Rows

(* GetChapter's first read: an unpublished chapter is no chapter to a      *)
(* reader.                                                                 *)
LEMMA OpeningKnows ==
    ASSUME ReadingInv, Remember, NEW o \in Open, NEW v \in Visitor, OpenChapter(o, v),
           UNCHANGED <<chapter, owners, subscribers, hour>>
    PROVE  view'[o] \in Views /\ Known(view[o], had[o], held[o])'
<1> DEFINE x == view'[o]
           f == FactsOf(v, chapter, owners, subscribers, hour)
<1>1. view[o] = NoRead /\ view \in [Open -> Views] /\ hour \in Nat /\ chapter \in Rows
      /\ had[o] \subseteq Facts
  BY DEF OpenChapter, ReadingInv, ReadingTypeOK
<1>2. x.visitor = v /\ x.step # "idle" /\ view[o].step = "idle"
  BY <1>1 DEF OpenChapter, NoRead
<1>3. had'[o] = had[o] \cup f /\ held'[o] = held[o] \cap f
  BY <1>2 DEF Remember
<1>4. /\ "published" \in f <=> chapter.status = "published"
      /\ "public" \in f <=> chapter.publicAt <= hour
      /\ "free" \in f <=> chapter.price = 0
  BY FactsAre
<1>5. CASE chapter.status = "published" \/ RolesOf[v] # {}
  <2>1. x = [visitor |-> v, step |-> "unlock", row |-> chapter]
    BY <1>1, <1>5 DEF OpenChapter
  <2>2. x \in Views
    BY <1>1, <2>1 DEF Views
  <2> HIDE DEF f
  <2>3. InTime(x, had'[o], held'[o], f)
    BY <1>3 DEF InTime
  <2>4. RowKnown(view[o], had[o], held[o])'
    BY <1>3, <1>4, <2>1 DEF RowKnown
  <2> QED BY <1>2, <2>1, <2>2, <2>3, <2>4
          DEF f, Known, Present, UnlockKnown, SubscriptionKnown, AnswerRight
<1>6. CASE ~(chapter.status = "published" \/ RolesOf[v] # {})
  <2>1. x = [visitor |-> v, step |-> "done", answer |-> "not_found"]
    BY <1>1, <1>6 DEF OpenChapter
  <2>2. x \in Views
    BY <2>1 DEF Views, ViewAnswers
  <2> HIDE DEF f
  <2>3. AnswerRight(x, had'[o], held'[o])
    BY <1>3, <1>4, <1>6, <2>1 DEF AnswerRight, Refusable, Claim
  <2> QED BY <2>1, <2>2, <2>3
          DEF f, Known, InTime, RowKnown, UnlockKnown, SubscriptionKnown, AnswerRight
<1> QED BY <1>5, <1>6

(* What a request that is in flight remembers after a step of its own.     *)
LEMMA ServedRemembers ==
    ASSUME ReadingInv, Remember, NEW o \in Open,
           UNCHANGED <<chapter, owners, subscribers, hour>>,
           view[o].step \in {"unlock", "subscription", "decide", "body"},
           view'[o].visitor = view[o].visitor, view'[o].step # "idle"
    PROVE  had'[o] = had[o] /\ held'[o] = held[o]
<1> DEFINE f == Present(view[o].visitor)
<1>1. f \subseteq had[o] /\ held[o] \subseteq f
  BY DEF ReadingInv, Known, InTime
<1>2. had'[o] = had[o] \cup f /\ held'[o] = held[o] \cap f
  BY DEF Remember, Present
<1> HIDE DEF f
<1> QED BY <1>1, <1>2

(* The read of chapter_unlocks.                                            *)
LEMMA UnlockingKnows ==
    ASSUME ReadingInv, Remember, NEW o \in Open, ReadUnlock(o),
           UNCHANGED <<chapter, owners, subscribers, hour>>
    PROVE  view'[o] \in Views /\ Known(view[o], had[o], held[o])'
<1> DEFINE x == view[o]
           u == /\ x.row.price > 0 /\ x.visitor # Anonymous
                /\ x.visitor \in owners
<1>1. /\ x \in Views /\ x.step = "unlock" /\ Known(x, had[o], held[o])
      /\ view \in [Open -> Views] /\ owners \subseteq Buyer
  BY DEF ReadingInv, ReadingTypeOK, ReadUnlock
<1>2. view'[o] = [visitor |-> x.visitor, step |-> "subscription", row |-> x.row,
                  unlocked |-> u]
  BY <1>1 DEF ReadUnlock
<1>3. x.visitor \in Visitor /\ x.row \in Rows
  BY <1>1, StepsDiffer
<1>4. view'[o] \in Views
  BY <1>2, <1>3 DEF Views
<1>5. had'[o] = had[o] /\ held'[o] = held[o]
  BY <1>1, <1>2, ServedRemembers
<1>6. InTime(view'[o], had[o], held[o], Present(x.visitor))
  BY <1>1, <1>2 DEF Known, InTime
<1>7. RowKnown(view[o], had[o], held[o])'
  BY <1>1, <1>2, <1>5 DEF Known, RowKnown
<1>8. UnlockKnown(view'[o], had[o], held[o])
  <2>1. "owned" \in Present(x.visitor) <=> x.visitor \in owners
    BY FactsAre DEF Present
  <2>2. Present(x.visitor) \subseteq had[o] /\ held[o] \subseteq Present(x.visitor)
    BY <1>1 DEF Known, InTime
  <2>3. x.row.price \in Nat
    BY <1>3, ReadingAssumption DEF Rows
  <2> QED BY <1>1, <1>2, <2>1, <2>2, <2>3, ReadingAssumption DEF UnlockKnown
<1> QED BY <1>2, <1>4, <1>5, <1>6, <1>7, <1>8
        DEF Known, Present, InTime, UnlockKnown, SubscriptionKnown, AnswerRight

(* The read of the subscription; the decision that follows asks for the    *)
(* subscription only before the publication time.                          *)
LEMMA SubscribingKnows ==
    ASSUME ReadingInv, Remember, NEW o \in Open, ReadSubscription(o),
           UNCHANGED <<chapter, owners, subscribers, hour>>
    PROVE  view'[o] \in Views /\ Known(view[o], had[o], held[o])'
<1> DEFINE x == view[o]
           s == /\ x.row.publicAt > hour /\ x.visitor # Anonymous
                /\ x.visitor \in subscribers
<1>1. /\ x \in Views /\ x.step = "subscription" /\ Known(x, had[o], held[o])
      /\ view \in [Open -> Views] /\ subscribers \subseteq Buyer /\ hour \in Nat
  BY DEF ReadingInv, ReadingTypeOK, ReadSubscription
<1>2. view'[o] = [visitor |-> x.visitor, step |-> "decide", row |-> x.row,
                  unlocked |-> x.unlocked, subscribed |-> s]
  BY <1>1 DEF ReadSubscription
<1>3. x.visitor \in Visitor /\ x.row \in Rows /\ x.unlocked \in BOOLEAN
  BY <1>1, StepsDiffer
<1>4. view'[o] \in Views
  BY <1>2, <1>3 DEF Views
<1>5. had'[o] = had[o] /\ held'[o] = held[o]
  BY <1>1, <1>2, ServedRemembers
<1>6. InTime(view'[o], had[o], held[o], Present(x.visitor))
  BY <1>1, <1>2 DEF Known, InTime
<1>7. RowKnown(view[o], had[o], held[o])'
  BY <1>1, <1>2, <1>5 DEF Known, RowKnown
<1>8. UnlockKnown(view'[o], had[o], held[o])
  BY <1>1, <1>2 DEF Known, UnlockKnown
<1>9. SubscriptionKnown(view'[o], had[o], held[o])
  <2>1. "subscribed" \in Present(x.visitor) <=> x.visitor \in subscribers
    BY FactsAre DEF Present
  <2>2. Present(x.visitor) \subseteq had[o] /\ held[o] \subseteq Present(x.visitor)
    BY <1>1 DEF Known, InTime
  <2>3. x.row.publicAt \in Nat
    BY <1>3 DEF Rows
  <2> QED BY <1>1, <1>2, <2>1, <2>2, <2>3, ReadingAssumption DEF SubscriptionKnown
<1> QED BY <1>2, <1>4, <1>5, <1>6, <1>7, <1>8, <1>9
        DEF Known, Present, InTime, UnlockKnown, SubscriptionKnown, AnswerRight

(* See and Decide: a body only to the entitled, a refusal only where       *)
(* something was missing at some moment.                                   *)
LEMMA AnswerIsRight ==
    ASSUME ReadingInv, NEW o \in Open, view[o].step = "decide"
    PROVE  /\ Answer(view[o]) \in ViewAnswers
           /\ Answer(view[o]) = "body" => Entitled(view[o].visitor, had[o])
           /\ Answer(view[o]) # "body" => Refusable(had[o], held[o])
<1> DEFINE x == view[o]
           seen == See(x.row, x.visitor, x.subscribed, x.unlocked, hour)
<1>1. x \in Views /\ Known(x, had[o], held[o]) /\ hour \in Nat
  BY DEF ReadingInv, ReadingTypeOK
<1>2. /\ x.visitor \in Visitor /\ x.row \in Rows
      /\ x.unlocked \in BOOLEAN /\ x.subscribed \in BOOLEAN
  BY <1>1, StepsDiffer
<1>3. x.row.price \in Nat /\ x.row.publicAt \in Nat
  BY <1>2, ReadingAssumption DEF Rows
<1>4. /\ x.row.status = "published" => "published" \in had[o]
      /\ "published" \in held[o] => x.row.status = "published"
      /\ x.row.price = 0 => "free" \in had[o]
      /\ "free" \in held[o] => x.row.price = 0
      /\ "public" \in held[o] => x.row.publicAt <= hour
      /\ x.unlocked => "owned" \in had[o] /\ x.visitor # Anonymous
      /\ "owned" \in held[o] => x.unlocked \/ x.row.price = 0
      /\ x.subscribed => "subscribed" \in had[o]
      /\ "subscribed" \in held[o] => x.subscribed \/ x.row.publicAt <= hour
  BY <1>1 DEF Known, RowKnown, UnlockKnown, SubscriptionKnown
<1>5. x.row.publicAt <= hour => "public" \in had[o]
  <2>1. Present(x.visitor) \subseteq had[o]
    BY <1>1 DEF Known, InTime
  <2>2. "public" \in Present(x.visitor) <=> chapter.publicAt <= hour
    BY FactsAre DEF Present
  <2> QED BY <1>1, <2>1, <2>2 DEF Known, RowKnown
<1> HIDE DEF x
<1>6. Answer(x) \in ViewAnswers
  BY DEF Answer, ViewAnswers
<1>7. ASSUME Answer(x) = "body" PROVE Entitled(x.visitor, had[o])
  <2>1. seen = "full" /\ ~Decide(x.row.price, x.visitor, x.unlocked)
    BY <1>7 DEF Answer, See
  <2>2. CASE IsTranslator(x.visitor) \/ IsAdmin(x.visitor)
    BY <2>2 DEF IsTranslator, IsAdmin, Entitled
  <2>3. CASE ~(IsTranslator(x.visitor) \/ IsAdmin(x.visitor))
    <3>1. x.row.status = "published" /\ (x.row.publicAt <= hour \/ x.subscribed \/ x.unlocked)
      <4>1. ASSUME x.row.status # "published" PROVE FALSE
        BY <2>1, <2>3, <4>1 DEF See
      <4>2. ASSUME x.row.status = "published", ~(x.row.publicAt <= hour),
                   ~x.subscribed, ~x.unlocked
            PROVE  FALSE
        BY <2>1, <2>3, <4>2 DEF See
      <4> QED BY <4>1, <4>2
    <3>2. x.row.price = 0 \/ x.unlocked
      BY <1>3, <2>1, <2>3 DEF Decide
    <3> QED BY <1>4, <1>5, <3>1, <3>2 DEF Entitled, Claim
  <2> QED BY <2>2, <2>3
<1>8. ASSUME Answer(x) # "body", Claim(held[o]) PROVE Refusable(had[o], held[o])
  <2>1. x.row.status = "published"
    BY <1>4, <1>8 DEF Claim
  <2>2. CASE seen = "full"
    <3>1. Decide(x.row.price, x.visitor, x.unlocked)
      BY <1>8, <2>2 DEF Answer
    <3>2. x.row.price # 0 /\ (x.visitor = Anonymous \/ ~x.unlocked)
      BY <1>3, <3>1 DEF Decide
    <3> QED BY <1>4, <1>8, <3>2 DEF Claim
  <2>3. CASE seen # "full"
    <3>1. ~(x.row.publicAt <= hour) /\ ~x.subscribed /\ ~x.unlocked
      BY <2>1, <2>3 DEF See
    <3> QED BY <1>4, <1>8, <3>1 DEF Claim, Refusable
  <2> QED BY <2>2, <2>3
<1> QED BY <1>6, <1>7, <1>8 DEF x, Refusable

(* The decision, and the body that is read after it.                       *)
LEMMA DecidingKnows ==
    ASSUME ReadingInv, Remember, NEW o \in Open, DecideView(o) \/ ReadBody(o),
           UNCHANGED <<chapter, owners, subscribers, hour>>
    PROVE  view'[o] \in Views /\ Known(view[o], had[o], held[o])'
<1> DEFINE x == view[o]
<1>1. /\ x \in Views /\ x.step \in {"decide", "body"} /\ Known(x, had[o], held[o])
      /\ view \in [Open -> Views]
  BY DEF ReadingInv, ReadingTypeOK, DecideView, ReadBody
<1>2. x.visitor \in Visitor
  BY <1>1, StepsDiffer
<1>3. CASE DecideView(o)
  <2>1. view'[o] = [visitor |-> x.visitor, answer |-> Answer(x),
                    step |-> IF Answer(x) = "body" THEN "body" ELSE "done"]
        /\ x.step = "decide"
    BY <1>1, <1>3 DEF DecideView
  <2>2. /\ Answer(x) \in ViewAnswers
        /\ Answer(x) = "body" => Entitled(x.visitor, had[o])
        /\ Answer(x) # "body" => Refusable(had[o], held[o])
    BY <2>1, AnswerIsRight
  <2> HIDE DEF x
  <2>3. view'[o] \in Views
    BY <1>2, <2>1, <2>2 DEF Views
  <2>4. had'[o] = had[o] /\ held'[o] = held[o]
    BY <2>1, ServedRemembers DEF x
  <2>5. view'[o].visitor = x.visitor /\ view'[o].step \in {"body", "done"}
        /\ view'[o].answer = Answer(x) /\ (view'[o].step = "body" <=> Answer(x) = "body")
    BY <2>1
  <2>6. AnswerRight(view'[o], had[o], held[o])
    BY <2>2, <2>5 DEF AnswerRight
  <2>7. InTime(view'[o], had[o], held[o], Present(x.visitor))
    BY <1>1, <2>1 DEF Known, InTime
  <2> QED BY <2>3, <2>4, <2>5, <2>6, <2>7
          DEF Known, Present, InTime, RowKnown, UnlockKnown, SubscriptionKnown,
              AnswerRight, Entitled, Claim
<1>4. CASE ReadBody(o)
  <2>1. view'[o] = [x EXCEPT !.step = "done"] /\ x.step = "body"
    BY <1>1, <1>4 DEF ReadBody
  <2>2. x = [visitor |-> x.visitor, step |-> "body", answer |-> "body"]
    BY <1>1, <2>1 DEF Views, NoRead
  <2>3. view'[o] = [visitor |-> x.visitor, step |-> "done", answer |-> "body"]
    BY <2>1, <2>2
  <2>4. view'[o] \in Views
    BY <1>2, <2>3 DEF Views, ViewAnswers
  <2>5. had'[o] = had[o] /\ held'[o] = held[o]
    BY <2>1, <2>3, ServedRemembers
  <2>6. Entitled(x.visitor, had[o])
    BY <1>1, <2>1, <2>2 DEF Known, AnswerRight
  <2> QED BY <2>3, <2>4, <2>5, <2>6
          DEF Known, InTime, RowKnown, UnlockKnown, SubscriptionKnown,
              AnswerRight, Entitled, Claim
<1> QED BY <1>3, <1>4

(* Every step keeps what is known of every request.                        *)
LEMMA ReadingInvNext == ReadingInv /\ [ReadingNext]_readingVars => ReadingInv'
<1> SUFFICES ASSUME ReadingInv, [ReadingNext]_readingVars PROVE ReadingInv'
  OBVIOUS
<1>1. ReadingTypeOK /\ \A o \in Open : had[o] \subseteq Facts /\ held[o] \subseteq Facts
  BY DEF ReadingInv, ReadingTypeOK
<1>2. ASSUME Remember PROVE had' \in [Open -> SUBSET Facts] /\ held' \in [Open -> SUBSET Facts]
  BY <1>1, <1>2, FactsAre DEF Remember
<1>3. ASSUME Remember, WorldMoves, view' = view PROVE ReadingInv'
  BY <1>1, <1>2, <1>3, WaitingKnows DEF ReadingInv, ReadingTypeOK, WorldMoves
<1>4. CASE Change /\ Remember
  BY <1>1, <1>3, <1>4, ChangeMoves
<1>5. CASE Tick /\ Remember
  BY <1>1, <1>3, <1>5 DEF Tick, WorldMoves, ReadingTypeOK
<1>6. ASSUME NEW o \in Open, ServeView(o), Remember PROVE ReadingInv'
  <2>1. /\ WorldMoves /\ UNCHANGED <<chapter, owners, subscribers, hour>>
        /\ \A p \in Open \ {o} : view'[p] = view[p]
    BY <1>6, ServingMoves
  <2>2. view'[o] \in Views /\ Known(view[o], had[o], held[o])'
    BY <1>6, <2>1, OpeningKnows, UnlockingKnows, SubscribingKnows, DecidingKnows
    DEF ServeView
  <2>3. \A p \in Open \ {o} : Known(view[p], had[p], held[p])'
    BY <1>6, <2>1, WaitingKnows
  <2>4. \E g : view' = [view EXCEPT ![o] = g]
    BY <1>6 DEF ServeView, OpenChapter, ReadUnlock, ReadSubscription, DecideView, ReadBody
  <2>5. view' \in [Open -> Views]
    BY <1>1, <2>2, <2>4 DEF ReadingTypeOK
  <2> QED BY <1>2, <1>6, <2>1, <2>2, <2>3, <2>5 DEF ReadingInv, ReadingTypeOK, WorldMoves
<1>7. CASE UNCHANGED readingVars
  BY <1>7 DEF readingVars, ReadingInv, ReadingTypeOK, Known, InTime, RowKnown, UnlockKnown,
              SubscriptionKnown, AnswerRight, Present, Entitled, Claim, Refusable
<1> QED BY <1>4, <1>5, <1>6, <1>7 DEF ReadingNext

(* What is known of a request is known in every state.                     *)
LEMMA ReadingInvCorrect == ReadingSpec => []ReadingInv
BY ReadingInvInit, ReadingInvNext, PTL DEF ReadingSpec

(* GetChapter hands a body to the translator, to an admin, or to a visitor *)
(* whose claim rests on facts that each held while the request was served, *)
(* however purchases, subscriptions, prices and publications change        *)
(* between its reads.                                                      *)
THEOREM BodyOnlyToEntitledCorrect == ReadingSpec => []BodyOnlyToEntitled
<1>1. ReadingInv => BodyOnlyToEntitled
  BY DEF ReadingInv, Known, AnswerRight, Entitled, BodyOnlyToEntitled, Delivered
<1> QED BY <1>1, ReadingInvCorrect, PTL

(* GetChapter refuses nobody whose claim held throughout, except the owner *)
(* of a chapter that was free at some moment.                              *)
THEOREM EntitledAreServedCorrect == ReadingSpec => []EntitledAreServed
<1>1. ReadingInv => EntitledAreServed
  BY DEF ReadingInv, Known, AnswerRight, Refusable, EntitledAreServed, Withheld
<1> QED BY <1>1, ReadingInvCorrect, PTL
===============================================================================
