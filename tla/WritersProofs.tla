----------------------------- MODULE WritersProofs -----------------------------
(***************************************************************************)
(* Theorems about the translators' side of the site, for every value of    *)
(* the constants: payouts, the glossary, the manuscript, the split of a    *)
(* bundle's price, and the order of a series.  In each part the            *)
(* definitions come first that make up the inductive invariant, then a     *)
(* lemma for each kind of step, then the theorem.                          *)
(***************************************************************************)
EXTENDS Payouts, Glossary, Manuscript, MCBundle, Series, SumTheorems, SequenceTheorems,
        TLAPS

(***************************************************************************)
(* Payouts.  What a request has read of the translator's earnings is still *)
(* a lower bound, and what it has read of the payouts is still exact, when *)
(* its row is inserted: provided that no translator sends two requests at  *)
(* once.                                                                   *)
(***************************************************************************)
(* What a request has read is still so.                                    *)
SumsCurrent ==
    \A r \in Request :
        /\ req[r].step # "idle" => /\ req[r].earned <= earned[WriterOf[r]]
                                   /\ req[r].amount > 0
        /\ req[r].step = "summed" => req[r].requested = requested[WriterOf[r]]

Covered == PayoutsTypeOK /\ SumsCurrent /\ PayoutsCovered

LEMMA CoveredInit == PayoutsInit => Covered
  BY DEF PayoutsInit, Covered, PayoutsTypeOK, SumsCurrent, PayoutsCovered, InWork, Idle

(* The steps that only change one request.                                 *)
LEMMA RequestStep ==
    ASSUME Covered, NEW r \in Request, NEW x \in InWork,
           req' = [req EXCEPT ![r] = x], UNCHANGED <<earned, requested>>,
           x.step # "idle" => x.earned <= earned[WriterOf[r]] /\ x.amount > 0,
           x.step = "summed" => x.requested = requested[WriterOf[r]]
    PROVE  Covered'
  BY WriterAssumption DEF Covered, PayoutsTypeOK, SumsCurrent, PayoutsCovered

LEMMA CoveredNext ==
    ASSUME OneAtATime, Covered, [PayoutsNext]_payoutVars
    PROVE  Covered'
<1> USE WriterAssumption, AmountAssumption
<1>1. \A r \in Request : req[r] \in InWork /\ WriterOf[r] \in Writer
  BY DEF Covered, PayoutsTypeOK
<1>2. Idle \in InWork /\ Idle.step = "idle"
  BY DEF Idle, InWork
<1>3. ASSUME NEW r \in Request, NEW a \in Amount, SumEarnings(r, a) PROVE Covered'
  <2> DEFINE x == [step |-> "earned", amount |-> a,
                   earned |-> earned[WriterOf[r]], requested |-> 0]
  <2>1. x \in InWork
    BY <1>1 DEF InWork, Covered, PayoutsTypeOK
  <2>2. x.earned <= earned[WriterOf[r]] /\ x.amount > 0 /\ x.step = "earned"
    BY <1>1, <1>3 DEF SumEarnings, ValidAmount, Covered, PayoutsTypeOK
  <2>3. req' = [req EXCEPT ![r] = x] /\ UNCHANGED <<earned, requested>>
    BY <1>3 DEF SumEarnings
  <2> HIDE DEF x
  <2> QED BY <2>1, <2>2, <2>3, RequestStep
<1>4. ASSUME NEW r \in Request, SumPayouts(r) PROVE Covered'
  <2> DEFINE x == [step |-> "summed", amount |-> req[r].amount,
                   earned |-> req[r].earned, requested |-> requested[WriterOf[r]]]
  <2>1. x \in InWork
    BY <1>1 DEF InWork, Covered, PayoutsTypeOK
  <2>2. req[r].earned <= earned[WriterOf[r]] /\ req[r].amount > 0
    BY <1>4 DEF SumPayouts, Covered, SumsCurrent
  <2> QED BY <1>4, <2>1, <2>2, RequestStep DEF SumPayouts, RequestedNow
<1>5. ASSUME NEW r \in Request, CreatePayout(r) PROVE Covered'
  <2>1. /\ req[r].step = "summed"
        /\ req[r].amount <= Available(r)
        /\ requested' = [requested EXCEPT ![WriterOf[r]] = @ + req[r].amount]
        /\ req' = [req EXCEPT ![r] = Idle]
        /\ earned' = earned
    BY <1>5 DEF CreatePayout
  <2>2. /\ req[r].amount > 0 /\ req[r].amount \in Int
        /\ req[r].earned \in Nat /\ req[r].earned <= earned[WriterOf[r]]
        /\ req[r].requested = requested[WriterOf[r]]
    BY <1>1, <2>1 DEF Covered, SumsCurrent, InWork
  <2>3. requested[WriterOf[r]] + req[r].amount <= earned[WriterOf[r]]
    BY <1>1, <2>1, <2>2 DEF Available, Covered, PayoutsTypeOK
  <2>4. PayoutsTypeOK'
    BY <1>1, <1>2, <2>1, <2>2 DEF Covered, PayoutsTypeOK
  <2>5. PayoutsCovered'
    BY <1>1, <2>1, <2>3 DEF Covered, PayoutsTypeOK, PayoutsCovered
  <2>6. \A s \in Request \ {r} : WriterOf[s] # WriterOf[r]
    BY DEF OneAtATime
  <2>7. SumsCurrent'
    BY <1>1, <1>2, <2>1, <2>6 DEF Covered, PayoutsTypeOK, SumsCurrent
  <2> QED BY <2>4, <2>5, <2>7 DEF Covered
<1>6. ASSUME NEW r \in Request, Refuse(r) \/ Abandon(r) PROVE Covered'
  BY <1>2, <1>6, RequestStep DEF Refuse, Abandon
<1>7. ASSUME NEW w \in Writer, NEW e \in Earning, Credit(w, e) PROVE Covered'
  <2>1. /\ earned' = [earned EXCEPT ![w] = @ + e]
        /\ requested' = requested /\ req' = req /\ e \in Nat
    BY <1>7 DEF Credit
  <2> QED BY <1>1, <2>1 DEF Covered, PayoutsTypeOK, SumsCurrent, PayoutsCovered, InWork
<1>8. ASSUME UNCHANGED payoutVars PROVE Covered'
  BY <1>8 DEF payoutVars, Covered, PayoutsTypeOK, SumsCurrent, PayoutsCovered
<1> QED BY <1>3, <1>4, <1>5, <1>6, <1>7, <1>8 DEF PayoutsNext

(* A translator who sends one request at a time never has more in payouts  *)
(* than they earned, whatever sales commit between a request's two sums    *)
(* and its insert, and whichever requests break off.                       *)
THEOREM PayoutsCoveredCorrect == ASSUME OneAtATime PROVE PayoutsSpec => []PayoutsCovered
<1>1. PayoutsInit => Covered
  BY CoveredInit
<1>2. Covered /\ [PayoutsNext]_payoutVars => Covered'
  BY CoveredNext
<1>3. Covered => PayoutsCovered
  BY DEF Covered
<1> QED BY <1>1, <1>2, <1>3, PTL DEF PayoutsSpec

(***************************************************************************)
(* Glossary.  A term is in a group that is there, and a group that is      *)
(* about to be deleted has only terms that came after it was counted.      *)
(***************************************************************************)
(* A row of the glossary, and what the tables hold.                        *)
TermRows == [group : Group, key : TermKey, title : Nat]
GlossaryTypeOK ==
    /\ groups \subseteq Group /\ rev \in Nat
    /\ terms \in [Term -> TermRows \cup {NoTerm}]
    /\ since \in [Desk -> SUBSET Term]
    /\ desk = [d \in Desk |-> desk[d]]

(* The foreign key: a term is in a group that is there.                    *)
Grouped == \A t \in Term : terms[t] # NoTerm => terms[t].group \in groups
(* What a desk carries between its statements.  A group that a desk is     *)
(* about to drop holds only terms that were written since it was counted.  *)
DeskKnows(d) ==
    /\ desk[d].step = "update" => desk[d].term \in Term /\ desk[d].key \in TermKey
    /\ desk[d].step = "delete" => desk[d].term \in Term
    /\ desk[d].step \in {"count", "drop"} => desk[d].group \in Group
    /\ desk[d].step = "drop" => In(desk[d].group) \subseteq since[d]

GlossaryInv == GlossaryTypeOK /\ Grouped /\ \A d \in Desk : DeskKnows(d)

(* No desk is at work at first, and all tables are empty.                  *)
LEMMA GlossaryInvInit == GlossaryInit => GlossaryInv
BY DEF GlossaryInit, GlossaryInv, GlossaryTypeOK, Grouped, DeskKnows, Vacant

(* A term that is there has a group that is there; 0 is no group.          *)
LEMMA RowsOrNone ==
    ASSUME GlossaryInv, NEW t \in Term
    PROVE  /\ terms[t] # NoTerm => terms[t] \in TermRows /\ terms[t].group \in groups
           /\ terms[t] = NoTerm <=> terms[t].group = 0
BY GlossaryAssumption DEF GlossaryInv, GlossaryTypeOK, Grouped, TermRows, NoTerm

(* The trigger fires for a term whose group is there.                      *)
LEMMA OneBump ==
    ASSUME GlossaryInv, NEW t \in Term, NEW gs,
           terms'[t].group \in gs \/ terms[t].group \in gs
    PROVE  Bumped({t}, gs) = rev + 1
<1>1. {x \in {t} : terms'[x].group \in gs \/ terms[x].group \in gs} = {t}
  OBVIOUS
<1>2. Cardinality({t}) = 1
  BY FS_Singleton
<1> QED BY <1>1, <1>2 DEF Bumped

(* A statement never lowers the revision.                                  *)
LEMMA SomeBump ==
    ASSUME GlossaryInv, NEW ts \in SUBSET Term, NEW gs
    PROVE  Bumped(ts, gs) \in Nat
<1> DEFINE hit == {x \in ts : terms'[x].group \in gs \/ terms[x].group \in gs}
<1>1. IsFiniteSet(hit)
  BY GlossaryAssumption, FS_Subset
<1>2. Cardinality(hit) \in Nat /\ rev \in Nat
  BY <1>1, FS_CardinalityType DEF GlossaryInv, GlossaryTypeOK
<1> HIDE DEF hit
<1>3. rev + Cardinality(hit) \in Nat
  BY <1>2
<1> QED BY <1>3 DEF Bumped, hit

(* A term that changes raises the revision, or goes unnoticed with its     *)
(* group.                                                                  *)
Noticed(t) ==
    terms'[t] # terms[t] =>
      \/ rev' > rev
      \/ \E d \in Desk : /\ desk[d].step = "drop" /\ desk'[d] = Vacant
                         /\ terms[t].group = desk[d].group /\ t \in since[d]

(* The first statement of a request writes no term.                        *)
LEMMA AskingKeeps ==
    ASSUME GlossaryInv, UNCHANGED <<groups, terms, rev, since>>, NEW d \in Desk, NEW x,
           desk' = [desk EXCEPT ![d] = x],
           x.step = "update" => x.term \in Term /\ x.key \in TermKey,
           x.step = "delete" => x.term \in Term,
           x.step \in {"count", "drop"} => x.group \in Group,
           x.step = "drop" => In(x.group) \subseteq since[d]
    PROVE  GlossaryInv'
<1>1. desk'[d] = x /\ \A e \in Desk \ {d} : desk'[e] = desk[e]
  BY DEF GlossaryInv, GlossaryTypeOK
<1>2. GlossaryTypeOK' /\ Grouped'
  BY <1>1 DEF GlossaryInv, GlossaryTypeOK, Grouped
<1>3. \A g : In(g)' = In(g)
  BY DEF In
<1>4. \A e \in Desk : DeskKnows(e)'
  BY <1>1, <1>3 DEF GlossaryInv, DeskKnows
<1> QED BY <1>2, <1>4 DEF GlossaryInv

(* A statement that writes terms, for the desk that it answers.            *)
LEMMA WritingKeeps ==
    ASSUME GlossaryInv, NEW d \in Desk, Answered(d), groups' \subseteq groups,
           terms' \in [Term -> TermRows \cup {NoTerm}], rev' \in Nat,
           UNCHANGED since \/ since' = [since EXCEPT ![d] = {}],
           \A t \in Term : terms'[t] # NoTerm =>
                             /\ terms'[t].group \in groups'
                             /\ terms'[t].group = terms[t].group
    PROVE  GlossaryInv'
<1>1. desk'[d] = Vacant
      /\ \A e \in Desk \ {d} : desk'[e] = desk[e] /\ since'[e] = since[e]
  BY DEF GlossaryInv, GlossaryTypeOK, Answered
<1>2. GlossaryTypeOK' /\ Grouped'
  BY <1>1 DEF GlossaryInv, GlossaryTypeOK, Grouped, Answered
<1>3. \A g \in Group : In(g)' \subseteq In(g)
  BY GlossaryAssumption DEF In, NoTerm
<1>4. ASSUME NEW e \in Desk PROVE DeskKnows(e)'
  BY <1>1, <1>3 DEF GlossaryInv, DeskKnows, Vacant
<1> QED BY <1>2, <1>4 DEF GlossaryInv

(* CreateTerm's insert.                                                    *)
LEMMA CreatingKeeps ==
    ASSUME GlossaryInv, NEW t \in Term, NEW g \in Group, NEW k \in TermKey,
           CreateGlossaryEntry(t, g, k)
    PROVE  GlossaryInv' /\ \A u \in Term : Noticed(u)
<1> DEFINE row == [group |-> g, key |-> k, title |-> 0]
<1>1. /\ g \in groups /\ terms' = [terms EXCEPT ![t] = row]
      /\ UNCHANGED <<groups, desk>> /\ rev' = Bumped({t}, groups)
      /\ since' = [d \in Desk |-> IF desk[d].step = "drop" THEN since[d] \cup {t} ELSE since[d]]
  BY DEF CreateGlossaryEntry
<1>2. terms'[t] = row /\ \A u \in Term \ {t} : terms'[u] = terms[u]
  BY <1>1 DEF GlossaryInv, GlossaryTypeOK
<1>3. rev' = rev + 1 /\ rev \in Nat
  BY <1>1, <1>2, OneBump DEF GlossaryInv, GlossaryTypeOK
<1>4. GlossaryTypeOK'
  <2>1. row \in TermRows
    BY DEF TermRows
  <2> HIDE DEF row
  <2> QED BY <1>1, <1>3, <2>1 DEF GlossaryInv, GlossaryTypeOK
<1>5. Grouped'
  BY <1>1, <1>2 DEF GlossaryInv, Grouped
<1>6. ASSUME NEW d \in Desk PROVE DeskKnows(d)'
  <2>1. \A h : In(h)' \subseteq In(h) \cup {t}
    BY <1>2 DEF In
  <2> QED BY <1>1, <2>1 DEF GlossaryInv, DeskKnows
<1> QED BY <1>2, <1>3, <1>4, <1>5, <1>6 DEF GlossaryInv, Noticed

(* The update of a term, and what its deletion deletes.                    *)
LEMMA UpdatingKeeps ==
    ASSUME GlossaryInv, NEW d \in Desk, UpdateGlossaryEntry(d) \/ DeleteGlossaryEntry(d)
    PROVE  GlossaryInv' /\ \A u \in Term : Noticed(u)
<1> DEFINE t == desk[d].term
<1>1. /\ t \in Term /\ Answered(d) /\ UNCHANGED <<groups, since>> /\ rev \in Nat
      /\ terms \in [Term -> TermRows \cup {NoTerm}]
      /\ \A u \in Term : terms[u] # NoTerm => terms[u].group \in groups
  BY DEF UpdateGlossaryEntry, DeleteGlossaryEntry, GlossaryInv, GlossaryTypeOK, Grouped,
         DeskKnows
<1>2. CASE UNCHANGED <<terms, rev>>
  BY <1>1, <1>2, WritingKeeps DEF Noticed
<1>3. CASE ~UNCHANGED <<terms, rev>>
  <2>1. /\ terms[t] # NoTerm /\ rev' = Bumped({t}, groups)
        /\ \/ terms' = [terms EXCEPT ![t].key = desk[d].key, ![t].title = @ + 1]
              /\ desk[d].step = "update"
           \/ terms' = [terms EXCEPT ![t] = NoTerm]
    BY <1>3 DEF UpdateGlossaryEntry, DeleteGlossaryEntry
  <2>2. terms[t] \in TermRows /\ terms[t].group \in groups
    BY <1>1, <2>1
  <2>3. /\ terms' = [terms EXCEPT ![t] = terms'[t]]
        /\ terms'[t] \in TermRows \cup {NoTerm}
        /\ terms'[t] # NoTerm => terms'[t].group = terms[t].group
    <3>1. CASE terms' = [terms EXCEPT ![t] = NoTerm]
      BY <1>1, <3>1
    <3>2. CASE terms' = [terms EXCEPT ![t].key = desk[d].key, ![t].title = @ + 1]
               /\ desk[d].step = "update"
      <4>1. desk[d].key \in TermKey
        BY <3>2 DEF GlossaryInv, DeskKnows
      <4>2. terms'[t] = [terms[t] EXCEPT !.key = desk[d].key, !.title = @ + 1]
        BY <1>1, <3>2
      <4> HIDE DEF t
      <4>3. terms'[t] = [group |-> terms[t].group, key |-> desk[d].key,
                         title |-> terms[t].title + 1]
        BY <2>2, <4>2 DEF TermRows
      <4>4. terms'[t] \in TermRows /\ terms'[t].group = terms[t].group
        BY <2>2, <4>1, <4>3 DEF TermRows
      <4> QED BY <1>1, <3>2, <4>4
    <3> QED BY <2>1, <3>1, <3>2
  <2>4. rev' = rev + 1
    BY <1>1, <2>1, <2>2, OneBump
  <2>5. terms' \in [Term -> TermRows \cup {NoTerm}]
        /\ \A u \in Term \ {t} : terms'[u] = terms[u]
    BY <1>1, <2>3
  <2>6. GlossaryInv'
    BY <1>1, <2>2, <2>3, <2>4, <2>5, WritingKeeps
  <2> QED BY <1>1, <2>4, <2>6 DEF Noticed
<1> QED BY <1>2, <1>3

(* The cascade of a group's deletion takes terms that were written since   *)
(* the group was counted, or none.                                         *)
LEMMA DroppingKeeps ==
    ASSUME GlossaryInv, NEW d \in Desk, DeleteGlossaryGroup(d)
    PROVE  GlossaryInv' /\ \A u \in Term : Noticed(u)
<1> DEFINE g == desk[d].group
<1>1. /\ desk[d].step = "drop" /\ g \in Group /\ In(g) \subseteq since[d]
      /\ groups' = groups \ {g} /\ Answered(d) /\ since' = [since EXCEPT ![d] = {}]
      /\ terms' = [t \in Term |-> IF terms[t].group = g THEN NoTerm ELSE terms[t]]
      /\ rev' = Bumped(In(g), groups \ {g})
  BY DEF DeleteGlossaryGroup, GlossaryInv, DeskKnows
<1>2. rev' \in Nat
  <2>1. In(g) \in SUBSET Term
    BY DEF In
  <2> QED BY <1>1, <2>1, SomeBump
<1>3. terms' \in [Term -> TermRows \cup {NoTerm}]
  BY <1>1 DEF GlossaryInv, GlossaryTypeOK
<1>4. \A t \in Term : terms'[t] # NoTerm => /\ terms'[t].group \in groups'
                                            /\ terms'[t].group = terms[t].group
  BY <1>1 DEF GlossaryInv, Grouped
<1>5. GlossaryInv'
  BY <1>1, <1>2, <1>3, <1>4, WritingKeeps
<1>6. desk'[d] = Vacant
  BY <1>1 DEF Answered, GlossaryInv, GlossaryTypeOK
<1>7. ASSUME NEW u \in Term PROVE Noticed(u)
  BY <1>1, <1>6 DEF Noticed, In
<1> QED BY <1>5, <1>7

(* Every step keeps the invariant and makes its changes noticed.           *)
LEMMA GlossaryStep ==
    ASSUME GlossaryInv, [GlossaryNext]_glossaryVars
    PROVE  GlossaryInv' /\ \A t \in Term : Noticed(t)
<1>1. ASSUME NEW g \in Group, CreateGlossaryGroup(g)
      PROVE  GlossaryInv' /\ \A t \in Term : Noticed(t)
  BY <1>1 DEF CreateGlossaryGroup, GlossaryInv, GlossaryTypeOK, Grouped, DeskKnows, In, Noticed
<1>2. ASSUME NEW d \in Desk, NEW t \in Term, NEW k, NEW s \in {"update", "delete"},
             s = "update" => k \in TermKey, FindEntry(d, t, s, k)
      PROVE  GlossaryInv' /\ \A u \in Term : Noticed(u)
  BY <1>2, AskingKeeps DEF FindEntry, Asked, Noticed
<1>3. ASSUME NEW d \in Desk, NEW g \in Group, FindGroup(d, g)
      PROVE  GlossaryInv' /\ \A t \in Term : Noticed(t)
  BY <1>3, AskingKeeps DEF FindGroup, Asked, Noticed
<1>4. ASSUME NEW d \in Desk, CountGlossaryEntries(d)
      PROVE  GlossaryInv' /\ \A t \in Term : Noticed(t)
  <2>1. desk[d].group \in Group /\ UNCHANGED <<groups, terms, rev, since>>
        /\ desk[d].step = "count"
    BY <1>4 DEF CountGlossaryEntries, GlossaryInv, DeskKnows
  <2>2. CASE Empty(desk[d].group)
    <3>1. desk' = [desk EXCEPT ![d] = [desk[d] EXCEPT !.step = "drop"]]
      BY <1>4, <2>2 DEF CountGlossaryEntries
    <3>2. [desk[d] EXCEPT !.step = "drop"].group = desk[d].group
      OBVIOUS
    <3>3. [desk[d] EXCEPT !.step = "drop"].step \in {"drop", "count"}
      BY <2>1
    <3> QED BY <2>1, <2>2, <3>1, <3>2, <3>3, AskingKeeps DEF Empty, Noticed
  <2>3. CASE ~Empty(desk[d].group)
    BY <1>4, <2>1, <2>3, AskingKeeps DEF CountGlossaryEntries, Answered, Vacant, Noticed
  <2> QED BY <2>2, <2>3
<1>5. CASE UNCHANGED glossaryVars
  BY <1>5 DEF glossaryVars, GlossaryInv, GlossaryTypeOK, Grouped, DeskKnows, In, Noticed
<1> QED BY <1>1, <1>2, <1>3, <1>4, <1>5, CreatingKeeps, UpdatingKeeps, DroppingKeeps
        DEF GlossaryNext

(* The trigger raises the revision whenever a term is written, whichever   *)
(* of the statements of the translators' requests meet; only a term that   *)
(* was written after its empty group was counted goes with the group       *)
(* without being noticed.                                                  *)
THEOREM TermsNoticedCorrect == GlossarySpec => TermsNoticed
<1>1. GlossaryInv /\ [GlossaryNext]_glossaryVars =>
        GlossaryInv' /\ [\A t \in Term : Noticed(t)]_glossaryVars
  BY GlossaryStep
<1>2. [][\A t \in Term : Noticed(t)]_glossaryVars => TermsNoticed
  BY PTL DEF Noticed, TermsNoticed
<1> QED BY <1>1, <1>2, GlossaryInvInit, PTL DEF GlossarySpec

(***************************************************************************)
(* Manuscript.  Drafts are stamped under the lock of their chapter's row,  *)
(* so that the one that commits is the newest; the unique index keeps a    *)
(* number for the request that placed it.                                  *)
(***************************************************************************)
(* What the tables and a request that writes hold.                         *)
Drafts == [text : Nat, at : Nat]
Rows   == [no : Number, arc : SUBSET Arc, price : Nat, text : Nat]
Sheets == [step : {"arcs", "lock", "place", "commit"}, new : BOOLEAN, id : Chapter, no : Number,
           price : Nat, arc : SUBSET Arc, text : Nat, at : Nat, doomed : SUBSET Drafts]

ManuscriptTypeOK ==
    /\ settings \in [price : Nat, free : {0, 1}]
    /\ chapters \in [Chapter -> {NoChapter} \cup Rows]
    /\ pen \in [Pen -> {PenDown} \cup Sheets]
    /\ history \in [Chapter -> SUBSET Drafts] /\ texts \in [Chapter -> SUBSET Drafts]
    /\ moment \in Nat /\ saves \in Nat

(* A request that writes has resolved its number and arc together.  The    *)
(* chapter that it creates is nobody else's, a chapter that it has locked  *)
(* is locked by no other, and the number that it is about to commit is     *)
(* taken by no chapter and no other request (the unique index).            *)
Placed(q) ==
    /\ pen[q].step \in {"lock", "place", "commit"} => <<pen[q].no, pen[q].arc>> \in resolved
    /\ (pen[q].step # "idle" /\ pen[q].new) =>
         /\ chapters[pen[q].id] = NoChapter
         /\ \A r \in Pen \ {q} : pen[r].step # "idle" => pen[r].id # pen[q].id
    /\ \A r \in Pen \ {q} : Writing(q) /\ Writing(r) => pen[r].id # pen[q].id
    /\ pen[q].step = "commit" =>
         /\ \A c \in Chapter \ {pen[q].id} : chapters[c].no # pen[q].no
         /\ \A r \in Pen \ {q} : pen[r].step = "commit" => pen[r].no # pen[q].no

(* The draft that is about to be committed is newer than all, and what is  *)
(* to be pruned is all but the newest, counted under the lock.             *)
Stamped(q) ==
    pen[q].step = "commit" =>
      /\ pen[q].at <= moment /\ \A d \in texts[pen[q].id] : d.at < pen[q].at
      /\ pen[q].doomed = (history[pen[q].id] \cup {Draft(q)})
                           \ Newest(history[pen[q].id] \cup {Draft(q)}, Keep)

(* The drafts that were ever written, one per moment at most.              *)
DraftsKept(c) ==
    /\ IsFiniteSet(texts[c]) /\ \A d \in texts[c] : d.at <= moment
    /\ chapters[c] = NoChapter => texts[c] = {}

ManuscriptInv ==
    /\ ManuscriptTypeOK
    /\ \A q \in Pen : Placed(q) /\ Stamped(q)
    /\ \A c \in Chapter : DraftsKept(c)
    /\ HistoryKeepsNewest /\ PlacedTogether

-----------------------------------------------------------------------------
(* Rows that are there and rows that are not.                              *)
LEMMA Shapes ==
    ASSUME ManuscriptTypeOK
    PROVE  /\ \A c \in Chapter : \/ chapters[c] = NoChapter /\ chapters[c].no = 0
                                 \/ chapters[c] \in Rows /\ chapters[c].no # 0
           /\ \A q \in Pen : \/ pen[q] = PenDown /\ pen[q].step = "idle"
                             \/ pen[q] \in Sheets /\ pen[q].step # "idle"
           /\ PenDown.step = "idle" /\ PenDown \notin Sheets /\ NoChapter \notin Rows
<1>1. NoChapter.no = 0 /\ PenDown.step = "idle"
  BY DEF NoChapter, PenDown
<1>2. \A r \in Rows : r.no # 0
  BY ManuscriptAssumption DEF Rows
<1>3. \A s \in Sheets : s.step # "idle"
  BY DEF Sheets
<1> QED BY <1>1, <1>2, <1>3 DEF ManuscriptTypeOK

(* Once a draft is added that is newer than all, the newest of all are     *)
(* among those that were the newest before.                                *)
LEMMA NewestAfter ==
    ASSUME NEW T \in SUBSET Drafts, IsFiniteSet(T), NEW own \in Drafts,
           \A d \in T : d.at < own.at, NEW k \in Nat \ {0}
    PROVE  /\ Newest(T \cup {own}, k) = Newest(Newest(T, k) \cup {own}, k)
           /\ Newest(T \cup {own}, 1) = {own}
<1> DEFINE H == Newest(T, k)
           Later(S, d) == {e \in S : e.at > d.at}
           B == T \cup {own}
           L == H \cup {own}
<1>1. /\ \A S, d : IsFiniteSet(S) => IsFiniteSet(Later(S, d)) /\ Cardinality(Later(S, d)) \in Nat
      /\ own.at \in Nat /\ \A d \in T : d.at \in Nat
  <2>1. ASSUME NEW S, NEW d, IsFiniteSet(S)
        PROVE  IsFiniteSet(Later(S, d)) /\ Cardinality(Later(S, d)) \in Nat
    <3>1. Later(S, d) \in SUBSET S
      OBVIOUS
    <3> HIDE DEF Later
    <3> QED BY <2>1, <3>1, FS_Subset, FS_CardinalityType
  <2> HIDE DEF Later
  <2> QED BY <2>1 DEF Drafts
<1>2. IsFiniteSet(B) /\ IsFiniteSet(L) /\ IsFiniteSet(H) /\ H \subseteq T
  <2>1. H \in SUBSET T
    BY DEF Newest
  <2> HIDE DEF H
  <2>2. IsFiniteSet(H)
    BY <2>1, FS_Subset
  <2> QED BY <2>1, <2>2, FS_AddElement
<1>3. \A S, d : d \in Newest(S, k) <=> d \in S /\ Cardinality(Later(S, d)) < k
  BY DEF Newest
<1>4. Later(B, own) = {} /\ Later(L, own) = {} /\ Cardinality({}) = 0
  BY <1>1, <1>2, FS_EmptySet
<1>5. ASSUME NEW d \in H PROVE Later(T, d) \subseteq H
  <2> SUFFICES ASSUME NEW e \in Later(T, d) PROVE e \in H
    OBVIOUS
  <2>1. Later(T, e) \in SUBSET Later(T, d)
    BY <1>1, <1>2
  <2>2. Cardinality(Later(T, d)) < k
    BY <1>3, <1>5
  <2>3. e \in T
    OBVIOUS
  <2> HIDE DEF Later, H
  <2>4. Cardinality(Later(T, e)) <= Cardinality(Later(T, d))
    BY <1>1, <2>1, FS_Subset
  <2>5. Cardinality(Later(T, e)) \in Nat /\ Cardinality(Later(T, d)) \in Nat
    BY <1>1
  <2>6. Cardinality(Later(T, e)) < k
    BY <2>2, <2>4, <2>5
  <2> QED BY <1>3, <2>3, <2>6 DEF H
<1>6. ASSUME NEW d \in H PROVE Later(B, d) = Later(L, d)
  BY <1>2, <1>5
<1>7. ASSUME NEW d \in T \ H PROVE ~(Cardinality(Later(B, d)) < k)
  <2>1. ~(Cardinality(Later(T, d)) < k)
    BY <1>3
  <2>2. Later(T, d) \in SUBSET Later(B, d)
    OBVIOUS
  <2> HIDE DEF Later, B
  <2>3. Cardinality(Later(T, d)) <= Cardinality(Later(B, d))
    BY <1>1, <1>2, <2>2, FS_Subset
  <2>4. Cardinality(Later(T, d)) \in Nat /\ Cardinality(Later(B, d)) \in Nat
    BY <1>1, <1>2
  <2> QED BY <2>1, <2>3, <2>4
<1>8. ASSUME NEW d \in B PROVE d \in Newest(B, k) <=> d \in Newest(L, k)
  <2>1. CASE d = own
    <3>1. d \in L /\ Cardinality(Later(B, d)) < k /\ Cardinality(Later(L, d)) < k
      <4> HIDE DEF Later, B
      <4> QED BY <1>4, <2>1
    <3> HIDE DEF Later, B, L
    <3> QED BY <1>3, <1>8, <3>1
  <2>2. CASE d \in H
    <3>1. d \in L
      BY <2>2
    <3> HIDE DEF Later, B, L
    <3> QED BY <1>3, <1>6, <1>8, <2>2, <3>1
  <2>3. CASE d \in T \ H /\ d # own
    <3>1. d \notin L
      BY <2>3
    <3> HIDE DEF Later, B, L
    <3> QED BY <1>3, <1>7, <2>3, <3>1
  <2> QED BY <2>1, <2>2, <2>3
<1>9. Newest(B, k) \subseteq B /\ Newest(L, k) \subseteq B
  BY <1>2 DEF Newest
<1>10. Newest(B, 1) = {own}
  <2>1. \A d : d \in Newest(B, 1) <=> d \in B /\ Cardinality(Later(B, d)) < 1
    BY DEF Newest
  <2>2. ASSUME NEW d \in T PROVE ~(Cardinality(Later(B, d)) < 1)
    <3>1. own \in Later(B, d)
      BY <1>1
    <3> HIDE DEF Later, B
    <3>2. Later(B, d) # {} /\ IsFiniteSet(Later(B, d)) /\ Cardinality(Later(B, d)) \in Nat
      BY <1>1, <1>2, <3>1
    <3>3. Cardinality(Later(B, d)) # 0
      BY <3>2, FS_EmptySet
    <3> QED BY <3>2, <3>3
  <2>3. own \in Newest(B, 1)
    <3>1. own \in B
      OBVIOUS
    <3> HIDE DEF Later, B
    <3> QED BY <1>4, <2>1, <3>1
  <2>4. \A d \in B : d = own \/ d \in T
    OBVIOUS
  <2> HIDE DEF Later, B
  <2> QED BY <2>1, <2>2, <2>3, <2>4
<1> HIDE DEF B, L
<1>11. Newest(B, k) = Newest(L, k)
  BY <1>8, <1>9
<1> QED BY <1>10, <1>11 DEF B, L

-----------------------------------------------------------------------------
(* What a request has to be for the invariant to hold when q turns to it.  *)
Fits(q, next) ==
    /\ next.step \in {"lock", "place", "commit"} => <<next.no, next.arc>> \in resolved'
    /\ (next.step # "idle" /\ next.new) => chapters[next.id] = NoChapter
    /\ \A r \in Pen \ {q} :
         /\ (next.step # "idle" /\ pen[r].step # "idle" /\ (next.new \/ pen[r].new))
              => pen[r].id # next.id
         /\ (next.step \in {"place", "commit"} /\ Writing(r)) => pen[r].id # next.id
         /\ (next.step = "commit" /\ pen[r].step = "commit") => pen[r].no # next.no
    /\ next.step = "commit" =>
         /\ \A c \in Chapter \ {next.id} : chapters[c].no # next.no
         /\ next.at <= moment' /\ \A d \in texts[next.id] : d.at < next.at
         /\ LET drafts == history[next.id] \cup {[text |-> next.text, at |-> next.at]}
            IN  next.doomed = drafts \ Newest(drafts, Keep)

(* A step that only moves one request on keeps the invariant if the        *)
(* request fits in.                                                        *)
LEMMA TurnKeeps ==
    ASSUME ManuscriptInv, NEW q \in Pen, NEW next \in {PenDown} \cup Sheets, Turn(q, next),
           UNCHANGED <<settings, chapters, history, texts>>, resolved \subseteq resolved',
           moment' \in Nat, moment <= moment', saves' \in Nat, Fits(q, next)
    PROVE  ManuscriptInv'
<1>1. /\ ManuscriptTypeOK' /\ pen'[q] = next
      /\ \A r \in Pen \ {q} : pen'[r] = pen[r]
  BY DEF ManuscriptInv, ManuscriptTypeOK, Turn
<1>2. ASSUME NEW r \in Pen PROVE Placed(r)'
  <2>1. CASE r = q
    <3>1. next.step \in {"lock", "place", "commit"} => <<next.no, next.arc>> \in resolved'
      BY DEF Fits
    <3>2. (next.step # "idle" /\ next.new) => chapters[next.id] = NoChapter
      BY DEF Fits
    <3>3. next.step = "commit" => \A c \in Chapter \ {next.id} : chapters[c].no # next.no
      BY DEF Fits
    <3>4. \A x \in Pen \ {q} :
            /\ (next.step # "idle" /\ pen[x].step # "idle" /\ (next.new \/ pen[x].new))
                 => pen[x].id # next.id
            /\ (next.step \in {"place", "commit"} /\ Writing(x)) => pen[x].id # next.id
            /\ (next.step = "commit" /\ pen[x].step = "commit") => pen[x].no # next.no
      BY DEF Fits
    <3> QED BY <1>1, <2>1, <3>1, <3>2, <3>3, <3>4 DEF Placed, Writing
  <2>2. CASE r # q
    <3>1. Placed(r)
      BY DEF ManuscriptInv
    <3>2. /\ (next.step # "idle" /\ pen[r].step # "idle" /\ (next.new \/ pen[r].new))
               => pen[r].id # next.id
          /\ (next.step \in {"place", "commit"} /\ Writing(r)) => pen[r].id # next.id
          /\ (next.step = "commit" /\ pen[r].step = "commit") => pen[r].no # next.no
      BY <2>2 DEF Fits
    <3> QED BY <1>1, <2>2, <3>1, <3>2 DEF Placed, Writing
  <2> QED BY <2>1, <2>2
<1>3. ASSUME NEW r \in Pen PROVE Stamped(r)'
  <2>1. CASE r = q
    <3>1. next.step = "commit" =>
            /\ next.at <= moment' /\ \A d \in texts[next.id] : d.at < next.at
            /\ LET drafts == history[next.id] \cup {[text |-> next.text, at |-> next.at]}
               IN  next.doomed = drafts \ Newest(drafts, Keep)
      BY DEF Fits
    <3> QED BY <1>1, <2>1, <3>1 DEF Stamped, Draft, Newest
  <2>2. CASE r # q
    <3>1. Stamped(r)
      BY DEF ManuscriptInv
    <3>2. pen'[r] = pen[r] /\ (pen[r].step = "commit" => pen[r].at \in Nat) /\ moment \in Nat
      BY <1>1, <2>2, Shapes DEF ManuscriptInv, ManuscriptTypeOK, Sheets
    <3> QED BY <3>1, <3>2 DEF Stamped, Draft, Newest
  <2> QED BY <2>1, <2>2
<1>4. ASSUME NEW c \in Chapter PROVE DraftsKept(c)'
  <2>1. DraftsKept(c) /\ moment \in Nat /\ \A d \in texts[c] : d.at \in Nat
    BY DEF ManuscriptInv, ManuscriptTypeOK, Drafts
  <2> QED BY <2>1 DEF DraftsKept
<1>5. HistoryKeepsNewest' /\ PlacedTogether'
  BY DEF ManuscriptInv, HistoryKeepsNewest, PlacedTogether, Newest
<1> QED BY <1>1, <1>2, <1>3, <1>4, <1>5 DEF ManuscriptInv

-----------------------------------------------------------------------------
(* CreateChapter before its transaction.                                   *)
LEMMA CreateStep ==
    ASSUME ManuscriptInv, NEW q \in Pen, NEW c \in Chapter, NEW n \in Number, NEW p \in Price,
           CreateChapter(q, c, n, p)
    PROVE  ManuscriptInv'
<1>1. PICK next : next = Sent(TRUE, c, n, PriceFor(n, p), "arcs", {})
  OBVIOUS
<1>2. PriceFor(n, p) \in Nat
  BY ManuscriptAssumption DEF ManuscriptInv, ManuscriptTypeOK, PriceFor
<1>3. /\ next \in Sheets /\ next.step = "arcs" /\ next.new /\ next.id = c
  BY <1>1, <1>2 DEF ManuscriptInv, ManuscriptTypeOK, Sent, Sheets
<1>4. /\ Turn(q, next) /\ saves' = saves + 1 /\ chapters[c] = NoChapter
      /\ \A r \in Pen : pen[r].step # "idle" => pen[r].id # c
      /\ UNCHANGED <<settings, arcs, chapters, history, texts, resolved, moment>>
  BY <1>1 DEF CreateChapter, Start
<1>5. Fits(q, next)
  BY <1>3, <1>4 DEF Fits
<1>6. moment' \in Nat /\ moment <= moment' /\ saves' \in Nat
  BY <1>4 DEF ManuscriptInv, ManuscriptTypeOK
<1> QED BY <1>3, <1>4, <1>5, <1>6, TurnKeeps

(* SaveChapter before its transaction.                                     *)
LEMMA SaveStep ==
    ASSUME ManuscriptInv, NEW q \in Pen, NEW c \in Chapter, NEW n \in Number \cup {0},
           NEW p \in Price, SaveChapter(q, c, n, p)
    PROVE  ManuscriptInv'
<1>1. PICK next : /\ Turn(q, next)
                  /\ IF n \in {0, chapters[c].no}
                     THEN next = Sent(FALSE, c, chapters[c].no, p, "lock", chapters[c].arc)
                     ELSE next = Sent(FALSE, c, n, p, "arcs", {})
  BY DEF SaveChapter, Start
<1>2. /\ chapters[c] # NoChapter /\ saves' = saves + 1
      /\ UNCHANGED <<settings, arcs, chapters, history, texts, resolved, moment>>
  BY DEF SaveChapter, Start
<1>3. chapters[c] \in Rows /\ <<chapters[c].no, chapters[c].arc>> \in resolved
  BY <1>2, Shapes DEF ManuscriptInv, PlacedTogether
<1>4. p \in Nat /\ saves + 1 \in Nat
  BY ManuscriptAssumption DEF ManuscriptInv, ManuscriptTypeOK
<1>5. /\ next \in Sheets /\ ~next.new /\ next.id = c
      /\ \/ next.step = "lock" /\ next.no = chapters[c].no /\ next.arc = chapters[c].arc
         \/ next.step = "arcs"
  <2>1. CASE n \in {0, chapters[c].no}
    <3>1. PICK m \in Number, a \in SUBSET Arc : m = chapters[c].no /\ a = chapters[c].arc
      BY <1>3 DEF Rows
    <3>2. next = Sent(FALSE, c, m, p, "lock", a)
      BY <1>1, <2>1, <3>1
    <3> QED BY <1>4, <3>1, <3>2 DEF Sent, Sheets
  <2>2. CASE n \notin {0, chapters[c].no}
    <3>1. next = Sent(FALSE, c, n, p, "arcs", {}) /\ n \in Number
      BY <1>1, <2>2
    <3> QED BY <1>4, <3>1 DEF Sent, Sheets
  <2> QED BY <2>1, <2>2
<1>6. \A r \in Pen : (pen[r].step # "idle" /\ pen[r].new) => pen[r].id # c
  BY <1>2 DEF ManuscriptInv, Placed
<1>7. Fits(q, next)
  BY <1>2, <1>3, <1>5, <1>6 DEF Fits
<1>8. moment' \in Nat /\ moment <= moment' /\ saves' \in Nat
  BY <1>2, <1>4 DEF ManuscriptInv, ManuscriptTypeOK
<1> QED BY <1>1, <1>2, <1>5, <1>7, <1>8, TurnKeeps

(* ResolveArcID is right when it is read: the pair is remembered as        *)
(* resolved.                                                               *)
LEMMA ReadArcsStep ==
    ASSUME ManuscriptInv, NEW q \in Pen, ReadArcs(q) PROVE ManuscriptInv'
<1>1. PICK arc : arc = ResolveArcID(pen[q].no)
  OBVIOUS
<1>2. PICK next : next = [pen[q] EXCEPT !.arc = arc, !.step = "lock"]
  OBVIOUS
<1>3. /\ Turn(q, next) /\ resolved' = resolved \cup {<<pen[q].no, arc>>} /\ pen[q].step = "arcs"
      /\ UNCHANGED <<settings, arcs, chapters, history, texts, moment, saves>>
  BY <1>1, <1>2 DEF ReadArcs
<1>4. pen[q] \in Sheets /\ arc \in SUBSET Arc
  BY <1>1, <1>3, Shapes DEF ManuscriptInv, ResolveArcID
<1>5. /\ next \in Sheets /\ next.step = "lock" /\ next.arc = arc
      /\ next.new = pen[q].new /\ next.id = pen[q].id /\ next.no = pen[q].no
  BY <1>2, <1>4 DEF Sheets
<1>6. Placed(q) /\ \A r \in Pen : Placed(r)
  BY DEF ManuscriptInv
<1>9. ASSUME NEW r \in Pen \ {q}
      PROVE  /\ (next.step # "idle" /\ pen[r].step # "idle" /\ (next.new \/ pen[r].new))
                  => pen[r].id # next.id
             /\ (next.step \in {"place", "commit"} /\ Writing(r)) => pen[r].id # next.id
  <2>1. /\ (pen[r].step # "idle" /\ pen[q].new) => pen[r].id # pen[q].id
        /\ (pen[r].step # "idle" /\ pen[r].new) => pen[r].id # pen[q].id
    BY <1>3, <1>6 DEF Placed
  <2> QED BY <1>5, <2>1
<1>7. Fits(q, next)
  BY <1>3, <1>5, <1>6, <1>9 DEF Fits, Placed
<1>8. moment' \in Nat /\ moment <= moment' /\ saves' \in Nat
  BY <1>3 DEF ManuscriptInv, ManuscriptTypeOK
<1> QED BY <1>3, <1>5, <1>7, <1>8, TurnKeeps

(* LockForSave makes the chapter the request's own.                        *)
LEMMA LockStep ==
    ASSUME ManuscriptInv, NEW q \in Pen, LockRow(q) PROVE ManuscriptInv'
<1>1. PICK next : next = [pen[q] EXCEPT !.step = "place"]
  OBVIOUS
<1>2. /\ Turn(q, next) /\ pen[q].step = "lock" /\ ~Locked(q)
      /\ UNCHANGED <<settings, arcs, chapters, history, texts, resolved, moment, saves>>
  BY <1>1 DEF LockRow
<1>3. pen[q] \in Sheets
  BY <1>2, Shapes DEF ManuscriptInv
<1>4. /\ next \in Sheets /\ next.step = "place" /\ next.arc = pen[q].arc
      /\ next.new = pen[q].new /\ next.id = pen[q].id /\ next.no = pen[q].no
  BY <1>1, <1>3 DEF Sheets
<1>5. \A r \in Pen : Placed(r)
  BY DEF ManuscriptInv
<1>9. ASSUME NEW r \in Pen \ {q}
      PROVE  /\ (next.step # "idle" /\ pen[r].step # "idle" /\ (next.new \/ pen[r].new))
                  => pen[r].id # next.id
             /\ (next.step \in {"place", "commit"} /\ Writing(r)) => pen[r].id # next.id
  <2>1. /\ (pen[r].step # "idle" /\ pen[q].new) => pen[r].id # pen[q].id
        /\ (pen[r].step # "idle" /\ pen[r].new) => pen[r].id # pen[q].id
    BY <1>2, <1>5 DEF Placed
  <2> QED BY <1>2, <1>4, <2>1 DEF Locked, Holds
<1>6. Fits(q, next)
  BY <1>2, <1>4, <1>5, <1>9 DEF Fits, Placed
<1>7. moment' \in Nat /\ moment <= moment' /\ saves' \in Nat
  BY <1>2 DEF ManuscriptInv, ManuscriptTypeOK
<1> QED BY <1>2, <1>4, <1>6, <1>7, TurnKeeps

(* A request that ends without a trace.                                    *)
LEMMA PutDown ==
    ASSUME ManuscriptInv, NEW q \in Pen, Turn(q, PenDown),
           UNCHANGED <<settings, arcs, chapters, history, texts, resolved, moment, saves>>
    PROVE  ManuscriptInv'
<1>1. Fits(q, PenDown)
  BY DEF Fits, PenDown
<1>2. moment' \in Nat /\ moment <= moment' /\ saves' \in Nat
  BY DEF ManuscriptInv, ManuscriptTypeOK
<1>3. PICK next : next = PenDown
  OBVIOUS
<1>4. next \in {PenDown} \cup Sheets /\ Turn(q, next) /\ Fits(q, next)
  BY <1>1, <1>3
<1> QED BY <1>2, <1>4, TurnKeeps

(* The unique index admits one request for a number.                       *)
LEMMA PlaceStep ==
    ASSUME ManuscriptInv, NEW q \in Pen, Place(q) PROVE ManuscriptInv'
<1>1. CASE Taken(q)
  BY <1>1, PutDown DEF Place
<1>2. CASE ~Taken(q)
  <2>1. PICK next : next = [pen[q] EXCEPT !.step = "commit", !.at = moment + 1,
                                          !.doomed = Doomed(q, moment + 1)]
    OBVIOUS
  <2>2. /\ Turn(q, next) /\ pen[q].step = "place" /\ \A r \in Pen : ~InDoubt(q, r)
        /\ moment' = moment + 1
        /\ UNCHANGED <<settings, arcs, chapters, history, texts, resolved, saves>>
    BY <1>2, <2>1 DEF Place
  <2>3. pen[q] \in Sheets /\ moment \in Nat /\ moment + 1 \in Nat
    BY <2>2, Shapes DEF ManuscriptInv, ManuscriptTypeOK
  <2>4. /\ pen[q].id \in Chapter /\ pen[q].text \in Nat
        /\ history[pen[q].id] \in SUBSET Drafts
    BY <2>3 DEF Sheets, ManuscriptInv, ManuscriptTypeOK
  <2>5. Doomed(q, moment + 1) \in SUBSET Drafts
    BY <2>3, <2>4 DEF Doomed, Drafts
  <2>6. /\ next \in Sheets /\ next.step = "commit" /\ next.arc = pen[q].arc
        /\ next.new = pen[q].new /\ next.id = pen[q].id /\ next.no = pen[q].no
        /\ next.text = pen[q].text /\ next.at = moment + 1 /\ next.doomed = Doomed(q, moment + 1)
    BY <2>1, <2>3, <2>5 DEF Sheets
  <2>7. \A r \in Pen : Placed(r)
    BY DEF ManuscriptInv
  <2>8. /\ next.step \in {"lock", "place", "commit"} => <<next.no, next.arc>> \in resolved'
        /\ (next.step # "idle" /\ next.new) => chapters[next.id] = NoChapter
    BY <2>2, <2>6, <2>7 DEF Placed
  <2>9. ASSUME NEW r \in Pen \ {q}
        PROVE  /\ (next.step # "idle" /\ pen[r].step # "idle" /\ (next.new \/ pen[r].new))
                    => pen[r].id # next.id
               /\ (next.step \in {"place", "commit"} /\ Writing(r)) => pen[r].id # next.id
               /\ (next.step = "commit" /\ pen[r].step = "commit") => pen[r].no # next.no
    <3>1. /\ (pen[r].step # "idle" /\ pen[q].new) => pen[r].id # pen[q].id
          /\ (pen[r].step # "idle" /\ pen[r].new) => pen[r].id # pen[q].id
          /\ Writing(r) => pen[r].id # pen[q].id
      BY <2>2, <2>7 DEF Placed, Writing
    <3>2. pen[r].step = "commit" => pen[r].no # pen[q].no
      BY <2>2, <3>1 DEF InDoubt, Writing
    <3> QED BY <2>6, <3>1, <3>2
  <2>10. /\ \A c \in Chapter \ {next.id} : chapters[c].no # next.no
         /\ next.at <= moment' /\ \A d \in texts[next.id] : d.at < next.at
    <3>1. \A d \in texts[pen[q].id] : d.at <= moment /\ d.at \in Nat
      BY <2>4 DEF ManuscriptInv, ManuscriptTypeOK, DraftsKept, Drafts
    <3> QED BY <1>2, <2>2, <2>3, <2>6, <3>1 DEF Taken
  <2>11. LET drafts == history[next.id] \cup {[text |-> next.text, at |-> next.at]}
         IN  next.doomed = drafts \ Newest(drafts, Keep)
    BY <2>6 DEF Doomed
  <2>12. Fits(q, next)
    BY <2>8, <2>9, <2>10, <2>11 DEF Fits
  <2>13. moment' \in Nat /\ moment <= moment' /\ saves' \in Nat
    BY <2>2, <2>3 DEF ManuscriptInv, ManuscriptTypeOK
  <2> QED BY <2>2, <2>6, <2>12, <2>13, TurnKeeps
<1> QED BY <1>1, <1>2

-----------------------------------------------------------------------------
(* What is written by a request that commits, creation or save.            *)
Commits(q, c, row, own) ==
    /\ q \in Pen /\ pen[q].step = "commit" /\ c = pen[q].id /\ row = Written(q) /\ own = Draft(q)
    /\ chapters' = [chapters EXCEPT ![c] = row]
    /\ Turn(q, PenDown)
    /\ UNCHANGED <<settings, arcs, resolved, moment, saves>>
    /\ \/ pen[q].new /\ UNCHANGED <<history, texts>>
       \/ /\ ~pen[q].new
          /\ history' = [history EXCEPT ![c] = (@ \cup {own}) \ pen[q].doomed]
          /\ texts' = [texts EXCEPT ![c] = @ \cup {own}]

(* What is written is of the tables' types.                                *)
LEMMA CommitTypes ==
    ASSUME ManuscriptInv, NEW q, NEW c, NEW row, NEW own, Commits(q, c, row, own)
    PROVE  /\ c \in Chapter /\ row \in Rows /\ own \in Drafts /\ pen[q] \in Sheets
           /\ row.no = pen[q].no /\ row.arc = pen[q].arc /\ row.text = pen[q].text /\ row # NoChapter
           /\ own.text = pen[q].text /\ own.at = pen[q].at
           /\ chapters'[c] = row /\ \A d \in Chapter \ {c} : chapters'[d] = chapters[d]
           /\ pen'[q] = PenDown /\ \A r \in Pen \ {q} : pen'[r] = pen[r]
           /\ \A d \in Chapter \ {c} : history'[d] = history[d] /\ texts'[d] = texts[d]
           /\ ManuscriptTypeOK'
<1>1. pen[q] \in Sheets /\ q \in Pen
  BY Shapes DEF ManuscriptInv, Commits
<1>2. c \in Chapter
  BY <1>1 DEF Commits, Sheets
<1>3. row \in Rows /\ row.no = pen[q].no /\ row.arc = pen[q].arc /\ row.text = pen[q].text
  BY <1>1 DEF Commits, Written, Sheets, Rows
<1>4. own \in Drafts /\ own.text = pen[q].text /\ own.at = pen[q].at
  BY <1>1 DEF Commits, Draft, Sheets, Drafts
<1>5. row # NoChapter
  BY <1>3, Shapes DEF ManuscriptInv
<1>6. /\ chapters'[c] = row /\ \A d \in Chapter \ {c} : chapters'[d] = chapters[d]
      /\ chapters' \in [Chapter -> {NoChapter} \cup Rows]
  BY <1>2, <1>3 DEF Commits, ManuscriptInv, ManuscriptTypeOK
<1>7. /\ pen'[q] = PenDown /\ \A r \in Pen \ {q} : pen'[r] = pen[r]
      /\ pen' \in [Pen -> {PenDown} \cup Sheets]
  BY <1>1 DEF Commits, Turn, ManuscriptInv, ManuscriptTypeOK
<1>8. /\ \A d \in Chapter \ {c} : history'[d] = history[d] /\ texts'[d] = texts[d]
      /\ history' \in [Chapter -> SUBSET Drafts] /\ texts' \in [Chapter -> SUBSET Drafts]
  BY <1>2, <1>4 DEF Commits, ManuscriptInv, ManuscriptTypeOK
<1> QED BY <1>1, <1>2, <1>3, <1>4, <1>5, <1>6, <1>7, <1>8
        DEF Commits, ManuscriptInv, ManuscriptTypeOK

(* The others' requests still fit in.                                      *)
LEMMA CommitPens ==
    ASSUME ManuscriptInv, NEW q, NEW c, NEW row, NEW own, Commits(q, c, row, own), NEW r \in Pen
    PROVE  Placed(r)' /\ Stamped(r)'
<1>1. CASE r = q
  <2>1. pen'[r].step = "idle"
    BY <1>1, CommitTypes DEF PenDown
  <2> QED BY <2>1 DEF Placed, Stamped, Writing
<1>2. CASE r # q
  <2>1. Placed(r) /\ Stamped(r) /\ Placed(q)
    BY DEF ManuscriptInv, Commits
  <2>2. /\ pen[q].step = "commit" /\ q \in Pen /\ c = pen[q].id
        /\ UNCHANGED <<resolved, moment>>
    BY DEF Commits
  <2>3. /\ pen'[r] = pen[r] /\ pen'[q].step = "idle" /\ chapters'[c].no = pen[q].no
        /\ \A x \in Pen \ {q} : pen'[x] = pen[x]
        /\ \A d \in Chapter \ {c} : chapters'[d] = chapters[d]
        /\ \A d \in Chapter \ {c} : history'[d] = history[d] /\ texts'[d] = texts[d]
    BY <1>2, CommitTypes DEF PenDown
  <2>4. /\ (pen[r].step # "idle" /\ pen[r].new) => pen[r].id # c
        /\ pen[r].step = "commit" => pen[r].id # c /\ pen[r].no # pen[q].no
    BY <1>2, <2>1, <2>2 DEF Placed, Writing
  <2>5. pen[r].step # "idle" => pen[r].id \in Chapter
    BY Shapes DEF ManuscriptInv, Sheets
  <2>6. Placed(r)'
    <3>1. (pen[r].step # "idle" /\ pen[r].new) => chapters'[pen[r].id] = NoChapter
      BY <2>1, <2>3, <2>4, <2>5 DEF Placed
    <3>2. pen[r].step = "commit" =>
            \A d \in Chapter \ {pen[r].id} : chapters'[d].no # pen[r].no
      BY <2>1, <2>3, <2>4 DEF Placed
    <3>3. \A x \in Pen : pen'[x] = pen[x] \/ pen'[x].step = "idle"
      BY <2>3
    <3> QED BY <2>1, <2>2, <2>3, <3>1, <3>2, <3>3 DEF Placed, Writing
  <2>7. Stamped(r)'
    BY <2>1, <2>2, <2>3, <2>4, <2>5 DEF Stamped, Draft, Newest
  <2> QED BY <2>6, <2>7
<1> QED BY <1>1, <1>2

(* Numbers and arcs that were resolved together are written together.      *)
LEMMA CommitPlaces ==
    ASSUME ManuscriptInv, NEW q, NEW c, NEW row, NEW own, Commits(q, c, row, own)
    PROVE  PlacedTogether'
<1>1. /\ Placed(q) /\ pen[q].step = "commit" /\ c = pen[q].id /\ resolved' = resolved
      /\ PlacedTogether
  BY DEF ManuscriptInv, Commits
<1>2. /\ c \in Chapter /\ chapters'[c].no = pen[q].no /\ chapters'[c].arc = pen[q].arc
      /\ \A d \in Chapter \ {c} : chapters'[d] = chapters[d]
  BY CommitTypes
<1>3. <<chapters'[c].no, chapters'[c].arc>> \in resolved'
  BY <1>1, <1>2 DEF Placed
<1>4. \A d \in Chapter \ {c} : chapters'[d].no # chapters'[c].no
  BY <1>1, <1>2 DEF Placed
<1> QED BY <1>1, <1>2, <1>3, <1>4 DEF PlacedTogether

(* The draft joins a history of the newest, and the pruned history is      *)
(* again of the newest.                                                    *)
LEMMA CommitDrafts ==
    ASSUME ManuscriptInv, NEW q, NEW c, NEW row, NEW own, Commits(q, c, row, own),
           NEW d \in Chapter
    PROVE  /\ DraftsKept(d)' /\ history'[d] = Newest(texts'[d], Keep)
           /\ \A e \in Newest(texts'[d], 1) : chapters'[d].text = e.text
<1>1. /\ DraftsKept(d) /\ history[d] = Newest(texts[d], Keep) /\ moment' = moment
      /\ \A e \in Newest(texts[d], 1) : chapters[d].text = e.text
      /\ pen[q].step = "commit" /\ c = pen[q].id /\ Placed(q) /\ Stamped(q)
  BY DEF ManuscriptInv, HistoryKeepsNewest, Commits
<1>2. /\ c \in Chapter /\ own \in Drafts /\ row # NoChapter
      /\ chapters'[c] = row /\ row.text = own.text /\ own.at = pen[q].at
  BY CommitTypes
<1>3. CASE d # c
  <2>1. chapters'[d] = chapters[d] /\ history'[d] = history[d] /\ texts'[d] = texts[d]
    BY <1>3, CommitTypes
  <2> QED BY <1>1, <2>1 DEF DraftsKept
<1>4. CASE d = c /\ pen[q].new
  <2>1. chapters[c] = NoChapter
    BY <1>1, <1>4 DEF Placed
  <2>2. UNCHANGED <<history, texts>>
    BY <1>4 DEF Commits
  <2>3. texts[c] = {}
    BY <1>1, <1>4, <2>1 DEF DraftsKept
  <2>4. Newest({}, 1) = {}
    BY DEF Newest
  <2> QED BY <1>1, <1>2, <1>4, <2>2, <2>3, <2>4 DEF DraftsKept
<1>5. CASE d = c /\ ~pen[q].new
  <2>1. /\ texts'[c] = texts[c] \cup {own}
        /\ history'[c] = (history[c] \cup {own}) \ pen[q].doomed
    BY <1>2, <1>5 DEF Commits, ManuscriptInv, ManuscriptTypeOK
  <2>2. own = Draft(q)
    BY DEF Commits
  <2>3. /\ pen[q].at <= moment /\ \A e \in texts[c] : e.at < own.at
        /\ pen[q].doomed = (history[c] \cup {own}) \ Newest(history[c] \cup {own}, Keep)
    BY <1>1, <1>2, <2>2 DEF Stamped
  <2>4. /\ texts[c] \in SUBSET Drafts /\ IsFiniteSet(texts[c]) /\ Keep \in Nat \ {0}
    BY <1>1, <1>2, <1>5, ManuscriptAssumption DEF ManuscriptInv, ManuscriptTypeOK, DraftsKept
  <2>5. /\ Newest(texts[c] \cup {own}, Keep) = Newest(Newest(texts[c], Keep) \cup {own}, Keep)
        /\ Newest(texts[c] \cup {own}, 1) = {own}
    BY <1>2, <2>3, <2>4, NewestAfter
  <2>6. Newest(history[c] \cup {own}, Keep) \subseteq history[c] \cup {own}
    BY DEF Newest
  <2>7. history'[c] = Newest(texts'[c], Keep)
    BY <1>1, <1>5, <2>1, <2>3, <2>5, <2>6
  <2>8. \A e \in Newest(texts'[c], 1) : chapters'[c].text = e.text
    BY <1>2, <2>1, <2>5
  <2>9. DraftsKept(c)'
    <3>1. IsFiniteSet(texts'[c])
      BY <2>1, <2>4, FS_AddElement
    <3> QED BY <1>1, <1>2, <1>5, <2>1, <2>3, <3>1 DEF DraftsKept
  <2> QED BY <1>5, <2>7, <2>8, <2>9
<1> QED BY <1>3, <1>4, <1>5

(* A commit keeps the invariant.                                           *)
LEMMA CommitKeeps ==
    ASSUME ManuscriptInv, NEW q, NEW c, NEW row, NEW own, Commits(q, c, row, own)
    PROVE  ManuscriptInv'
<1>1. HistoryKeepsNewest'
  <2>1. \A d \in Chapter : /\ history'[d] = Newest(texts'[d], Keep)
                           /\ \A e \in Newest(texts'[d], 1) : chapters'[d].text = e.text
    BY CommitDrafts
  <2> QED BY <2>1 DEF HistoryKeepsNewest, Newest
<1> QED BY <1>1, CommitTypes, CommitPens, CommitPlaces, CommitDrafts DEF ManuscriptInv

(* The invariant holds in every state.                                     *)
LEMMA ManuscriptHolds == ManuscriptSpec => []ManuscriptInv
<1>1. ManuscriptInit => ManuscriptInv
  <2> SUFFICES ASSUME ManuscriptInit PROVE ManuscriptInv
    OBVIOUS
  <2>1. PICK c \in Chapter, n \in Number :
          /\ chapters = [d \in Chapter |-> IF d = c
                           THEN [no |-> n, arc |-> ResolveArcID(n), price |-> 0, text |-> 0]
                           ELSE NoChapter]
          /\ resolved = {<<n, ResolveArcID(n)>>}
    BY DEF ManuscriptInit
  <2>2. PICK a \in SUBSET Arc : a = ResolveArcID(n)
    BY DEF ResolveArcID
  <2>3. /\ chapters[c] = [no |-> n, arc |-> a, price |-> 0, text |-> 0] /\ chapters[c] \in Rows
        /\ \A d \in Chapter \ {c} : chapters[d] = NoChapter
        /\ chapters \in [Chapter -> {NoChapter} \cup Rows]
    BY <2>1, <2>2 DEF Rows
  <2>4. /\ history = [d \in Chapter |-> {}] /\ texts = [d \in Chapter |-> {}]
        /\ pen = [q \in Pen |-> PenDown] /\ moment = 0 /\ saves = 0
        /\ settings \in [price : {0, 2}, free : {0, 1}]
    BY DEF ManuscriptInit
  <2>5. ManuscriptTypeOK
    BY <2>3, <2>4 DEF ManuscriptTypeOK
  <2>6. PlacedTogether
    BY <2>1, <2>2, <2>3, <2>5, Shapes DEF PlacedTogether
  <2>7. Newest({}, Keep) = {} /\ Newest({}, 1) = {}
    BY DEF Newest
  <2>8. HistoryKeepsNewest /\ \A d \in Chapter : DraftsKept(d)
    BY <2>4, <2>7, FS_EmptySet DEF HistoryKeepsNewest, DraftsKept
  <2>9. \A q \in Pen : pen[q].step = "idle"
    BY <2>4 DEF PenDown
  <2>10. \A q \in Pen : Placed(q) /\ Stamped(q)
    BY <2>9 DEF Placed, Stamped, Writing
  <2> QED BY <2>5, <2>6, <2>8, <2>10 DEF ManuscriptInv
<1>2. ManuscriptInv /\ [ManuscriptNext]_manuscriptVars => ManuscriptInv'
  <2> SUFFICES ASSUME ManuscriptInv, [ManuscriptNext]_manuscriptVars PROVE ManuscriptInv'
    OBVIOUS
  <2>1. ASSUME NEW q \in Pen, NEW c \in Chapter, NEW p \in Price, NEW n \in Number,
               CreateChapter(q, c, n, p)
        PROVE  ManuscriptInv'
    BY <2>1, CreateStep
  <2>2. ASSUME NEW q \in Pen, NEW c \in Chapter, NEW p \in Price, NEW n \in Number \cup {0},
               SaveChapter(q, c, n, p)
        PROVE  ManuscriptInv'
    BY <2>2, SaveStep
  <2>3. ASSUME NEW q \in Pen, ReadArcs(q) PROVE ManuscriptInv'
    BY <2>3, ReadArcsStep
  <2>4. ASSUME NEW q \in Pen, LockRow(q) PROVE ManuscriptInv'
    BY <2>4, LockStep
  <2>5. ASSUME NEW q \in Pen, Place(q) PROVE ManuscriptInv'
    BY <2>5, PlaceStep
  <2>6. ASSUME NEW q \in Pen, CommitCreate(q) \/ CommitSave(q) PROVE ManuscriptInv'
    <3>1. PICK c, row, own : c = pen[q].id /\ row = Written(q) /\ own = Draft(q)
      OBVIOUS
    <3>2. Commits(q, c, row, own)
      BY <2>6, <3>1 DEF CommitCreate, CommitSave, Commits
    <3> QED BY <3>2, CommitKeeps
  <2>7. ASSUME NEW q \in Pen, RolledBack(q) PROVE ManuscriptInv'
    BY <2>7, PutDown DEF RolledBack
  <2>8. ASSUME UNCHANGED <<chapters, history, pen, texts, resolved, moment>>,
               settings' \in [price : Nat, free : {0, 1}], saves' \in Nat
        PROVE  ManuscriptInv'
    <3>1. ManuscriptTypeOK'
      BY <2>8 DEF ManuscriptInv, ManuscriptTypeOK
    <3>2. \A q \in Pen : Placed(q)' /\ Stamped(q)'
      BY <2>8 DEF ManuscriptInv, Placed, Stamped, Draft, Newest, Writing
    <3>3. /\ \A c \in Chapter : DraftsKept(c)'
          /\ HistoryKeepsNewest' /\ PlacedTogether'
      BY <2>8 DEF ManuscriptInv, DraftsKept, HistoryKeepsNewest, PlacedTogether, Newest
    <3> QED BY <3>1, <3>2, <3>3 DEF ManuscriptInv
  <2>9. ASSUME NEW p \in Price, NEW f \in {0, 1}, UpdateNovel(p, f) PROVE ManuscriptInv'
    BY <2>8, <2>9, ManuscriptAssumption DEF UpdateNovel, ManuscriptInv, ManuscriptTypeOK
  <2>10. ASSUME NEW a \in Arc, NEW m \in Number, NEW n \in Number, UpdateArc(a, m, n)
         PROVE  ManuscriptInv'
    BY <2>8, <2>10 DEF UpdateArc, ManuscriptInv, ManuscriptTypeOK
  <2>11. CASE UNCHANGED manuscriptVars
    BY <2>8, <2>11 DEF manuscriptVars, ManuscriptInv, ManuscriptTypeOK
  <2> QED BY <2>1, <2>2, <2>3, <2>4, <2>5, <2>6, <2>7, <2>9, <2>10, <2>11 DEF ManuscriptNext
<1> QED BY <1>1, <1>2, PTL DEF ManuscriptSpec

(* However many translators save the same chapter at once, its history is  *)
(* the newest drafts by saved_at, as many as are kept, and its text is the *)
(* newest of them: pruning counts under the lock of the row.               *)
THEOREM HistoryKeepsNewestCorrect == ManuscriptSpec => []HistoryKeepsNewest
<1>1. ManuscriptInv => HistoryKeepsNewest
  BY DEF ManuscriptInv
<1> QED BY <1>1, ManuscriptHolds, PTL

(* A chapter's number and arc are always a pair that ResolveArcID has      *)
(* answered, whichever edits of chapters and arcs meet.                    *)
THEOREM PlacedTogetherCorrect == ManuscriptSpec => []PlacedTogether
<1>1. ManuscriptInv => PlacedTogether
  BY DEF ManuscriptInv
<1> QED BY <1>1, ManuscriptHolds, PTL

(***************************************************************************)
(* Bundles.  Rounding every share down leaves fewer coins over than there  *)
(* are shares with a remainder, so the chapters that are rounded up exist, *)
(* are as many as the coins left over, and each has a remainder.           *)
(***************************************************************************)
LEMMA DivMod ==
    ASSUME NEW a \in Nat, NEW b \in Nat \ {0}
    PROVE  /\ a \div b \in Nat /\ a % b \in 0 .. b - 1
           /\ a = b * (a \div b) + (a % b)
  OBVIOUS

(* A total to split, no larger than the weights together.                  *)
Splittable(w, total) ==
    /\ IsFiniteSet(DOMAIN w)
    /\ \A c \in DOMAIN w : w[c] \in Nat \ {0}
    /\ total \in 1 .. SumFunction(w)

LEMMA FloorFacts ==
    ASSUME NEW w, NEW total, Splittable(w, total), NEW c \in DOMAIN w
    PROVE  /\ SumFunction(w) \in Nat \ {0} /\ total \in Nat \ {0}
           /\ Floor(w, total)[c] \in Nat
           /\ Remainder(w, total)[c] \in 0 .. SumFunction(w) - 1
           /\ w[c] * total = SumFunction(w) * Floor(w, total)[c] + Remainder(w, total)[c]
           /\ Floor(w, total)[c] <= w[c]
           /\ Remainder(w, total)[c] > 0 => Floor(w, total)[c] < w[c]
<1> DEFINE W == SumFunction(w)
           q == Floor(w, total)[c]
           r == Remainder(w, total)[c]
<1>1. W \in Nat
  BY SumIsNat DEF Splittable, SumFunction
<1>2. total \in 1 .. W /\ w[c] \in Nat \ {0}
  BY DEF Splittable
<1>3. q = (w[c] * total) \div W /\ r = (w[c] * total) % W
  BY DEF Floor, Remainder
<1> HIDE DEF W, q, r
<1>4. W \in Nat \ {0} /\ total \in Nat \ {0}
  BY ONLY <1>1, <1>2
<1>5. w[c] * total \in Nat
  BY ONLY <1>2, <1>4
<1>6. q \in Nat /\ r \in 0 .. W - 1 /\ w[c] * total = W * q + r
  BY ONLY <1>3, <1>4, <1>5, DivMod
<1>7. w[c] * total <= W * w[c]
  BY ONLY <1>1, <1>2
<1>8. W * q + r <= W * w[c]
  BY ONLY <1>6, <1>7
<1>9. q <= w[c] /\ (r > 0 => q < w[c])
  <2>1. PICK p \in Nat : p = w[c]
    BY <1>2
  <2>2. W * q + r <= W * p
    BY <1>8, <2>1
  <2>3. ASSUME q >= p + 1 PROVE FALSE
    <3>1. W * q >= W * p + W
      BY ONLY <1>4, <1>6, <2>1, <2>3
    <3> QED BY ONLY <1>4, <1>6, <2>1, <2>2, <3>1
  <2>4. ASSUME q = p, r > 0 PROVE FALSE
    BY ONLY <1>4, <1>6, <2>1, <2>2, <2>4
  <2> QED BY ONLY <1>6, <2>1, <2>3, <2>4
<1> QED BY <1>4, <1>6, <1>9 DEF W, q, r

Left(w, total) == total - SumFunction(Floor(w, total))

HasRemainder(w, total) == {c \in DOMAIN w : Remainder(w, total)[c] > 0}

LEMMA HasRemainderIsRoundable ==
    ASSUME NEW w, NEW total, Splittable(w, total)
    PROVE  /\ HasRemainder(w, total) \subseteq Roundable(w, total)
           /\ IsFiniteSet(Roundable(w, total)) /\ IsFiniteSet(HasRemainder(w, total))
<1>1. HasRemainder(w, total) \subseteq Roundable(w, total)
  BY FloorFacts DEF HasRemainder, Roundable
<1>2. Roundable(w, total) \subseteq DOMAIN w /\ IsFiniteSet(DOMAIN w)
  BY DEF Roundable, Splittable
<1> QED BY <1>1, <1>2, FS_Subset

(* The remainders add up to the left-over coins, each worth all weights.   *)
LEMMA LeftOver ==
    ASSUME NEW w, NEW total, Splittable(w, total), DOMAIN w # {}
    PROVE  /\ SumFunction(Floor(w, total)) \in Nat
           /\ Left(w, total) \in 0 .. Cardinality(HasRemainder(w, total))
<1> DEFINE P == DOMAIN w
           W == SumFunction(w)
           q == Floor(w, total)
           r == Remainder(w, total)
           one == [c \in P |-> IF r[c] > 0 THEN 1 ELSE 0]
           most == [c \in P |-> W * one[c]]
           scaled == [c \in P |-> total * w[c]]
<1>1. \A c \in P : /\ W \in Nat \ {0} /\ total \in Nat \ {0}
                  /\ q[c] \in Nat /\ r[c] \in 0 .. W - 1 /\ w[c] \in Nat
                  /\ w[c] * total = W * q[c] + r[c]
  BY FloorFacts DEF Splittable
<1>2. W \in Nat \ {0} /\ total \in Nat \ {0} /\ IsFiniteSet(P)
  BY <1>1 DEF Splittable
<1>3. DOMAIN q = P /\ DOMAIN r = P
  BY DEF Floor, Remainder
<1>a. W = SumFunctionOnSet(w, P) /\ SumFunction(q) = SumFunctionOnSet(q, P)
  BY <1>3 DEF SumFunction
<1>b. \A c \in P : one[c] \in {0, 1} /\ (one[c] = 1 <=> r[c] > 0)
  OBVIOUS
<1>c. {c \in P : one[c] = 1} = HasRemainder(w, total)
  BY <1>b DEF HasRemainder
<1>d. \A c \in P : scaled[c] = total * w[c] /\ most[c] = W * one[c]
  OBVIOUS
<1> HIDE DEF P, W, q, r, one, most, scaled
<1>4. \A c \in P : r[c] \in Int /\ r[c] = total * w[c] + (0 - W) * q[c]
  <2> TAKE c \in P
  <2>1. PICK a \in Nat, x \in Nat, y \in Nat : a = w[c] /\ x = q[c] /\ y = r[c]
    BY <1>1, <1>2
  <2>2. a * total = W * x + y
    BY <1>1, <2>1
  <2>3. total * a = a * total /\ (0 - W) * x = 0 - W * x
    BY ONLY <1>2, <2>1
  <2>4. a * total \in Nat /\ W * x \in Nat
    BY ONLY <1>2, <2>1
  <2>5. y = total * a + (0 - W) * x
    BY ONLY <2>1, <2>2, <2>3, <2>4
  <2> QED BY <2>1, <2>5
<1>5. SumFunctionOnSet(w, P) \in Nat /\ SumFunctionOnSet(q, P) \in Nat
      /\ SumFunctionOnSet(r, P) \in Nat
  <2>1. \A c \in P : w[c] \in Nat /\ q[c] \in Nat /\ r[c] \in Nat
    BY <1>1, <1>2
  <2> QED BY <1>2, <2>1, SumIsNat
<1>6. SumFunctionOnSet(r, P)
        = total * SumFunctionOnSet(w, P) + (0 - W) * SumFunctionOnSet(q, P)
  <2>1. \A c \in P : w[c] \in Int /\ q[c] \in Int
    BY <1>1
  <2>2. total \in Int /\ 0 - W \in Int
    BY <1>2
  <2> QED BY <1>2, <1>4, <2>1, <2>2, SumLinear
<1>7. SumFunctionOnSet(r, P) <= SumFunctionOnSet(most, P)
  <2>1. \A c \in P : r[c] \in Int /\ most[c] \in Int /\ r[c] <= most[c]
    <3> TAKE c \in P
    <3>1. r[c] \in 0 .. W - 1 /\ one[c] \in {0, 1} /\ (one[c] = 1 <=> r[c] > 0)
          /\ most[c] = W * one[c]
      BY <1>1, <1>b, <1>d
    <3> QED BY ONLY <1>2, <3>1
  <2> QED BY <1>2, <2>1, SumMonotone
<1>8. SumFunctionOnSet(most, P) = W * SumFunctionOnSet(one, P) + 0 * SumFunctionOnSet(one, P)
  <2>1. \A c \in P : one[c] \in Int /\ most[c] = W * one[c] + 0 * one[c]
    <3> TAKE c \in P
    <3>1. one[c] \in {0, 1} /\ most[c] = W * one[c]
      BY <1>b, <1>d
    <3> QED BY ONLY <1>2, <3>1
  <2>2. W \in Int /\ 0 \in Int
    BY <1>2
  <2> QED BY <1>2, <2>1, <2>2, SumLinear
<1>9. SumFunctionOnSet(one, P) = Cardinality(HasRemainder(w, total))
  BY <1>2, <1>b, <1>c, SumOfOnes
<1>10. Cardinality(HasRemainder(w, total)) \in Nat
  BY HasRemainderIsRoundable, FS_CardinalityType
<1>11. PICK Q \in Nat, R \in Nat, C \in Nat :
          /\ Q = SumFunction(q) /\ R = SumFunctionOnSet(r, P)
          /\ C = Cardinality(HasRemainder(w, total))
  BY <1>5, <1>10, <1>a
<1>12. R = total * W + (0 - W) * Q /\ R <= W * C + 0 * C
  BY <1>6, <1>7, <1>8, <1>9, <1>11, <1>a
<1>13. R = W * (total - Q)
  BY ONLY <1>2, <1>11, <1>12
<1>14. W * (total - Q) <= W * C /\ 0 <= W * (total - Q)
  BY ONLY <1>2, <1>11, <1>12, <1>13
<1>15. total - Q \in 0 .. C
  <2>1. PICK L \in Int : L = total - Q
    BY <1>2, <1>11
  <2>2. W * L <= W * C /\ 0 <= W * L
    BY <1>14, <2>1
  <2>3. ASSUME L > C PROVE FALSE
    <3>1. W * L >= W * C + W
      BY ONLY <1>2, <1>11, <2>1, <2>3
    <3> QED BY ONLY <1>2, <1>11, <2>1, <2>2, <3>1
  <2>4. ASSUME L < 0 PROVE FALSE
    <3>1. W * L <= 0 - W
      BY ONLY <1>2, <2>1, <2>4
    <3> QED BY ONLY <1>2, <2>1, <2>2, <3>1
  <2>5. L \in 0 .. C
    BY ONLY <1>11, <2>1, <2>3, <2>4
  <2> QED BY <2>1, <2>5
<1> QED BY <1>11, <1>15 DEF Left, q

(* Rounding up follows a strict total order: as many chapters as coins.    *)
LEMMA AsManyAsLeft ==
    ASSUME NEW w, NEW total, Splittable(w, total), DOMAIN w # {}, DOMAIN w \subseteq Nat
    PROVE  /\ Cardinality(RoundedUp(w, total)) = Left(w, total)
           /\ RoundedUp(w, total) \subseteq HasRemainder(w, total)
<1> DEFINE R == Roundable(w, total)
           r == Remainder(w, total)
           E == [i \in R |-> Before(w, total, i)]
           k == Left(w, total)
<1>1. R \subseteq DOMAIN w /\ IsFiniteSet(R) /\ HasRemainder(w, total) \in SUBSET R
  BY HasRemainderIsRoundable DEF Roundable
<1>2. \A i \in R : r[i] \in Nat /\ i \in Nat
  <2> TAKE i \in R
  <2>1. i \in DOMAIN w /\ i \in Nat
    BY <1>1
  <2>2. r[i] \in 0 .. SumFunction(w) - 1 /\ SumFunction(w) \in Nat
    BY <2>1, FloorFacts
  <2> QED BY <2>1, <2>2
<1>3. \A i \in R : E[i] = {j \in R : r[j] > r[i] \/ (r[j] = r[i] /\ j < i)}
  BY DEF Before
<1>4. k \in 0 .. Cardinality(HasRemainder(w, total))
  BY LeftOver
<1>5. Cardinality(HasRemainder(w, total)) <= Cardinality(R)
      /\ Cardinality(HasRemainder(w, total)) \in Nat /\ Cardinality(R) \in Nat
  BY <1>1, FS_Subset, FS_CardinalityType
<1>6. RoundedUp(w, total) = {i \in R : Cardinality(E[i]) < k}
  BY DEF RoundedUp, Left
<1>7. E \in [R -> SUBSET R]
  BY <1>3
<1>p. \A i \in R : i \in HasRemainder(w, total) <=> r[i] > 0
  BY <1>1 DEF HasRemainder
<1> HIDE DEF R, r, E, k
<1>8. \A i \in R : i \notin E[i]
  BY <1>2, <1>3
<1>9. \A i \in R : \A j \in E[i] : E[j] \subseteq E[i]
  <2> TAKE i \in R
  <2> TAKE j \in E[i]
  <2>1. j \in R /\ (r[j] > r[i] \/ (r[j] = r[i] /\ j < i))
    BY <1>3
  <2>2. ASSUME NEW m \in E[j] PROVE m \in E[i]
    <3>1. m \in R /\ (r[m] > r[j] \/ (r[m] = r[j] /\ m < j))
      BY <1>3, <2>1
    <3>2. r[m] \in Nat /\ r[j] \in Nat /\ r[i] \in Nat /\ m \in Nat /\ j \in Nat /\ i \in Nat
      BY <1>2, <2>1, <3>1
    <3>3. r[m] > r[i] \/ (r[m] = r[i] /\ m < i)
      BY ONLY <2>1, <3>1, <3>2
    <3> QED BY <1>3, <3>1, <3>3
  <2> QED BY <2>2
<1>10. \A i, j \in R : i = j \/ i \in E[j] \/ j \in E[i]
  <2> TAKE i, j \in R
  <2>1. r[i] \in Nat /\ r[j] \in Nat /\ i \in Nat /\ j \in Nat
    BY <1>2
  <2>2. \/ i = j
        \/ r[i] > r[j] \/ (r[i] = r[j] /\ i < j)
        \/ r[j] > r[i] \/ (r[j] = r[i] /\ j < i)
    BY ONLY <2>1
  <2> QED BY <1>3, <2>2
<1>11. k \in 0 .. Cardinality(R)
  BY <1>4, <1>5
<1>12. Cardinality({i \in R : Cardinality(E[i]) < k}) = k
  BY <1>1, <1>7, <1>8, <1>9, <1>10, <1>11, FirstOfRank DEF StrictOrder
<1>13. ASSUME NEW i \in R, Cardinality(E[i]) < k PROVE r[i] > 0
  <2> SUFFICES ASSUME r[i] = 0 PROVE FALSE
    BY <1>2
  <2>1. \A j \in HasRemainder(w, total) : j \in E[i]
    <3> TAKE j \in HasRemainder(w, total)
    <3>1. j \in R /\ r[j] > 0
      BY <1>1, <1>p
    <3> QED BY <1>3, <3>1
  <2>2. IsFiniteSet(E[i])
    BY <1>1, <1>7, FS_Subset
  <2>3. Cardinality(HasRemainder(w, total)) <= Cardinality(E[i]) /\ Cardinality(E[i]) \in Nat
    BY <2>1, <2>2, FS_Subset, FS_CardinalityType
  <2> QED BY ONLY <1>4, <1>5, <1>13, <2>3
<1> QED BY <1>6, <1>12, <1>13, <1>p DEF k

(* What the split computes, for any weights and any total up to their sum. *)
LEMMA SplitFacts ==
    ASSUME NEW w, NEW total, Splittable(w, total), DOMAIN w # {}, DOMAIN w \subseteq Nat
    PROVE  /\ SumFunction(AllocateProportional(w, total)) = total
           /\ \A c \in DOMAIN w :
                 AllocateProportional(w, total)[c]
                   = Floor(w, total)[c] + IF c \in RoundedUp(w, total) THEN 1 ELSE 0
<1> DEFINE P == DOMAIN w
           q == Floor(w, total)
           up == RoundedUp(w, total)
           one == [c \in P |-> IF c \in up THEN 1 ELSE 0]
           share == AllocateProportional(w, total)
<1>1. PICK d \in P : TRUE
  OBVIOUS
<1>2. SumFunction(w) \in Nat \ {0} /\ total \in Nat \ {0} /\ IsFiniteSet(P)
  BY <1>1, FloorFacts DEF Splittable
<1>3. ~(total <= 0 \/ SumFunction(w) <= 0)
  BY <1>2
<1>4. share = [c \in P |-> q[c] + IF c \in up THEN 1 ELSE 0]
  BY <1>3 DEF AllocateProportional
<1>5. DOMAIN share = P /\ DOMAIN q = P
  BY <1>4 DEF Floor
<1>6. \A c \in P : q[c] \in Int /\ one[c] \in {0, 1} /\ share[c] = q[c] + one[c]
  BY <1>4, FloorFacts
<1>7. up \subseteq P /\ {c \in P : one[c] = 1} = up
  BY DEF RoundedUp, Roundable
<1>8. \A c \in P : share[c] = q[c] + IF c \in up THEN 1 ELSE 0
  BY <1>4
<1>9. SumFunction(share) = SumFunctionOnSet(share, P) /\ SumFunction(q) = SumFunctionOnSet(q, P)
  BY <1>5 DEF SumFunction
<1>10. Cardinality(up) = Left(w, total) /\ SumFunction(q) \in Nat
  BY AsManyAsLeft, LeftOver
<1>11. Left(w, total) = total - SumFunction(q)
  BY DEF Left
<1> HIDE DEF P, q, up, one, share
<1>12. SumFunctionOnSet(one, P) = Cardinality(up)
  BY <1>2, <1>6, <1>7, SumOfOnes
<1>13. SumFunctionOnSet(share, P)
         = 1 * SumFunctionOnSet(q, P) + 1 * SumFunctionOnSet(one, P)
  <2>1. \A c \in P : q[c] \in Int /\ one[c] \in Int /\ share[c] = 1 * q[c] + 1 * one[c]
    BY <1>6
  <2> QED BY <1>2, <2>1, SumLinear
<1>14. SumFunction(share) = total
  BY <1>2, <1>9, <1>10, <1>11, <1>12, <1>13
<1> QED BY <1>8, <1>14 DEF P, q, up, share

(* Every share is the exact one rounded down or up, at most the weight.    *)
LEMMA SplitProportional ==
    ASSUME NEW w, NEW total, Splittable(w, total), DOMAIN w \subseteq Nat,
           NEW c \in DOMAIN w
    PROVE  LET share == AllocateProportional(w, total)[c]
           IN  /\ share <= w[c]
               /\ share * SumFunction(w) > (w[c] * total) - SumFunction(w)
               /\ share * SumFunction(w) < (w[c] * total) + SumFunction(w)
<1> DEFINE W == SumFunction(w)
           q == Floor(w, total)[c]
           r == Remainder(w, total)[c]
           up == c \in RoundedUp(w, total)
           share == AllocateProportional(w, total)[c]
<1>1. share = q + IF up THEN 1 ELSE 0
  BY SplitFacts
<1>2. up => r > 0
  BY AsManyAsLeft DEF HasRemainder
<1>3. /\ W \in Nat \ {0} /\ total \in Nat \ {0} /\ q \in Nat /\ r \in 0 .. W - 1
      /\ w[c] * total = W * q + r /\ q <= w[c] /\ (r > 0 => q < w[c])
  BY FloorFacts
<1>4. w[c] \in Nat
  BY DEF Splittable
<1> HIDE DEF W, q, r, up, share
<1>5. share <= w[c]
  BY ONLY <1>1, <1>2, <1>3, <1>4
<1>6. share * W > w[c] * total - W /\ share * W < w[c] * total + W
  <2>1. CASE up
    <3>1. share = q + 1 /\ r > 0
      BY ONLY <1>1, <1>2, <2>1
    <3>2. share * W = W * q + W
      BY ONLY <1>3, <3>1
    <3>3. PICK x \in Nat : x = W * q
      BY <1>3
    <3> QED BY ONLY <1>3, <3>1, <3>2, <3>3
  <2>2. CASE ~up
    <3>1. share = q
      BY ONLY <1>1, <1>3, <2>2
    <3>2. share * W = W * q
      BY ONLY <1>3, <3>1
    <3>3. PICK x \in Nat : x = W * q
      BY <1>3
    <3> QED BY ONLY <1>3, <3>2, <3>3
  <2> QED BY <2>1, <2>2
<1> QED BY <1>5, <1>6 DEF W, share

(* A larger weight never gets a smaller share.                             *)
LEMMA SplitMonotone ==
    ASSUME NEW w, NEW total, Splittable(w, total), DOMAIN w \subseteq Nat,
           NEW c \in DOMAIN w, NEW d \in DOMAIN w, w[c] > w[d]
    PROVE  AllocateProportional(w, total)[c] >= AllocateProportional(w, total)[d]
<1> DEFINE W == SumFunction(w)
           q(i) == Floor(w, total)[i]
           r(i) == Remainder(w, total)[i]
           up(i) == i \in RoundedUp(w, total)
           share(i) == AllocateProportional(w, total)[i]
<1>1. ASSUME NEW i \in {c, d}
      PROVE  /\ share(i) = q(i) + IF up(i) THEN 1 ELSE 0
             /\ W \in Nat \ {0} /\ total \in Nat \ {0} /\ q(i) \in Nat /\ r(i) \in 0 .. W - 1
             /\ w[i] * total = W * q(i) + r(i) /\ w[i] \in Nat
  <2>1. i \in DOMAIN w
    OBVIOUS
  <2>2. share(i) = q(i) + IF up(i) THEN 1 ELSE 0
    BY <2>1, SplitFacts
  <2>3. /\ W \in Nat \ {0} /\ total \in Nat \ {0} /\ q(i) \in Nat /\ r(i) \in 0 .. W - 1
        /\ w[i] * total = W * q(i) + r(i)
    BY <2>1, FloorFacts
  <2>4. w[i] \in Nat
    BY <2>1 DEF Splittable
  <2> QED BY <2>2, <2>3, <2>4
<1>2. ASSUME q(c) = q(d), up(d) PROVE up(c)
  <2>1. r(c) > r(d) /\ r(c) \in Nat /\ r(d) \in Nat
    <3>0. PICK z \in Nat : z = W * q(c) /\ z = W * q(d)
      <4>1. W \in Nat /\ q(c) \in Nat
        BY <1>1
      <4> HIDE DEF W, q
      <4>2. W * q(c) \in Nat /\ W * q(d) = W * q(c)
        BY <1>2, <4>1
      <4> QED BY <4>2
    <3>1. PICK a \in Nat, b \in Nat, x \in Nat, y \in Nat :
             a = w[c] /\ b = w[d] /\ x = r(c) /\ y = r(d)
      BY <1>1
    <3>2. total \in Nat \ {0} /\ a > b /\ a * total = z + x /\ b * total = z + y
      BY <1>1, <3>0, <3>1
    <3>3. a * total >= b * total + total
      BY ONLY <3>1, <3>2
    <3>4. PICK m \in Nat, n \in Nat : m = a * total /\ n = b * total
      BY <3>2
    <3>5. x > y
      BY ONLY <3>0, <3>1, <3>2, <3>3, <3>4
    <3> QED BY <3>1, <3>5
  <2>2. c \in Roundable(w, total)
    <3>1. q(d) < w[d]
      BY <1>2 DEF RoundedUp, Roundable
    <3>2. q(c) < w[c]
      BY <1>1, <1>2, <3>1
    <3> QED BY <3>2 DEF Roundable
  <2>3. Before(w, total, c) \subseteq Before(w, total, d)
    <3> SUFFICES ASSUME NEW j \in Before(w, total, c) PROVE j \in Before(w, total, d)
      OBVIOUS
    <3>1. j \in Roundable(w, total) /\ r(j) >= r(c)
      <4>1. j \in DOMAIN w /\ j \in Roundable(w, total)
            /\ (r(j) > r(c) \/ r(j) = r(c))
        BY DEF Before, Roundable
      <4>2. r(j) \in 0 .. W - 1 /\ W \in Nat
        BY <4>1, FloorFacts
      <4> QED BY ONLY <2>1, <4>1, <4>2
    <3>2. r(j) \in Nat
      <4>1. j \in DOMAIN w
        BY <3>1 DEF Roundable
      <4>2. r(j) \in 0 .. W - 1 /\ W \in Nat
        BY <4>1, FloorFacts
      <4> QED BY ONLY <4>2
    <3>3. r(j) > r(d)
      BY ONLY <2>1, <3>1, <3>2
    <3> QED BY <3>1, <3>3 DEF Before
  <2>4. IsFiniteSet(Before(w, total, d))
    BY HasRemainderIsRoundable, FS_Subset DEF Before
  <2>5. /\ Cardinality(Before(w, total, c)) <= Cardinality(Before(w, total, d))
        /\ Cardinality(Before(w, total, c)) \in Nat
        /\ Cardinality(Before(w, total, d)) \in Nat
    BY <2>3, <2>4, FS_Subset, FS_CardinalityType
  <2>6. Cardinality(Before(w, total, d)) < Left(w, total) /\ Left(w, total) \in Int
    <3>1. Left(w, total) \in Int
      BY LeftOver
    <3> QED BY <1>2, <3>1 DEF RoundedUp, Left
  <2>7. Cardinality(Before(w, total, c)) < Left(w, total)
    BY ONLY <2>5, <2>6
  <2> QED BY <2>2, <2>7 DEF RoundedUp, Left
<1>3. q(c) >= q(d)
  <2>1. PICK a \in Nat, b \in Nat, x \in Nat, y \in Nat :
           a = w[c] /\ b = w[d] /\ x = r(c) /\ y = r(d)
    BY <1>1
  <2>2. /\ total \in Nat \ {0} /\ W \in Nat \ {0} /\ a > b /\ x < W /\ y < W
        /\ a * total = W * q(c) + x /\ b * total = W * q(d) + y
        /\ q(c) \in Nat /\ q(d) \in Nat
    BY <1>1, <2>1
  <2>3. PICK e \in Nat, f \in Nat : e = q(c) /\ f = q(d)
    BY <2>2
  <2>4. a * total >= b * total
    BY ONLY <2>1, <2>2
  <2>5. ASSUME f >= e + 1 PROVE FALSE
    <3>1. W * f >= W * e + W
      BY ONLY <2>2, <2>3, <2>5
    <3>2. PICK g \in Nat, h \in Nat : g = W * e /\ h = W * f
      BY <2>2
    <3> HIDE DEF W, q, r
    <3>3. g + x >= h + y
      BY <2>2, <2>3, <2>4, <3>2
    <3> QED BY ONLY <2>1, <2>2, <3>1, <3>2, <3>3
  <2> HIDE DEF q
  <2> QED BY ONLY <2>3, <2>5
<1>4. /\ share(c) = q(c) + IF up(c) THEN 1 ELSE 0
      /\ share(d) = q(d) + IF up(d) THEN 1 ELSE 0
      /\ q(c) \in Nat /\ q(d) \in Nat
  BY <1>1
<1> HIDE DEF q, up, share
<1>5. share(c) >= share(d)
  BY ONLY <1>2, <1>3, <1>4
<1> QED BY <1>5 DEF share
(* A quote is fair whatever the prices and the discount.                   *)
PricesOK ==
    /\ IsFiniteSet(DOMAIN prices)
    /\ DOMAIN prices \subseteq Sold
    /\ \A c \in DOMAIN prices : prices[c] \in 1 .. MaxPrice

LEMMA QuoteIsFair == ASSUME PricesOK PROVE FairSplit
<1> SUFFICES ASSUME Quoted PROVE FairSplit
  BY DEF FairSplit, SharesAddUp, SharesProportional, DearerEarnsNoLess
<1> DEFINE P == DOMAIN prices
           G == SumFunction(prices)
           D == DiscountPercent
           off == (G * D) \div 100
           T == G - off
           share == AllocateProportional(prices, T)
<1>1. IsFiniteSet(P) /\ P \subseteq Nat \ {0} /\ P # {} /\ D \in 0 .. 100
      /\ \A c \in P : prices[c] \in Nat \ {0}
  <2>1. IsFiniteSet(P) /\ P # {} /\ D \in 0 .. 100
    BY BundleAssumption DEF PricesOK, Quoted
  <2>2. P \subseteq Nat \ {0}
    BY BundleAssumption DEF PricesOK
  <2>3. \A c \in P : prices[c] \in Nat \ {0}
    <3> TAKE c \in P
    <3>1. prices[c] \in 1 .. MaxPrice /\ MaxPrice \in Nat
      BY BundleAssumption DEF PricesOK
    <3> QED BY ONLY <3>1
  <2> QED BY <2>1, <2>2, <2>3
<1>2. G \in Nat \ {0}
  <2>1. PICK c \in P : TRUE
    BY <1>1
  <2>2. \A x \in P : prices[x] \in Nat
    BY <1>1
  <2>3. G = SumFunctionOnSet(prices, P)
    BY DEF SumFunction
  <2>4. SumFunctionOnSet(prices, {c}) = prices[c]
    BY <2>2, SumSingle
  <2>5. SumFunctionOnSet(prices, {c}) <= G
    <3>1. {c} \in SUBSET P
      OBVIOUS
    <3> HIDE DEF P, G
    <3> QED BY <1>1, <2>2, <2>3, <3>1, SumGrows
  <2>6. G \in Nat
    <3> HIDE DEF P, G
    <3> QED BY <1>1, <2>2, <2>3, SumIsNat
  <2>7. prices[c] \in Nat \ {0}
    BY <1>1
  <2> HIDE DEF P, G
  <2> QED BY <2>4, <2>5, <2>6, <2>7
<1>3. quote = [err |-> "none", total |-> T, perChapter |-> share]
      /\ gross = G
  <2>1. Clamp(DiscountPercent) = D
    BY <1>1 DEF Clamp
  <2>2. ~(\E c \in DOMAIN prices : prices[c] < 0) /\ ~(G <= 0) /\ DOMAIN prices # {}
    BY <1>1, <1>2
  <2> QED BY <2>1, <2>2 DEF quote, QuoteBundle, gross
<1>4. G * D \in Nat /\ G * D <= 100 * G
  <2> HIDE DEF P, G, D
  <2> QED BY ONLY <1>1, <1>2
<1>5. off \in Nat /\ 100 * off <= G * D /\ G * D < 100 * off + 100
  <2> PICK a \in Nat : a = G * D
    BY <1>4
  <2>1. off = a \div 100
    OBVIOUS
  <2> HIDE DEF off, G, D
  <2> QED BY <2>1
<1>6. T \in Nat /\ T <= G
  <2> HIDE DEF G, D, off
  <2> QED BY <1>2, <1>4, <1>5
<1>7. /\ 100 * T >= G * (100 - D)
      /\ 100 * (T - 1) < G * (100 - D)
  <2>1. T = G - off
    OBVIOUS
  <2> HIDE DEF G, D, off, T
  <2>2. G * (100 - D) = 100 * G - G * D
    BY <1>1, <1>2
  <2>3. PICK a \in Nat : a = G * D
    BY <1>4
  <2> QED BY <1>2, <1>5, <2>1, <2>2, <2>3
<1>8. CASE T = 0
  <2>1. share = [c \in P |-> 0]
    BY <1>8 DEF AllocateProportional
  <2>2. \A c \in P : share[c] = 0
    BY <2>1
  <2>3. SumFunction(share) = SumFunctionOnSet(share, P)
    BY <2>1 DEF SumFunction
  <2>4. SumFunction(share) = T
    <3> HIDE DEF share, P
    <3> QED BY <1>1, <1>8, <2>2, <2>3, SumOfZeros
  <2>5. \A c \in P : /\ share[c] <= prices[c]
                    /\ share[c] * G > (prices[c] * T) - G
                    /\ share[c] * G < (prices[c] * T) + G
    <3> TAKE c \in P
    <3>1. share[c] = 0 /\ prices[c] \in Nat
      BY <1>1, <2>2
    <3> HIDE DEF share, T, G, P
    <3> QED BY <1>2, <1>8, <3>1
  <2>6. \A c, d \in P : share[c] >= share[d]
    <3> TAKE c, d \in P
    <3>1. share[c] = 0 /\ share[d] = 0
      BY <2>2
    <3> HIDE DEF share
    <3> QED BY <3>1
  <2> HIDE DEF T, G, share, D
  <2> QED BY <1>3, <1>7, <2>4, <2>5, <2>6
          DEF FairSplit, SharesAddUp, SharesProportional, DearerEarnsNoLess, D
<1>9. CASE T # 0
  <2>1. Splittable(prices, T) /\ P \subseteq Nat
    <3>1. T \in 1 .. G
      <4> HIDE DEF T, G
      <4> QED BY <1>2, <1>6, <1>9
    <3> QED BY <1>1, <3>1 DEF Splittable
  <2>2. SumFunction(share) = T
    <3> HIDE DEF T
    <3> QED BY <1>1, <2>1, SplitFacts
  <2>3. \A c \in P : /\ share[c] <= prices[c]
                    /\ share[c] * G > (prices[c] * T) - G
                    /\ share[c] * G < (prices[c] * T) + G
    <3> HIDE DEF T
    <3> QED BY <2>1, SplitProportional
  <2>4. \A c, d \in P : prices[c] > prices[d] => share[c] >= share[d]
    <3> HIDE DEF T
    <3> QED BY <2>1, SplitMonotone
  <2> HIDE DEF T, G, share, D
  <2> QED BY <1>3, <1>7, <2>2, <2>3, <2>4
          DEF FairSplit, SharesAddUp, SharesProportional, DearerEarnsNoLess, D
<1> QED BY <1>8, <1>9

(* The split of a bundle is exact, proportional to a coin and monotone for *)
(* every set of chapters, every price list and every discount.             *)
THEOREM FairSplitCorrect == PricesSpec => []FairSplit
<1>1. PricesInit => PricesOK
  BY FS_EmptySet DEF PricesInit, PricesOK
<1>2. PricesOK /\ [PricesNext]_prices => PricesOK'
  <2> SUFFICES ASSUME PricesOK, [PricesNext]_prices PROVE PricesOK'
    OBVIOUS
  <2>1. CASE UNCHANGED prices
    BY <2>1 DEF PricesOK
  <2>2. ASSUME NEW c \in Sold, NEW p \in 1 .. MaxPrice, SetPrice(c, p) PROVE PricesOK'
    <3>1. IsFiniteSet(DOMAIN prices \cup {c})
      BY FS_AddElement DEF PricesOK
    <3>2. DOMAIN prices' = DOMAIN prices \cup {c}
      BY <2>2 DEF SetPrice
    <3>3. \A x \in DOMAIN prices' : prices'[x] \in 1 .. MaxPrice
      BY <2>2 DEF SetPrice, PricesOK
    <3> QED BY <3>1, <3>2, <3>3 DEF PricesOK
  <2>3. ASSUME NEW c \in Sold, Drop(c) PROVE PricesOK'
    <3>1. IsFiniteSet(DOMAIN prices \ {c})
      BY FS_RemoveElement DEF PricesOK
    <3>2. DOMAIN prices' = DOMAIN prices \ {c}
      BY <2>3 DEF Drop
    <3>3. \A x \in DOMAIN prices' : prices'[x] \in 1 .. MaxPrice
      BY <2>3 DEF Drop, PricesOK
    <3> QED BY <3>1, <3>2, <3>3 DEF PricesOK
  <2> QED BY <2>1, <2>2, <2>3 DEF PricesNext
<1> QED BY <1>1, <1>2, QuoteIsFair, PTL DEF PricesSpec

(***************************************************************************)
(* Series.  A reorder that nobody disturbs numbers the books 1, 2, ... in  *)
(* the order of their first places in what the client sent, and its two    *)
(* statements keep the numbers apart.                                      *)
(***************************************************************************)
Distinct(s) == \A i, j \in DOMAIN s : s[i] = s[j] => i = j

(* Filtering keeps the entries that are asked for and nothing else.        *)
LEMMA FilteredFacts ==
    ASSUME NEW T, NEW s \in Seq(T), NEW S
    PROVE  /\ Filtered(s, S) \in Seq(T)
           /\ ToSet(Filtered(s, S)) = ToSet(s) \cap S
           /\ Distinct(s) => Distinct(Filtered(s, S))
<1> DEFINE kept == {i \in DOMAIN s : s[i] \in S}
           ahead == [i \in kept |-> {j \in kept : j < i}]
           at == Ranked(kept, ahead)
           f == Filtered(s, S)
<1>1. Len(s) \in Nat /\ DOMAIN s = 1 .. Len(s) /\ \A i \in DOMAIN s : s[i] \in T
  OBVIOUS
<1>2. kept \subseteq 1 .. Len(s) /\ IsFiniteSet(kept) /\ \A i \in kept : i \in Nat
  <2>1. kept \in SUBSET (1 .. Len(s))
    BY <1>1
  <2>2. IsFiniteSet(1 .. Len(s))
    BY <1>1, FS_Interval
  <2> HIDE DEF kept
  <2>3. \A i \in kept : i \in Nat
    BY <1>1, <2>1
  <2> QED BY <2>1, <2>2, <2>3, FS_Subset
<1>3. StrictOrder(kept, ahead)
  <2>1. ahead \in [kept -> SUBSET kept] /\ \A i, j \in kept : j \in ahead[i] <=> j < i
    OBVIOUS
  <2> HIDE DEF kept, ahead
  <2>2. \A i \in kept : i \notin ahead[i]
    BY <1>2, <2>1
  <2>3. \A i \in kept : \A j \in ahead[i] : ahead[j] \subseteq ahead[i]
    BY <1>2, <2>1
  <2>4. \A i, j \in kept : i = j \/ i \in ahead[j] \/ j \in ahead[i]
    BY <1>2, <2>1
  <2> QED BY <1>2, <2>1, <2>2, <2>3, <2>4 DEF StrictOrder
<1>4. PICK n \in Nat :
        /\ DOMAIN at = 1 .. n /\ at \in [1 .. n -> kept]
        /\ \A x \in kept : \E i \in 1 .. n : at[i] = x
        /\ \A i, j \in 1 .. n : at[i] = at[j] => i = j
  <2> HIDE DEF kept, ahead
  <2>1. LET t == Ranked(kept, ahead)
            m == Cardinality(kept)
        IN  /\ m \in Nat /\ DOMAIN t = 1 .. m /\ t \in [1 .. m -> kept] /\ t \in Seq(kept)
            /\ Len(t) = m
            /\ \A x \in kept : Cardinality(ahead[x]) + 1 \in 1 .. m
                               /\ t[Cardinality(ahead[x]) + 1] = x
            /\ \A i \in 1 .. m : Cardinality(ahead[t[i]]) = i - 1
            /\ \A i, j \in 1 .. m : t[i] \in ahead[t[j]] <=> i < j
            /\ \A i, j \in 1 .. m : t[i] = t[j] => i = j
    BY ONLY <1>3, RankedFacts
  <2> QED BY <2>1
<1>5. f = [m \in 1 .. n |-> s[at[m]]]
  BY <1>4 DEF Filtered
<1>6. \A m \in 1 .. n : at[m] \in DOMAIN s /\ s[at[m]] \in S /\ s[at[m]] \in T
  <2>1. \A i \in kept : i \in DOMAIN s /\ s[i] \in S /\ s[i] \in T
    BY <1>1
  <2> HIDE DEF kept, at
  <2> QED BY <1>4, <2>1
<1>7. \A i \in DOMAIN s : s[i] \in S => \E m \in 1 .. n : at[m] = i
  BY <1>4
<1> HIDE DEF kept, ahead, at, f
<1>8. f \in Seq(T) /\ DOMAIN f = 1 .. n
  BY <1>5, <1>6
<1>9. ToSet(f) = ToSet(s) \cap S
  <2>1. ASSUME NEW x \in ToSet(f) PROVE x \in ToSet(s) \cap S
    BY <1>5, <1>6, <1>8 DEF ToSet
  <2>2. ASSUME NEW x \in ToSet(s) \cap S PROVE x \in ToSet(f)
    <3>1. PICK i \in DOMAIN s : s[i] = x
      BY DEF ToSet
    <3>2. PICK m \in 1 .. n : at[m] = i
      BY <1>7, <3>1
    <3> QED BY <1>5, <1>8, <3>1, <3>2 DEF ToSet
  <2> QED BY <2>1, <2>2
<1>10. Distinct(s) => Distinct(f)
  BY <1>4, <1>5, <1>6, <1>8 DEF Distinct
<1> QED BY <1>8, <1>9, <1>10 DEF f

-----------------------------------------------------------------------------
(* The first place of an entry, and the entries with an earlier one.       *)
First(order, n) ==
    CHOOSE i \in DOMAIN order : order[i] = n /\ \A j \in 1 .. (i - 1) : order[j] # n
Sooner(order) ==
    [n \in ToSet(order) |-> {m \in ToSet(order) : First(order, m) < First(order, n)}]

LEMMA FirstFacts ==
    ASSUME NEW T, NEW order \in Seq(T), NEW n \in ToSet(order)
    PROVE  /\ First(order, n) \in 1 .. Len(order) /\ order[First(order, n)] = n
           /\ \A j \in 1 .. Len(order) : order[j] = n => First(order, n) <= j
<1> DEFINE places == {i \in 1 .. Len(order) : order[i] = n}
<1>1. Len(order) \in Nat /\ DOMAIN order = 1 .. Len(order)
  OBVIOUS
<1>2. places \in SUBSET (1 .. Len(order)) /\ places # {}
  BY <1>1 DEF ToSet
<1>3. IsFiniteSet(places) /\ places \in SUBSET Int
  <2>1. IsFiniteSet(1 .. Len(order))
    BY <1>1, FS_Interval
  <2>2. 1 .. Len(order) \subseteq Int
    BY <1>1
  <2> HIDE DEF places
  <2>3. IsFiniteSet(places)
    BY <1>2, <2>1, FS_Subset
  <2> QED BY <1>2, <2>2, <2>3
<1>4. PICK u \in places : \A v \in places : u <= v
  <2> HIDE DEF places
  <2> QED BY <1>2, <1>3, LeastMember
<1>5. u \in DOMAIN order /\ order[u] = n /\ \A j \in 1 .. (u - 1) : order[j] # n
  <2>1. u \in 1 .. Len(order) /\ order[u] = n
    OBVIOUS
  <2>2. ASSUME NEW j \in 1 .. (u - 1), order[j] = n PROVE FALSE
    <3>1. j \in 1 .. Len(order) /\ ~(u <= j)
      BY <1>1, <2>1
    <3> QED BY <1>4, <2>2, <3>1
  <2> QED BY <1>1, <2>1, <2>2
<1>6. /\ First(order, n) \in DOMAIN order /\ order[First(order, n)] = n
      /\ \A j \in 1 .. (First(order, n) - 1) : order[j] # n
  BY <1>5 DEF First
<1>7. ASSUME NEW j \in 1 .. Len(order), order[j] = n PROVE First(order, n) <= j
  <2>1. PICK i \in 1 .. Len(order) : i = First(order, n)
    BY <1>1, <1>6
  <2>2. ~(j \in 1 .. (i - 1))
    BY <1>6, <1>7, <2>1
  <2> QED BY <1>1, <2>1, <2>2
<1> QED BY <1>1, <1>6, <1>7

LEMMA SoonerIsOrder ==
    ASSUME NEW T, NEW order \in Seq(T)
    PROVE  StrictOrder(ToSet(order), Sooner(order)) /\ ToSet(order) \subseteq T
<1> DEFINE S == ToSet(order)
<1>1. Len(order) \in Nat /\ DOMAIN order = 1 .. Len(order) /\ S \subseteq T
  BY DEF ToSet
<1>2. IsFiniteSet(S)
  <2>1. IsFiniteSet(1 .. Len(order))
    BY <1>1, FS_Interval
  <2>2. order \in Surjection(1 .. Len(order), S)
    BY <1>1 DEF ToSet, Surjection
  <2> QED BY <2>1, <2>2, FS_Surjection
<1>3. /\ Sooner(order) \in [S -> SUBSET S]
      /\ \A m, n \in S : m \in Sooner(order)[n] <=> First(order, m) < First(order, n)
  BY DEF Sooner
<1>4. \A n \in S : First(order, n) \in Nat
  <2> TAKE n \in S
  <2>1. First(order, n) \in 1 .. Len(order)
    BY FirstFacts
  <2> QED BY <1>1, <2>1
<1>5. \A m, n \in S : First(order, m) = First(order, n) => m = n
  BY FirstFacts
<1> HIDE DEF S
<1>6. \A n \in S : n \notin Sooner(order)[n]
  BY <1>3, <1>4
<1>7. \A n \in S : \A m \in Sooner(order)[n] : Sooner(order)[m] \subseteq Sooner(order)[n]
  BY <1>3, <1>4
<1>8. \A m, n \in S : m = n \/ m \in Sooner(order)[n] \/ n \in Sooner(order)[m]
  <2> TAKE m, n \in S
  <2>1. First(order, m) = First(order, n) \/ First(order, m) < First(order, n)
        \/ First(order, n) < First(order, m)
    BY <1>4
  <2> QED BY <1>3, <1>5, <2>1
<1> QED BY <1>1, <1>2, <1>3, <1>6, <1>7, <1>8 DEF StrictOrder, S

(* A novel's new position counts those with an earlier first place.        *)
LEMMA NthCounts ==
    ASSUME NEW T, NEW order \in Seq(T), NEW n \in ToSet(order)
    PROVE  Nth(order, n) = Cardinality(Sooner(order)[n]) + 1
<1> DEFINE i == First(order, n)
           prefix == SubSeq(order, 1, i)
<1>1. i \in 1 .. Len(order) /\ order[i] = n /\ Len(order) \in Nat
      /\ DOMAIN order = 1 .. Len(order) /\ \A j \in 1 .. Len(order) : order[j] \in T
  BY FirstFacts
<1>2. Nth(order, n) = Cardinality(ToSet(prefix))
  BY DEF Nth, First
<1>3. DOMAIN prefix = 1 .. i /\ \A j \in 1 .. i : prefix[j] = order[j]
  <2>1. PICK k \in 1 .. Len(order) : k = i
    BY <1>1
  <2>2. k \in Int /\ \A j \in 1 .. k : order[j] \in T
    BY <1>1
  <2>3. /\ SubSeq(order, 1, k) \in Seq(T)
        /\ Len(SubSeq(order, 1, k)) = IF 1 <= k THEN k - 1 + 1 ELSE 0
        /\ \A j \in 1 .. k - 1 + 1 : SubSeq(order, 1, k)[j] = order[1 + j - 1]
    BY <2>2, SubSeqProperties
  <2>4. DOMAIN SubSeq(order, 1, k) = 1 .. k /\ \A j \in 1 .. k : SubSeq(order, 1, k)[j] = order[j]
    BY <2>1, <2>3
  <2> QED BY <2>1, <2>4
<1> HIDE DEF i, prefix
<1>4. ToSet(prefix) = {order[j] : j \in 1 .. i}
  BY <1>3 DEF ToSet
<1>5. {order[j] : j \in 1 .. i} = Sooner(order)[n] \cup {n}
  <2>1. ASSUME NEW j \in 1 .. i PROVE order[j] \in Sooner(order)[n] \cup {n}
    <3>1. j \in 1 .. Len(order)
      BY <1>1
    <3>2. order[j] \in ToSet(order) /\ First(order, order[j]) <= j
          /\ First(order, order[j]) \in 1 .. Len(order)
          /\ order[First(order, order[j])] = order[j]
      <4>1. order[j] \in ToSet(order)
        BY <1>1, <3>1 DEF ToSet
      <4> QED BY <3>1, <4>1, FirstFacts
    <3>3. CASE First(order, order[j]) = i
      BY <1>1, <3>2, <3>3
    <3>4. CASE First(order, order[j]) # i
      <4>1. First(order, order[j]) < i
        BY <1>1, <3>1, <3>2, <3>4
      <4> QED BY <3>2, <4>1 DEF Sooner, i
    <3> QED BY <3>3, <3>4
  <2>2. ASSUME NEW m \in Sooner(order)[n] PROVE m \in {order[j] : j \in 1 .. i}
    <3>1. m \in ToSet(order) /\ First(order, m) < i
      BY DEF Sooner, i
    <3>2. First(order, m) \in 1 .. Len(order) /\ order[First(order, m)] = m
      BY <3>1, FirstFacts
    <3>3. First(order, m) \in 1 .. i
      BY <1>1, <3>1, <3>2
    <3> QED BY <3>2, <3>3
  <2>3. n \in {order[j] : j \in 1 .. i}
    BY <1>1
  <2> QED BY <2>1, <2>2, <2>3
<1>6. n \notin Sooner(order)[n] /\ IsFiniteSet(Sooner(order)[n])
  <2>1. StrictOrder(ToSet(order), Sooner(order))
    BY SoonerIsOrder
  <2>2. IsFiniteSet(ToSet(order)) /\ Sooner(order)[n] \in SUBSET ToSet(order)
        /\ n \notin Sooner(order)[n]
    BY <2>1 DEF StrictOrder
  <2> QED BY <2>2, FS_Subset
<1>7. Cardinality(Sooner(order)[n] \cup {n}) = Cardinality(Sooner(order)[n]) + 1
  BY <1>6, FS_AddElement
<1>8. ToSet(prefix) = Sooner(order)[n] \cup {n}
  BY <1>4, <1>5
<1> QED BY ONLY <1>2, <1>7, <1>8

-----------------------------------------------------------------------------
(* A slot is empty or one position; a query's order is one.                *)
Slots == {{}} \cup {{x} : x \in Int}
SeriesRows  == [Book -> [series : Collection \cup {NoSeries}, slot : Slots]]

LEMMA PrecedesMeans ==
    ASSUME NEW rows, NEW m \in Book, NEW n \in Book,
           rows[m].slot \in Slots, rows[n].slot \in Slots,
           NEW x \in Int, rows[m].slot # {} => rows[m].slot = {x},
           NEW y \in Int, rows[n].slot # {} => rows[n].slot = {y}
    PROVE  Precedes(rows, m, n) <=>
              \/ rows[m].slot = {} /\ rows[n].slot = {} /\ m < n
              \/ rows[m].slot # {} /\ rows[n].slot = {}
              \/ rows[m].slot # {} /\ rows[n].slot # {} /\ (x < y \/ (x = y /\ m < n))
<1>1. CASE rows[m].slot = {} /\ rows[n].slot = {}
  BY <1>1 DEF Precedes
<1>2. CASE rows[m].slot = {} /\ rows[n].slot # {}
  BY <1>2 DEF Precedes
<1>3. CASE rows[m].slot # {} /\ rows[n].slot = {}
  BY <1>3 DEF Precedes
<1>4. CASE rows[m].slot # {} /\ rows[n].slot # {}
  <2>1. Precedes(rows, m, n) <=>
          \A u \in rows[m].slot, v \in rows[n].slot : u < v \/ (u = v /\ m < n)
    BY <1>4 DEF Precedes
  <2> QED BY <1>4, <2>1
<1> QED BY <1>1, <1>2, <1>3, <1>4

LEMMA BooksFacts ==
    ASSUME NEW rows, \A n \in Book : rows[n].slot \in Slots, NEW s
    PROVE  LET M == Members(rows, s)
               b == SeriesBooks(rows, s)
           IN  /\ IsFiniteSet(M) /\ M \subseteq Book /\ Cardinality(M) \in Nat
               /\ b \in Seq(M) /\ Len(b) = Cardinality(M) /\ DOMAIN b = 1 .. Cardinality(M)
               /\ ToSet(b) = M /\ Distinct(b)
               /\ \A i, j \in 1 .. Len(b) : Precedes(rows, b[i], b[j]) <=> i < j
<1> DEFINE M == Members(rows, s)
           ahead == [n \in M |-> {m \in M : Precedes(rows, m, n)}]
           b == SeriesBooks(rows, s)
<1>1. M \subseteq Book /\ IsFiniteSet(M) /\ \A n \in M : n \in Int
  BY SeriesAssumption, FS_Subset DEF Members
<1>2. PICK at \in [M -> Int] : \A n \in M : rows[n].slot # {} => rows[n].slot = {at[n]}
  <2>1. \A n \in M : \E x \in Int : rows[n].slot # {} => rows[n].slot = {x}
    BY <1>1 DEF Slots
  <2> HIDE DEF M
  <2> DEFINE at == [n \in M |-> CHOOSE x \in Int : rows[n].slot # {} => rows[n].slot = {x}]
  <2>2. at \in [M -> Int] /\ \A n \in M : rows[n].slot # {} => rows[n].slot = {at[n]}
    BY <2>1
  <2> QED BY <2>2
<1>3. PICK none : none = {n \in M : rows[n].slot = {}}
  OBVIOUS
<1>4. \A m, n \in M : Precedes(rows, m, n) <=>
         \/ m \in none /\ n \in none /\ m < n
         \/ m \notin none /\ n \in none
         \/ m \notin none /\ n \notin none /\ (at[m] < at[n] \/ (at[m] = at[n] /\ m < n))
  <2> TAKE m, n \in M
  <2>1. m \in Book /\ n \in Book /\ at[m] \in Int /\ at[n] \in Int
    BY <1>1, <1>2
  <2> QED BY <1>2, <1>3, <2>1, PrecedesMeans
<1>5. ahead \in [M -> SUBSET M] /\ \A m, n \in M : m \in ahead[n] <=> Precedes(rows, m, n)
  OBVIOUS
<1>6. b = Ranked(M, ahead)
  BY DEF SeriesBooks
<1> HIDE DEF M, ahead, b
<1>7. StrictOrder(M, ahead)
  <2>1. \A n \in M : n \notin ahead[n]
    BY <1>1, <1>2, <1>4, <1>5
  <2>2. \A n \in M : \A m \in ahead[n] : ahead[m] \subseteq ahead[n]
    <3>1. ASSUME NEW n \in M, NEW m \in ahead[n], NEW l \in ahead[m] PROVE l \in ahead[n]
      <4>1. m \in M /\ l \in M /\ at[m] \in Int /\ at[n] \in Int /\ at[l] \in Int
            /\ m \in Int /\ n \in Int /\ l \in Int
        BY <1>1, <1>2, <1>5, <3>1
      <4>2. Precedes(rows, l, m) /\ Precedes(rows, m, n)
        BY <1>5, <3>1, <4>1
      <4>3. Precedes(rows, l, n)
        BY <1>4, <4>1, <4>2
      <4> QED BY <1>5, <4>1, <4>3
    <3> QED BY <3>1
  <2>3. \A m, n \in M : m = n \/ m \in ahead[n] \/ n \in ahead[m]
    <3> TAKE m, n \in M
    <3>1. at[m] \in Int /\ at[n] \in Int /\ m \in Int /\ n \in Int
      BY <1>1, <1>2
    <3>2. m = n \/ Precedes(rows, m, n) \/ Precedes(rows, n, m)
      BY <1>4, <3>1
    <3> QED BY <1>5, <3>2
  <2> QED BY <1>1, <1>5, <2>1, <2>2, <2>3 DEF StrictOrder
<1>8. LET t == Ranked(M, ahead)
          k == Cardinality(M)
      IN  /\ k \in Nat /\ DOMAIN t = 1 .. k /\ t \in [1 .. k -> M] /\ t \in Seq(M) /\ Len(t) = k
          /\ \A x \in M : Cardinality(ahead[x]) + 1 \in 1 .. k
                          /\ t[Cardinality(ahead[x]) + 1] = x
          /\ \A i \in 1 .. k : Cardinality(ahead[t[i]]) = i - 1
          /\ \A i, j \in 1 .. k : t[i] \in ahead[t[j]] <=> i < j
          /\ \A i, j \in 1 .. k : t[i] = t[j] => i = j
  BY ONLY <1>7, RankedFacts
<1>9. /\ Cardinality(M) \in Nat /\ DOMAIN b = 1 .. Cardinality(M) /\ b \in [1 .. Cardinality(M) -> M]
      /\ b \in Seq(M) /\ Len(b) = Cardinality(M)
      /\ \A x \in M : \E i \in 1 .. Cardinality(M) : b[i] = x
      /\ \A i, j \in 1 .. Cardinality(M) : b[i] \in ahead[b[j]] <=> i < j
      /\ \A i, j \in 1 .. Cardinality(M) : b[i] = b[j] => i = j
  BY <1>6, <1>8
<1>10. ToSet(b) = M
  BY <1>9 DEF ToSet
<1>11. Distinct(b)
  BY <1>9 DEF Distinct
<1>12. \A i, j \in 1 .. Len(b) : Precedes(rows, b[i], b[j]) <=> i < j
  BY <1>5, <1>9
<1> QED BY <1>1, <1>9, <1>10, <1>11, <1>12 DEF M, b

-----------------------------------------------------------------------------
(* What a reorder makes of the client's wish and the books it found.       *)
LEMMA PositionsFacts ==
    ASSUME NEW T, NEW order \in Seq(T)
    PROVE  LET to == ReorderPositions(order)
               M  == ToSet(order)
           IN  /\ DOMAIN to = M /\ IsFiniteSet(M)
               /\ \A n \in M : to[n] = Cardinality(Sooner(order)[n]) + 1
                               /\ to[n] \in 1 .. Cardinality(M)
               /\ \A m, n \in M : to[m] < to[n] <=> First(order, m) < First(order, n)
               /\ \A m, n \in M : to[m] = to[n] => m = n
               /\ \A i \in 1 .. Cardinality(M) : \E n \in M : to[n] = i
<1> DEFINE M == ToSet(order)
           to == ReorderPositions(order)
           before == Sooner(order)
<1>1. StrictOrder(M, before)
  BY SoonerIsOrder
<1>2. to = [n \in M |-> Cardinality(before[n]) + 1]
  BY NthCounts DEF ReorderPositions
<1>3. \A m, n \in M : m \in before[n] <=> First(order, m) < First(order, n)
  BY DEF Sooner
<1> HIDE DEF M, before, to
<1>4. /\ Cardinality(M) \in Nat
      /\ \A i \in M : Cardinality(before[i]) \in 0 .. Cardinality(M) - 1
      /\ \A i, j \in M : j \in before[i] <=> Cardinality(before[j]) < Cardinality(before[i])
      /\ \A i, j \in M : Cardinality(before[i]) = Cardinality(before[j]) => i = j
      /\ \A m \in 0 .. Cardinality(M) - 1 : \E i \in M : Cardinality(before[i]) = m
  BY <1>1, PlacesInOrder
<1>5. \A n \in M : Cardinality(before[n]) \in Int /\ to[n] = Cardinality(before[n]) + 1
  BY <1>2, <1>4
<1>6. \A n \in M : to[n] \in 1 .. Cardinality(M)
  BY <1>4, <1>5
<1>7. \A m, n \in M : to[m] < to[n] <=> m \in before[n]
  BY <1>4, <1>5
<1>8. \A m, n \in M : to[m] = to[n] => m = n
  BY <1>4, <1>5
<1>9. ASSUME NEW i \in 1 .. Cardinality(M) PROVE \E n \in M : to[n] = i
  <2>1. i - 1 \in 0 .. Cardinality(M) - 1
    BY <1>4
  <2> QED BY <1>4, <1>5, <2>1
<1>10. DOMAIN to = M /\ IsFiniteSet(M)
  BY <1>1, <1>2 DEF StrictOrder
<1> QED BY <1>3, <1>5, <1>6, <1>7, <1>8, <1>9, <1>10 DEF M, to, before

-----------------------------------------------------------------------------
(* A sequence without repetitions has as many entries as it shows.         *)
LEMMA DistinctCount ==
    ASSUME NEW T, NEW s \in Seq(T), Distinct(s), NEW k \in 0 .. Len(s),
           NEW S, \A i \in 1 .. k : s[i] \in S, \A x \in S : \E i \in 1 .. k : s[i] = x
    PROVE  IsFiniteSet(S) /\ Cardinality(S) = k
<1> DEFINE f == [i \in 1 .. k |-> s[i]]
<1>1. Len(s) \in Nat /\ DOMAIN s = 1 .. Len(s) /\ k \in Nat /\ 1 .. k \subseteq DOMAIN s
  OBVIOUS
<1>2. f \in Surjection(1 .. k, S)
  BY DEF Surjection
<1>3. f \in Injection(1 .. k, S)
  BY <1>1 DEF Distinct, Injection, IsInjective
<1>4. IsFiniteSet(1 .. k) /\ Cardinality(1 .. k) = k
  BY <1>1, FS_Interval
<1> HIDE DEF f
<1>5. ExistsBijection(1 .. k, S)
  BY <1>2, <1>3 DEF ExistsBijection, Bijection
<1> QED BY <1>4, <1>5, FS_Bijection

(* A sequence behind another.                                              *)
LEMMA Joined ==
    ASSUME NEW S, NEW s \in Seq(S), NEW t \in Seq(S)
    PROVE  /\ Len(s) \in Nat /\ DOMAIN s = 1 .. Len(s) /\ Len(t) \in Nat /\ DOMAIN t = 1 .. Len(t)
           /\ s \o t \in Seq(S) /\ Len(s \o t) = Len(s) + Len(t)
           /\ \A i \in 1 .. Len(s) : (s \o t)[i] = s[i]
           /\ \A j \in 1 .. Len(t) : (s \o t)[Len(s) + j] = t[j]
           /\ ToSet(s \o t) = ToSet(s) \cup ToSet(t)
<1> DEFINE u == s \o t
<1>1. PICK k \in Nat : k = Len(s)
  OBVIOUS
<1>2. PICK r \in Nat : r = Len(t)
  OBVIOUS
<1>3. DOMAIN s = 1 .. k /\ DOMAIN t = 1 .. r
  BY <1>1, <1>2
<1>4. /\ u \in Seq(S) /\ Len(u) = k + r
      /\ \A i \in 1 .. k + r : u[i] = IF i <= k THEN s[i] ELSE t[i - k]
  BY <1>1, <1>2, ConcatProperties
<1> HIDE DEF u
<1>5. DOMAIN u = 1 .. k + r
  BY <1>4
<1>6. \A i \in 1 .. k : i \in 1 .. k + r /\ u[i] = s[i]
  <2> TAKE i \in 1 .. k
  <2>1. i \in 1 .. k + r /\ i <= k
    OBVIOUS
  <2> QED BY <1>4, <2>1
<1>7. \A j \in 1 .. r : k + j \in 1 .. k + r /\ u[k + j] = t[j]
  <2> TAKE j \in 1 .. r
  <2>1. k + j \in 1 .. k + r /\ ~(k + j <= k) /\ k + j - k = j
    OBVIOUS
  <2> QED BY <1>4, <2>1
<1>8. \A i \in 1 .. k + r : i \in 1 .. k \/ \E j \in 1 .. r : i = k + j
  <2> TAKE i \in 1 .. k + r
  <2>1. i \notin 1 .. k => i - k \in 1 .. r /\ i = k + (i - k)
    OBVIOUS
  <2> QED BY <2>1
<1>9. ASSUME NEW x PROVE x \in ToSet(u) <=> x \in ToSet(s) \/ x \in ToSet(t)
  <2>1. /\ x \in ToSet(u) <=> \E i \in 1 .. k + r : u[i] = x
        /\ x \in ToSet(s) <=> \E i \in 1 .. k : s[i] = x
        /\ x \in ToSet(t) <=> \E i \in 1 .. r : t[i] = x
    BY <1>3, <1>5 DEF ToSet
  <2>2. ASSUME NEW i \in 1 .. k + r, u[i] = x
        PROVE  (\E m \in 1 .. k : s[m] = x) \/ (\E m \in 1 .. r : t[m] = x)
    BY <1>6, <1>7, <1>8, <2>2
  <2>3. ASSUME NEW i \in 1 .. k, s[i] = x PROVE \E m \in 1 .. k + r : u[m] = x
    BY <1>6, <2>3
  <2>4. ASSUME NEW i \in 1 .. r, t[i] = x PROVE \E m \in 1 .. k + r : u[m] = x
    BY <1>7, <2>4
  <2> QED BY <2>1, <2>2, <2>3, <2>4
<1> QED BY <1>1, <1>2, <1>3, <1>4, <1>6, <1>7, <1>9 DEF u

(* An order for the books of a series names them and nothing else.         *)
LEMMA OrderedFacts ==
    ASSUME NEW M, M \subseteq Nat, NEW wish \in Seq(Nat),
           NEW before \in Seq(M), ToSet(before) = M, Distinct(before)
    PROVE  Ordered(wish, before) \in Seq(Nat) /\ ToSet(Ordered(wish, before)) = M
<1> DEFINE sent == Filtered(wish, M)
           rest == Filtered(before, M \ ToSet(wish))
<1>1. sent \in Seq(Nat) /\ ToSet(sent) = ToSet(wish) \cap M
  BY FilteredFacts
<1>2. rest \in Seq(M) /\ ToSet(rest) = M \cap (M \ ToSet(wish))
  BY FilteredFacts
<1>3. Ordered(wish, before) = sent \o rest
  BY DEF Ordered
<1> HIDE DEF sent, rest
<1>4. rest \in Seq(Nat)
  BY <1>2, SeqMonotonic
<1>5. sent \o rest \in Seq(Nat) /\ ToSet(sent \o rest) = ToSet(sent) \cup ToSet(rest)
  BY <1>1, <1>4, Joined
<1> QED BY <1>1, <1>2, <1>3, <1>5

(* What FirstFacts says of n.                                              *)
PlaceOK(order, n) ==
    /\ First(order, n) \in 1 .. Len(order) /\ order[First(order, n)] = n
    /\ \A j \in 1 .. Len(order) : order[j] = n => First(order, n) <= j

(* Books that stand at the positions of a reorder stand as it was asked.   *)
LEMMA AsAsked ==
    ASSUME NEW M, IsFiniteSet(M), M \subseteq Nat, NEW wish \in Seq(Nat),
           NEW before \in Seq(M), ToSet(before) = M, Distinct(before),
           NEW to, to = ReorderPositions(Ordered(wish, before)),
           NEW after \in Seq(M), Len(after) = Cardinality(M),
           \A i \in 1 .. Len(after) : to[after[i]] = i
    PROVE  PlacedAsAsked(before, after, wish)
<1> DEFINE A == ToSet(wish) \cap M
           B == M \ ToSet(wish)
           sent == Filtered(wish, M)
           rest == Filtered(before, B)
           order == Ordered(wish, before)
<1>1. /\ sent \in Seq(Nat) /\ ToSet(sent) = A
      /\ rest \in Seq(M) /\ ToSet(rest) = B /\ Distinct(rest)
  <2>1. sent \in Seq(Nat) /\ ToSet(sent) = A
    BY FilteredFacts
  <2>2. rest \in Seq(M) /\ ToSet(rest) = ToSet(before) \cap B /\ Distinct(rest)
    BY FilteredFacts
  <2> QED BY <2>1, <2>2
<1>2. /\ to = ReorderPositions(order) /\ sent = Filtered(wish, ToSet(before))
      /\ rest = Filtered(before, ToSet(before) \ ToSet(sent))
      /\ order = sent \o rest
  <2>1. M \ A = B
    OBVIOUS
  <2> QED BY <1>1, <2>1 DEF Ordered
<1>3. M = A \cup B /\ A \cap B = {} /\ A \subseteq M /\ B \subseteq M
      /\ IsFiniteSet(A) /\ IsFiniteSet(B)
  <2>1. M = A \cup B /\ A \cap B = {} /\ A \in SUBSET M /\ B \in SUBSET M
    OBVIOUS
  <2> HIDE DEF A, B
  <2> QED BY <2>1, FS_Subset
<1> HIDE DEF A, B, sent, rest, order
<1>4. PICK k \in Nat : k = Len(sent) /\ DOMAIN sent = 1 .. k
  BY <1>1
<1>5. PICK r \in Nat : r = Len(rest) /\ DOMAIN rest = 1 .. r
  BY <1>1
<1>6. /\ order \in Seq(Nat) /\ Len(order) = k + r /\ ToSet(order) = M
      /\ \A i \in 1 .. k : order[i] = sent[i]
      /\ \A j \in 1 .. r : order[k + j] = rest[j]
  <2>1. rest \in Seq(Nat)
    BY <1>1, SeqMonotonic
  <2>2. /\ sent \o rest \in Seq(Nat) /\ Len(sent \o rest) = Len(sent) + Len(rest)
        /\ \A i \in 1 .. Len(sent) : (sent \o rest)[i] = sent[i]
        /\ \A j \in 1 .. Len(rest) : (sent \o rest)[Len(sent) + j] = rest[j]
        /\ ToSet(sent \o rest) = ToSet(sent) \cup ToSet(rest)
    <3>1. sent \in Seq(Nat)
      BY <1>1
    <3> QED BY ONLY <2>1, <3>1, Joined
  <2>3. ToSet(order) = M
    BY ONLY <1>1, <1>2, <1>3, <2>2
  <2> QED BY ONLY <1>2, <1>4, <1>5, <2>2, <2>3
<1>7. (\A i \in 1 .. k : sent[i] \in A) /\ \A n \in A : \E i \in 1 .. k : sent[i] = n
  BY <1>1, <1>4 DEF ToSet
<1>8. (\A j \in 1 .. r : rest[j] \in B) /\ \A n \in B : \E j \in 1 .. r : rest[j] = n
  BY <1>1, <1>5 DEF ToSet
<1>9. \A i, j \in 1 .. r : rest[i] = rest[j] => i = j
  BY <1>1, <1>5 DEF Distinct
<1>10. \A n \in M : PlaceOK(order, n)
  BY <1>6, FirstFacts DEF PlaceOK
<1>11. ASSUME NEW n \in A
       PROVE  First(order, n) \in 1 .. k /\ sent[First(order, n)] = n
  <2>1. PICK i \in 1 .. k : sent[i] = n
    BY <1>7
  <2>2. n \in M
    BY <1>3
  <2>3. PICK x : x = First(order, n)
    OBVIOUS
  <2>4. x \in 1 .. k + r /\ order[x] = n
        /\ \A j \in 1 .. k + r : order[j] = n => x <= j
    BY <1>6, <1>10, <2>2, <2>3 DEF PlaceOK
  <2>5. i \in 1 .. k + r /\ order[i] = n
    BY <1>6, <2>1
  <2>6. x \in 1 .. k
    BY <2>4, <2>5
  <2> QED BY <1>6, <2>3, <2>4, <2>6
<1>12. ASSUME NEW j \in 1 .. r PROVE First(order, rest[j]) = k + j
  <2>1. rest[j] \in M /\ rest[j] \in B
    BY <1>3, <1>8
  <2>2. PICK x : x = First(order, rest[j])
    OBVIOUS
  <2>3. x \in 1 .. k + r /\ order[x] = rest[j]
    BY <1>6, <1>10, <2>1, <2>2 DEF PlaceOK
  <2>4. x \notin 1 .. k
    BY <1>3, <1>6, <1>7, <2>1, <2>3
  <2>5. x - k \in 1 .. r /\ k + (x - k) = x
    BY <2>3, <2>4
  <2>6. rest[x - k] = rest[j]
    BY <1>6, <2>3, <2>5
  <2>7. x - k = j
    BY <1>9, <2>5, <2>6
  <2> QED BY <2>2, <2>5, <2>7
<1>13. /\ DOMAIN to = M
       /\ \A n \in M : to[n] = Cardinality(Sooner(order)[n]) + 1
                       /\ to[n] \in 1 .. Cardinality(M)
       /\ \A m, n \in M : to[m] < to[n] <=> First(order, m) < First(order, n)
       /\ \A m, n \in M : to[m] = to[n] => m = n
  <2>1. LET t == ReorderPositions(order)
            N == ToSet(order)
        IN  /\ DOMAIN t = N /\ IsFiniteSet(N)
            /\ \A n \in N : t[n] = Cardinality(Sooner(order)[n]) + 1
                            /\ t[n] \in 1 .. Cardinality(N)
            /\ \A m, n \in N : t[m] < t[n] <=> First(order, m) < First(order, n)
            /\ \A m, n \in N : t[m] = t[n] => m = n
            /\ \A i \in 1 .. Cardinality(N) : \E n \in N : t[n] = i
    <3>1. order \in Seq(Nat)
      BY <1>6
    <3> QED BY ONLY <3>1, PositionsFacts
  <2>2. to = ReorderPositions(order) /\ ToSet(order) = M
    BY <1>2, <1>6
  <2> QED BY ONLY <2>1, <2>2
<1>14. Cardinality(A) \in Nat /\ Cardinality(M) \in Nat /\ Cardinality(M) = Cardinality(A) + r
  <2>1. Cardinality(B) = r
    <3>1. rest \in Seq(M) /\ Distinct(rest) /\ r \in 0 .. Len(rest)
      BY <1>1, <1>5
    <3> QED BY ONLY <1>8, <3>1, DistinctCount
  <2>2. Cardinality(A \cup B) = Cardinality(A) + Cardinality(B) - Cardinality(A \cap B)
    BY <1>3, FS_Union
  <2>3. Cardinality(A) \in Nat /\ Cardinality(M) \in Nat /\ Cardinality({}) = 0
    BY <1>3, FS_CardinalityType, FS_EmptySet
  <2>4. Cardinality(M) = Cardinality(A) + Cardinality(B) - Cardinality({})
    BY ONLY <1>3, <2>2
  <2> QED BY ONLY <1>5, <2>1, <2>3, <2>4
<1>15. ASSUME NEW j \in 1 .. r PROVE to[rest[j]] = Cardinality(A) + j
  <2> DEFINE C == {rest[i] : i \in 1 .. (j - 1)}
  <2>1. j \in Nat /\ j - 1 \in 0 .. r
    OBVIOUS
  <2>2. IsFiniteSet(C) /\ Cardinality(C) = j - 1
    <3>1. \A i \in 1 .. (j - 1) : rest[i] \in C
      OBVIOUS
    <3>2. \A x \in C : \E i \in 1 .. (j - 1) : rest[i] = x
      OBVIOUS
    <3> HIDE DEF C
    <3>3. rest \in Seq(M) /\ Distinct(rest) /\ j - 1 \in 0 .. Len(rest)
      BY <1>1, <1>5, <2>1
    <3> QED BY ONLY <3>1, <3>2, <3>3, DistinctCount
  <2>3. C \subseteq B /\ A \cap C = {}
    <3>1. \A i \in 1 .. (j - 1) : i \in 1 .. r
      BY <2>1
    <3>2. C \subseteq B
      BY <1>8, <3>1
    <3> HIDE DEF C
    <3> QED BY <1>3, <3>2
  <2>4. rest[j] \in M
    BY <1>3, <1>8
  <2>5. Sooner(order)[rest[j]] = {m \in M : First(order, m) < k + j}
    BY <1>6, <1>12, <2>4 DEF Sooner
  <2>6. {m \in M : First(order, m) < k + j} = A \cup C
    <3>1. ASSUME NEW m \in A PROVE First(order, m) < k + j
      BY <1>11
    <3>2. ASSUME NEW i \in 1 .. (j - 1) PROVE First(order, rest[i]) < k + j /\ rest[i] \in M
      <4>1. i \in 1 .. r /\ k + i < k + j
        BY <2>1
      <4> QED BY <1>3, <1>8, <1>12, <4>1
    <3>3. ASSUME NEW m \in B, First(order, m) < k + j PROVE m \in C
      <4>1. PICK i \in 1 .. r : rest[i] = m
        BY <1>8
      <4>2. k + i < k + j
        BY <1>12, <3>3, <4>1
      <4>3. i \in 1 .. (j - 1)
        BY <4>2
      <4> QED BY <4>1, <4>3
    <3> QED BY <1>3, <2>3, <3>1, <3>2, <3>3
  <2> HIDE DEF C
  <2>7. Cardinality(A \cup C) = Cardinality(A) + (j - 1)
    <3>1. Cardinality(A \cup C) = Cardinality(A) + Cardinality(C) - Cardinality(A \cap C)
      BY <1>3, <2>2, FS_Union
    <3>2. Cardinality(A \cap C) = 0
      BY <2>3, FS_EmptySet
    <3> QED BY <1>14, <2>1, <2>2, <3>1, <3>2
  <2>8. Cardinality(Sooner(order)[rest[j]]) = Cardinality(A) + (j - 1)
    BY ONLY <2>5, <2>6, <2>7
  <2>9. to[rest[j]] = Cardinality(Sooner(order)[rest[j]]) + 1
    BY <1>13, <2>4
  <2>10. Cardinality(A) \in Nat /\ j \in Nat
    BY <1>14, <2>1
  <2> QED BY ONLY <2>8, <2>9, <2>10
<1>16. /\ DOMAIN after = 1 .. Cardinality(M)
       /\ \A i \in 1 .. Cardinality(M) : after[i] \in M /\ to[after[i]] = i
  BY <1>14
<1>17. ASSUME NEW j \in 1 .. r PROVE after[Cardinality(A) + j] = rest[j]
  <2>1. Cardinality(A) + j \in 1 .. Cardinality(M)
    BY <1>14
  <2>2. rest[j] \in M /\ to[rest[j]] = Cardinality(A) + j
    BY <1>3, <1>8, <1>15
  <2>3. PICK i \in 1 .. Cardinality(M) : i = Cardinality(A) + j
    BY <2>1
  <2>4. to[after[i]] = to[rest[j]] /\ after[i] \in M
    BY ONLY <1>16, <2>2, <2>3
  <2>5. \A m, n \in M : to[m] = to[n] => m = n
    BY <1>13
  <2>6. after[i] = rest[j]
    BY ONLY <2>2, <2>4, <2>5
  <2> QED BY <2>3, <2>6
<1>18. ASSUME NEW i \in DOMAIN after, NEW j \in DOMAIN after, i < j, after[j] \in A
       PROVE  /\ after[i] \in A
              /\ \E x, y \in DOMAIN sent : sent[x] = after[i] /\ sent[y] = after[j] /\ x < y
  <2>1. after[i] \in M /\ after[j] \in M /\ to[after[i]] < to[after[j]]
    BY <1>16, <1>18
  <2>2. First(order, after[i]) < First(order, after[j])
    BY <1>13, <2>1
  <2>3. First(order, after[j]) \in 1 .. k /\ sent[First(order, after[j])] = after[j]
    BY <1>11, <1>18
  <2>4. after[i] \in A
    <3>1. SUFFICES ASSUME after[i] \in B PROVE FALSE
      BY <1>3, <2>1
    <3>2. PICK x \in 1 .. r : rest[x] = after[i]
      BY <1>8, <3>1
    <3>3. First(order, after[i]) = k + x
      BY <1>12, <3>2
    <3> QED BY <2>2, <2>3, <3>3
  <2>5. First(order, after[i]) \in 1 .. k /\ sent[First(order, after[i])] = after[i]
    BY <1>11, <2>4
  <2> QED BY <1>4, <2>2, <2>3, <2>4, <2>5
<1>19. IsSuffix(rest, after)
  <2> DEFINE p == Reverse(rest)
             q == Reverse(after)
  <2>1. PICK l \in Nat : l = Cardinality(M) /\ l = Cardinality(A) + r /\ r <= l /\ Len(after) = l
    BY <1>14
  <2>2. p = [i \in 1 .. r |-> rest[(r - i) + 1]] /\ q = [i \in 1 .. l |-> after[(l - i) + 1]]
    BY <1>5, <2>1 DEF Reverse
  <2> HIDE DEF p, q
  <2>3. \A i \in 1 .. r : p[i] = q[i] /\ p[i] \in M /\ q[i] \in M
    <3> TAKE i \in 1 .. r
    <3>1. PICK j \in 1 .. r : j = (r - i) + 1
      OBVIOUS
    <3>2. i \in 1 .. l /\ (l - i) + 1 = Cardinality(A) + j
      BY <1>14, <2>1, <3>1
    <3>3. p[i] = rest[j] /\ q[i] = after[Cardinality(A) + j]
      BY <2>2, <3>1, <3>2
    <3>4. rest[j] \in M
      BY <1>3, <1>8
    <3> QED BY <1>17, <3>3, <3>4
  <2>4. \A i \in 1 .. l : q[i] \in M
    <3> TAKE i \in 1 .. l
    <3>1. PICK j \in 1 .. l : j = (l - i) + 1
      OBVIOUS
    <3> QED BY <1>16, <2>1, <2>2, <3>1
  <2>5. p \in Seq(M) /\ q \in Seq(M) /\ Len(p) = r /\ Len(q) = l
    <3>1. p \in [1 .. r -> M] /\ q \in [1 .. l -> M]
      BY <2>2, <2>3, <2>4
    <3> QED BY <3>1
  <2>6. SubSeq(p, 1, r) = SubSeq(q, 1, r)
    <3>1. r \in Int /\ 1 \in Int /\ r - 1 + 1 = r
      OBVIOUS
    <3>2. /\ SubSeq(p, 1, r) \in Seq(M)
          /\ Len(SubSeq(p, 1, r)) = IF 1 <= r THEN r - 1 + 1 ELSE 0
          /\ \A i \in 1 .. r - 1 + 1 : SubSeq(p, 1, r)[i] = p[1 + i - 1]
      BY <2>3, <3>1, SubSeqProperties
    <3>3. /\ SubSeq(q, 1, r) \in Seq(M)
          /\ Len(SubSeq(q, 1, r)) = IF 1 <= r THEN r - 1 + 1 ELSE 0
          /\ \A i \in 1 .. r - 1 + 1 : SubSeq(q, 1, r)[i] = q[1 + i - 1]
      BY <2>3, <3>1, SubSeqProperties
    <3>4. Len(SubSeq(p, 1, r)) = r /\ Len(SubSeq(q, 1, r)) = r
      BY <3>2, <3>3
    <3>5. \A i \in 1 .. r : SubSeq(p, 1, r)[i] = SubSeq(q, 1, r)[i]
      <4> TAKE i \in 1 .. r
      <4>1. 1 + i - 1 = i /\ i \in 1 .. r - 1 + 1
        OBVIOUS
      <4> QED BY <2>3, <3>2, <3>3, <4>1
    <3> QED BY <3>2, <3>3, <3>4, <3>5, SeqEqual
  <2> QED BY <2>1, <2>5, <2>6 DEF IsSuffix, IsPrefix, p, q
<1>20. Len(after) = Cardinality(ToSet(sent)) + Len(rest)
  BY <1>1, <1>5, <1>14
<1> QED BY <1>1, <1>2, <1>18, <1>19, <1>20 DEF PlacedAsAsked

-----------------------------------------------------------------------------
(* The invariant, of committed rows and of requests.                       *)
BookRow  == [series : Collection \cup {NoSeries}, slot : Slots]
SomeRows == UNION {[S -> BookRow] : S \in SUBSET Book}
Reorders == [kind : {"reorder"}, series : Collection, step : {"negate", "assign", "commit"},
             wish : Wish, to : UNION {[S -> Int] : S \in SUBSET Book}, wrote : SomeRows]
Drops    == [kind : {"drop"}, series : Collection, step : {"drop", "commit"}, wrote : SomeRows]
Edits    == Reorders \cup Drops \cup {Resting}

(* The rows that request e has written, and what it sees of the rows b.    *)
HeldBy(e)  == IF e.kind \in {"reorder", "drop"} THEN DOMAIN e.wrote ELSE {}
SeenBy(e, b) == [n \in Book |-> IF n \in HeldBy(e) THEN e.wrote[n] ELSE b[n]]

(* The index holds.                                                        *)
Apart(b) == \A m, n \in Book : ~Clash(b, m, n)

(* What e has written belongs to its series, or no longer to any; a reorder *)
(* that has only to commit will not break the index.                       *)
EditOK(e, b) ==
    /\ e.kind = "reorder" => \A n \in HeldBy(e) : /\ b[n].series = e.series
                                                  /\ e.wrote[n].series = e.series
    /\ e.kind = "drop" => \A n \in HeldBy(e) : e.wrote[n].series = NoSeries
    /\ e.kind = "reorder" /\ e.step = "commit" => Apart(SeenBy(e, b))

(* No row is held twice; two reorders of a series are not both at their    *)
(* commit, unless they have nothing to write.                              *)
PairOK(d, e) ==
    /\ HeldBy(d) \cap HeldBy(e) = {}
    /\ d.kind = "reorder" /\ e.kind = "reorder" /\ d.step = "commit" /\ e.step = "commit"
         /\ d.series = e.series => HeldBy(d) = {} \/ HeldBy(e) = {}

(* How far a reorder has come that nobody has disturbed.                   *)
SoloOK(e, b) ==
    e.kind = "reorder" =>
      LET M == Members(b, e.series)
      IN  /\ e.to = ReorderPositions(Ordered(e.wish, SeriesBooks(b, e.series)))
          /\ e.step = "negate" => HeldBy(e) = {}
          /\ e.step = "assign" => /\ HeldBy(e) = {n \in M : b[n].slot # {}}
                                  /\ \A n \in HeldBy(e) : e.wrote[n] = Negated(b[n])
          /\ e.step = "commit" => /\ HeldBy(e) = M
                                  /\ \A n \in M : e.wrote[n].slot = {e.to[n]}

Consistent(b, ed, al) ==
    /\ b \in SeriesRows /\ ed \in [Editor -> Edits] /\ Apart(b)
    /\ \A q \in Editor : EditOK(ed[q], b)
    /\ \A p, q \in Editor : p # q => PairOK(ed[p], ed[q])
    /\ \A q \in al \cap Editor : SoloOK(ed[q], b)

SeriesInv == Consistent(book, edit, alone)

-----------------------------------------------------------------------------
(* What the shape of a request says.                                       *)
LEMMA EditShape ==
    ASSUME NEW e \in Edits
    PROVE  /\ e.kind \in {"reorder", "drop", "rest"}
           /\ e.kind = "reorder" <=> e \in Reorders
           /\ e.kind = "drop" <=> e \in Drops
           /\ e.kind = "rest" <=> e = Resting
<1>1. CASE e \in Reorders
  BY <1>1 DEF Reorders, Drops, Resting
<1>2. CASE e \in Drops
  BY <1>2 DEF Reorders, Drops, Resting
<1>3. CASE e = Resting
  <2>1. e.kind = "rest"
    BY <1>3 DEF Resting
  <2> QED BY <1>3, <2>1 DEF Reorders, Drops
<1> QED BY <1>1, <1>2, <1>3 DEF Edits

LEMMA HeldShape ==
    ASSUME NEW e \in Edits, NEW b \in SeriesRows
    PROVE  /\ HeldBy(e) \in SUBSET Book
           /\ \A n \in HeldBy(e) : e.wrote[n] \in BookRow
           /\ e.kind = "rest" => HeldBy(e) = {}
           /\ e.kind # "rest" => HeldBy(e) = DOMAIN e.wrote
           /\ SeenBy(e, b) \in SeriesRows
           /\ \A n \in Book : SeenBy(e, b)[n] = IF n \in HeldBy(e) THEN e.wrote[n] ELSE b[n]
<1>1. e.kind # "rest" => HeldBy(e) = DOMAIN e.wrote /\ e.wrote \in SomeRows
  BY EditShape DEF HeldBy, Reorders, Drops
<1>2. e.kind = "rest" => HeldBy(e) = {}
  BY EditShape DEF HeldBy
<1>3. HeldBy(e) \in SUBSET Book /\ \A n \in HeldBy(e) : e.wrote[n] \in BookRow
  <2>1. CASE e.kind = "rest"
    BY <1>2, <2>1
  <2>2. CASE e.kind # "rest"
    <3>1. PICK S \in SUBSET Book : e.wrote \in [S -> BookRow]
      BY <1>1, <2>2 DEF SomeRows
    <3> QED BY <1>1, <2>2, <3>1
  <2> QED BY <2>1, <2>2
<1>4. \A n \in Book : b[n] \in BookRow
  BY DEF SeriesRows, BookRow
<1> QED BY <1>1, <1>2, <1>3, <1>4 DEF SeenBy, SeriesRows, BookRow

(* A request's next statement, or its end.                                 *)
LEMMA RequestMoves ==
    ASSUME NEW b, NEW ed, NEW al, Consistent(b, ed, al), NEW q \in Editor,
           NEW e \in Edits, EditOK(e, b), \A p \in Editor \ {q} : PairOK(ed[p], e),
           NEW al2, al2 \subseteq al \cup {q}, q \in al2 => SoloOK(e, b)
    PROVE  Consistent(b, [ed EXCEPT ![q] = e], al2)
<1> DEFINE ed2 == [ed EXCEPT ![q] = e]
<1>1. ed2 \in [Editor -> Edits] /\ ed2[q] = e /\ \A p \in Editor \ {q} : ed2[p] = ed[p]
  BY DEF Consistent
<1> HIDE DEF ed2
<1>2. \A p \in Editor : EditOK(ed2[p], b)
  BY <1>1 DEF Consistent
<1>3. ASSUME NEW p \in Editor, NEW r \in Editor, p # r PROVE PairOK(ed2[p], ed2[r])
  <2>1. PairOK(ed[p], ed[r])
    BY <1>3 DEF Consistent
  <2>2. \A c \in Editor \ {q} : PairOK(ed[c], e) /\ PairOK(e, ed[c])
    BY DEF PairOK
  <2> QED BY <1>1, <1>3, <2>1, <2>2
<1>4. \A p \in al2 \cap Editor : SoloOK(ed2[p], b)
  <2> TAKE p \in al2 \cap Editor
  <2>1. p # q => p \in al \cap Editor
    OBVIOUS
  <2>2. p # q => SoloOK(ed[p], b)
    BY <2>1 DEF Consistent
  <2> QED BY <1>1, <2>2
<1> QED BY <1>1, <1>2, <1>3, <1>4 DEF Consistent, ed2

LEMMA RestIsOK ==
    ASSUME NEW b
    PROVE  /\ Resting \in Edits /\ EditOK(Resting, b) /\ SoloOK(Resting, b)
           /\ \A d : PairOK(d, Resting)
<1>1. Resting.kind = "rest" /\ Resting \in Edits
  BY DEF Resting, Edits
<1>2. HeldBy(Resting) = {}
  BY <1>1 DEF HeldBy
<1> QED BY <1>1, <1>2 DEF EditOK, SoloOK, PairOK

LEMMA RequestEnds ==
    ASSUME NEW b, NEW ed, NEW al, Consistent(b, ed, al), NEW q \in Editor
    PROVE  Consistent(b, [ed EXCEPT ![q] = Resting], al)
BY RequestMoves, RestIsOK

LEMMA SameClash ==
    ASSUME NEW a, NEW b, NEW m, NEW n, a[m] = b[m], a[n] = b[n]
    PROVE  Clash(a, m, n) <=> Clash(b, m, n)
BY DEF Clash

(* The commit of a reorder or of a deletion.                               *)
LEMMA CommitApart ==
    ASSUME NEW b, b \in SeriesRows, Apart(b), NEW e \in Edits, EditOK(e, b),
           e.kind # "rest", e.step = "commit"
    PROVE  Apart(SeenBy(e, b))
<1>1. e.kind = "reorder" \/ e.kind = "drop"
  BY EditShape
<1>2. CASE e.kind = "reorder"
  BY <1>2 DEF EditOK
<1>3. CASE e.kind = "drop"
  <2>1. SUFFICES ASSUME NEW m \in Book, NEW n \in Book, Clash(SeenBy(e, b), m, n) PROVE FALSE
    BY DEF Apart
  <2>2. \A x \in Book : SeenBy(e, b)[x] = IF x \in HeldBy(e) THEN e.wrote[x] ELSE b[x]
    BY HeldShape
  <2>3. m \notin HeldBy(e) /\ n \notin HeldBy(e)
    BY <1>3, <2>1, <2>2 DEF Clash, EditOK
  <2>4. Clash(b, m, n)
    BY <2>1, <2>2, <2>3, SameClash
  <2> QED BY <2>4 DEF Apart
<1> QED BY <1>1, <1>2, <1>3

LEMMA CommitBeside ==
    ASSUME NEW b, b \in SeriesRows, Apart(b), NEW e \in Edits, EditOK(e, b),
           e.kind # "rest", e.step = "commit",
           NEW d \in Edits, EditOK(d, b), PairOK(d, e)
    PROVE  EditOK(d, SeenBy(e, b))
<1> DEFINE b2 == SeenBy(e, b)
           x == SeenBy(d, b2)
           y == SeenBy(d, b)
<1>1. b2 \in SeriesRows /\ HeldBy(e) \subseteq Book /\ HeldBy(d) \subseteq Book
      /\ \A n \in Book : b2[n] = IF n \in HeldBy(e) THEN e.wrote[n] ELSE b[n]
  BY HeldShape
<1> HIDE DEF b2
<1>2. /\ \A n \in Book : x[n] = IF n \in HeldBy(d) THEN d.wrote[n] ELSE b2[n]
      /\ \A n \in Book : y[n] = IF n \in HeldBy(d) THEN d.wrote[n] ELSE b[n]
  BY <1>1, HeldShape
<1> HIDE DEF x, y
<1>3. \A n \in HeldBy(d) : n \in Book /\ n \notin HeldBy(e) /\ b2[n] = b[n]
  BY <1>1 DEF PairOK
<1>4. Apart(b2)
  BY CommitApart DEF b2
<1>5. ASSUME d.kind = "reorder", d.step = "commit", NEW m \in Book, NEW n \in Book, Clash(x, m, n)
      PROVE  FALSE
  <2>1. Apart(y)
    BY <1>5 DEF EditOK, y
  <2>2. CASE m \notin HeldBy(e) /\ n \notin HeldBy(e)
    <3>1. x[m] = y[m] /\ x[n] = y[n]
      BY <1>1, <1>2, <2>2
    <3> QED BY <1>5, <2>1, <3>1, SameClash DEF Apart
  <2>3. CASE m \notin HeldBy(d) /\ n \notin HeldBy(d)
    <3>1. x[m] = b2[m] /\ x[n] = b2[n]
      BY <1>2, <2>3
    <3> QED BY <1>4, <1>5, <3>1, SameClash DEF Apart
  <2>4. ASSUME NEW u \in HeldBy(e), NEW v \in HeldBy(d), x[u].series = x[v].series,
               x[u].series # NoSeries
        PROVE  FALSE
    <3>1. u \in Book /\ v \in Book /\ u \notin HeldBy(d) /\ v \notin HeldBy(e)
      BY <1>1 DEF PairOK
    <3>2. x[u] = e.wrote[u] /\ x[v] = d.wrote[v]
      BY <1>1, <1>2, <3>1
    <3>3. e.kind = "reorder" \/ e.kind = "drop"
      BY EditShape
    <3>4. e.kind # "drop"
      BY <2>4, <3>2 DEF EditOK
    <3>5. x[u].series = e.series /\ x[v].series = d.series
      BY <1>5, <3>2, <3>3, <3>4 DEF EditOK
    <3> QED BY <1>5, <2>4, <3>3, <3>4, <3>5 DEF PairOK
  <2>5. x[m].series = x[n].series /\ x[m].series # NoSeries
    BY <1>5 DEF Clash
  <2> QED BY <2>2, <2>3, <2>4, <2>5
<1>6. d.kind = "reorder" /\ d.step = "commit" => Apart(x)
  BY <1>5 DEF Apart
<1>7. d.kind = "reorder" =>
        \A n \in HeldBy(d) : b2[n].series = d.series /\ d.wrote[n].series = d.series
  BY <1>3 DEF EditOK
<1>8. d.kind = "drop" => \A n \in HeldBy(d) : d.wrote[n].series = NoSeries
  BY DEF EditOK
<1> QED BY <1>6, <1>7, <1>8 DEF EditOK, x, b2

LEMMA CommitMoves ==
    ASSUME NEW b, NEW ed, NEW al, Consistent(b, ed, al), NEW q \in Editor,
           ed[q].kind # "rest", ed[q].step = "commit",
           NEW al2, \A p \in al2 \cap Editor : p # q => ed[p].kind # "reorder"
    PROVE  Consistent(SeenBy(ed[q], b), [ed EXCEPT ![q] = Resting], al2)
<1> DEFINE ed2 == [ed EXCEPT ![q] = Resting]
           b2 == SeenBy(ed[q], b)
<1>1. b \in SeriesRows /\ Apart(b) /\ \A p \in Editor : ed[p] \in Edits /\ EditOK(ed[p], b)
  BY DEF Consistent
<1>2. /\ ed2 \in [Editor -> Edits] /\ ed2[q] = Resting
      /\ \A p \in Editor \ {q} : ed2[p] = ed[p]
  BY RestIsOK DEF Consistent
<1> HIDE DEF ed2
<1>3. b2 \in SeriesRows /\ Apart(b2)
  BY <1>1, CommitApart, HeldShape
<1>4. \A p \in Editor \ {q} : PairOK(ed[p], ed[q])
  BY DEF Consistent
<1>5. \A p \in Editor \ {q} : EditOK(ed[p], b2)
  BY <1>1, <1>4, CommitBeside
<1> HIDE DEF b2
<1>6. \A p \in Editor : EditOK(ed2[p], b2)
  BY <1>2, <1>5, RestIsOK
<1>7. ASSUME NEW p \in Editor, NEW r \in Editor, p # r PROVE PairOK(ed2[p], ed2[r])
  <2>1. PairOK(ed[p], ed[r])
    BY <1>7 DEF Consistent
  <2>2. \A d : PairOK(d, Resting) /\ PairOK(Resting, d)
    BY RestIsOK DEF PairOK
  <2> QED BY <1>2, <1>7, <2>1, <2>2
<1>8. \A p \in al2 \cap Editor : SoloOK(ed2[p], b2)
  <2> TAKE p \in al2 \cap Editor
  <2>1. CASE p = q
    BY <1>2, <2>1, RestIsOK
  <2>2. CASE p # q
    BY <1>2, <2>2 DEF SoloOK
  <2> QED BY <2>1, <2>2
<1> QED BY <1>2, <1>3, <1>6, <1>7, <1>8 DEF Consistent, ed2, b2

(* An update of one row, when what others have written is out of its way.  *)
LEMMA RowMoves ==
    ASSUME NEW b, NEW ed, NEW al, Consistent(b, ed, al), NEW n \in Book, NEW r \in BookRow,
           \A q \in Editor : n \notin HeldBy(ed[q]),
           \A q \in Editor, m \in Book \ {n} :
              m \in HeldBy(ed[q]) /\ r.series # NoSeries =>
                 \/ r.slot \cap (b[m].slot \cup ed[q].wrote[m].slot) = {}
                 \/ r.series \notin {b[m].series, ed[q].wrote[m].series},
           NEW b2, b2 = [b EXCEPT ![n] = r], \A m \in Book : ~Clash(b2, m, n),
           NEW al2, \A p \in al2 \cap Editor : ed[p].kind # "reorder"
    PROVE  Consistent(b2, ed, al2)
<1>1. b \in SeriesRows /\ Apart(b) /\ \A p \in Editor : ed[p] \in Edits /\ EditOK(ed[p], b)
  BY DEF Consistent
<1>2. b2 \in SeriesRows /\ b2[n] = r /\ \A m \in Book \ {n} : b2[m] = b[m]
  BY <1>1 DEF SeriesRows, BookRow
<1>3. \A m, l \in Book : Clash(b2, m, l) => Clash(b2, l, m)
  BY DEF Clash
<1>4. Apart(b2)
  <2> SUFFICES ASSUME NEW m \in Book, NEW l \in Book, Clash(b2, m, l) PROVE FALSE
    BY DEF Apart
  <2>1. m # n /\ l # n
    BY <1>3
  <2>2. Clash(b, m, l)
    BY <1>2, <2>1, SameClash
  <2> QED BY <1>1, <2>2 DEF Apart
<1>5. ASSUME NEW q \in Editor PROVE EditOK(ed[q], b2)
  <2> DEFINE e == ed[q]
             x == SeenBy(e, b2)
             y == SeenBy(e, b)
  <2>1. e \in Edits /\ EditOK(e, b) /\ HeldBy(e) \subseteq Book
    BY <1>1, HeldShape
  <2>2. /\ \A m \in Book : x[m] = IF m \in HeldBy(e) THEN e.wrote[m] ELSE b2[m]
        /\ \A m \in Book : y[m] = IF m \in HeldBy(e) THEN e.wrote[m] ELSE b[m]
    <3>1. \A m \in Book : x[m] = IF m \in HeldBy(e) THEN e.wrote[m] ELSE b2[m]
      <4>1. e \in Edits /\ b2 \in SeriesRows
        BY <1>2, <2>1
      <4> HIDE DEF e
      <4> QED BY ONLY <4>1, HeldShape DEF x
    <3>2. \A m \in Book : y[m] = IF m \in HeldBy(e) THEN e.wrote[m] ELSE b[m]
      BY <1>1, HeldShape
    <3> QED BY <3>1, <3>2
  <2>3. \A m \in HeldBy(e) : m \in Book \ {n} /\ b2[m] = b[m]
    BY <1>2, <2>1
  <2>0. \A m \in Book \ {n} :
              m \in HeldBy(e) /\ r.series # NoSeries =>
                 \/ r.slot \cap (b[m].slot \cup e.wrote[m].slot) = {}
                 \/ r.series \notin {b[m].series, e.wrote[m].series}
    OBVIOUS
  <2>9. n \notin HeldBy(e)
    OBVIOUS
  <2> HIDE DEF x, y, e
  <2>4. ASSUME e.kind = "reorder", e.step = "commit", NEW m \in Book, NEW l \in Book, Clash(x, m, l)
        PROVE  FALSE
    <3>1. Apart(y)
      BY <2>1, <2>4 DEF EditOK, y
    <3>2. CASE m # n /\ l # n
      <4>1. x[m] = y[m] /\ x[l] = y[l]
        BY <1>2, <2>2, <3>2
      <4> QED BY <2>4, <3>1, <4>1, SameClash DEF Apart
    <3>3. ASSUME NEW k \in Book, Clash(x, k, n) PROVE FALSE
      <4>1. x[n] = r /\ x[n] = b2[n] /\ k # n
        BY <1>2, <2>2, <2>9, <3>3 DEF Clash
      <4>2. CASE k \in HeldBy(e)
        <5>1. x[k] = e.wrote[k]
          BY <2>2, <4>2
        <5>2. r.series # NoSeries /\ r.series = e.wrote[k].series
              /\ r.slot \cap e.wrote[k].slot # {}
          BY <3>3, <4>1, <5>1 DEF Clash
        <5> QED BY <2>0, <4>1, <4>2, <5>2
      <4>3. CASE k \notin HeldBy(e)
        <5>1. x[k] = b2[k]
          BY <2>2, <4>3
        <5> QED BY <3>3, <4>1, <5>1, SameClash
      <4> QED BY <4>2, <4>3
    <3>4. Clash(x, l, m)
      BY <2>4 DEF Clash
    <3> QED BY <2>4, <3>2, <3>3, <3>4
  <2>5. e.kind = "reorder" /\ e.step = "commit" => Apart(x)
    BY <2>4 DEF Apart
  <2> QED BY <2>1, <2>3, <2>5 DEF EditOK, x, e
<1>6. \A q \in al2 \cap Editor : SoloOK(ed[q], b2)
  BY DEF SoloOK
<1> QED BY <1>2, <1>4, <1>5, <1>6 DEF Consistent

(* An enumeration reaches every row; of two rows, the later one sees both. *)
LEMMA EnumFacts ==
    ASSUME NEW S, IsFiniteSet(S), NEW order \in SetToSeqs(S)
    PROVE  /\ \A i \in DOMAIN order :
                /\ order[i] \in S /\ order[i] \in ToSet(SubSeq(order, 1, i))
                /\ ToSet(SubSeq(order, 1, i)) \subseteq S
           /\ \A m, n \in S : \E i \in DOMAIN order :
                order[i] \in {m, n} /\ {m, n} \subseteq ToSet(SubSeq(order, 1, i))
<1>1. PICK k \in Nat : k = Cardinality(S)
  BY FS_CardinalityType
<1>2. order \in [1 .. k -> S] /\ \A i, j \in 1 .. k : i # j => order[i] # order[j]
  BY <1>1 DEF SetToSeqs
<1>3. \A n \in S : \E i \in 1 .. k : order[i] = n
  <2>1. order \in Injection(1 .. k, S)
    BY <1>2 DEF Injection, IsInjective
  <2>2. IsFiniteSet(1 .. k) /\ Cardinality(1 .. k) = k
    BY FS_Interval
  <2>3. order \in Surjection(1 .. k, S)
    BY <1>1, <2>1, <2>2, FS_Injection
  <2> QED BY <2>3 DEF Surjection
<1>4. ASSUME NEW i \in 1 .. k
      PROVE  ToSet(SubSeq(order, 1, i)) = {order[j] : j \in 1 .. i}
  <2>1. i \in Int /\ 1 \in Int /\ \A j \in 1 .. i : order[j] \in S
    BY <1>2
  <2>2. /\ SubSeq(order, 1, i) \in Seq(S)
        /\ Len(SubSeq(order, 1, i)) = IF 1 <= i THEN i - 1 + 1 ELSE 0
        /\ \A j \in 1 .. i - 1 + 1 : SubSeq(order, 1, i)[j] = order[1 + j - 1]
    BY <2>1, SubSeqProperties
  <2>3. DOMAIN SubSeq(order, 1, i) = 1 .. i /\ \A j \in 1 .. i : SubSeq(order, 1, i)[j] = order[j]
    BY <2>2
  <2> QED BY <2>3 DEF ToSet
<1>5. ASSUME NEW i \in 1 .. k
      PROVE  /\ order[i] \in S /\ order[i] \in ToSet(SubSeq(order, 1, i))
             /\ ToSet(SubSeq(order, 1, i)) \subseteq S
  <2>1. i \in 1 .. i /\ 1 .. i \subseteq 1 .. k
    OBVIOUS
  <2> QED BY <1>2, <1>4, <2>1
<1>6. ASSUME NEW m \in S, NEW n \in S
      PROVE  \E i \in 1 .. k :
                order[i] \in {m, n} /\ {m, n} \subseteq ToSet(SubSeq(order, 1, i))
  <2>1. PICK i \in 1 .. k : order[i] = m
    BY <1>3
  <2>2. PICK j \in 1 .. k : order[j] = n
    BY <1>3
  <2>3. CASE i <= j
    <3>1. i \in 1 .. j /\ j \in 1 .. j
      BY <2>3
    <3> QED BY <1>4, <2>1, <2>2, <3>1
  <2>4. CASE j <= i
    <3>1. i \in 1 .. i /\ j \in 1 .. i
      BY <2>4
    <3> QED BY <1>4, <2>1, <2>2, <3>1
  <2> QED BY <2>3, <2>4
<1>7. DOMAIN order = 1 .. k
  BY <1>2
<1>8. \A i \in DOMAIN order :
         /\ order[i] \in S /\ order[i] \in ToSet(SubSeq(order, 1, i))
         /\ ToSet(SubSeq(order, 1, i)) \subseteq S
  BY <1>5, <1>7
<1>9. \A m, n \in S : \E i \in DOMAIN order :
         order[i] \in {m, n} /\ {m, n} \subseteq ToSet(SubSeq(order, 1, i))
  BY <1>6, <1>7
<1> QED BY ONLY <1>8, <1>9

LEMMA NegatedFacts ==
    ASSUME NEW r \in BookRow
    PROVE  /\ Negated(r) \in BookRow
           /\ Negated(r).series = r.series /\ Negated(r).slot = {0 - p : p \in r.slot}
<1>1. Negated(r).series = r.series /\ Negated(r).slot = {0 - p : p \in r.slot}
  BY DEF Negated, BookRow
<1>2. {0 - p : p \in r.slot} \in Slots
  <2>1. r.slot = {} \/ \E x \in Int : r.slot = {x}
    BY DEF BookRow, Slots
  <2>2. CASE r.slot = {}
    BY <2>2 DEF Slots
  <2>3. ASSUME NEW x \in Int, r.slot = {x} PROVE {0 - p : p \in r.slot} \in Slots
    <3>1. {0 - p : p \in r.slot} = {0 - x} /\ 0 - x \in Int
      BY <2>3
    <3> QED BY <3>1 DEF Slots
  <2> QED BY <2>1, <2>2, <2>3
<1> QED BY <1>1, <1>2 DEF Negated, BookRow

(* Moving the positions of some books out of the way trips over nothing,   *)
(* unless one is negative.                                                 *)
LEMMA NegateSmooth ==
    ASSUME NEW rows \in SeriesRows, Apart(rows), NEW s, NEW S, IsFiniteSet(S), S \subseteq Book,
           \A n \in Book : n \in S <=> rows[n].series = s /\ rows[n].slot # {},
           \A n \in S : \A p \in rows[n].slot : p >= 0,
           NEW new, \A n \in Book : new[n] = Negated(rows[n]),
           NEW order \in SetToSeqs(S)
    PROVE  ~Trips(rows, new, order)
<1>1. SUFFICES ASSUME NEW i \in DOMAIN order, NEW m \in Book,
                      Clash(Mixed(rows, new, ToSet(SubSeq(order, 1, i))), m, order[i])
               PROVE  FALSE
  BY DEF Trips
<1>2. PICK P \in SUBSET S : P = ToSet(SubSeq(order, 1, i))
  BY EnumFacts
<1>3. PICK n \in S : n = order[i] /\ n \in P
  BY <1>2, EnumFacts
<1>4. Clash(Mixed(rows, new, P), m, n)
  BY <1>1, <1>2, <1>3
<1>5. /\ \A x \in Book : rows[x] \in BookRow
      /\ \A x \in Book : new[x].series = rows[x].series
                         /\ new[x].slot = {0 - p : p \in rows[x].slot}
  <2>1. \A x \in Book : rows[x] \in BookRow
    BY DEF SeriesRows, BookRow
  <2>2. ASSUME NEW x \in Book
        PROVE  new[x].series = rows[x].series /\ new[x].slot = {0 - p : p \in rows[x].slot}
    BY <2>1, NegatedFacts
  <2> QED BY <2>1, <2>2
<1>6. PICK p \in Int : rows[n].slot = {p} /\ new[n].slot = {0 - p} /\ p >= 0
  <2>1. n \in Book /\ rows[n].slot \in Slots /\ rows[n].slot # {}
    BY <1>5 DEF BookRow
  <2>2. PICK p \in Int : rows[n].slot = {p}
    BY <2>1 DEF Slots
  <2> QED BY <1>5, <2>1, <2>2
<1>7. n \in Book /\ Mixed(rows, new, P)[n] = new[n]
  BY <1>3 DEF Mixed
<1>8. Mixed(rows, new, P)[m] = IF m \in P THEN new[m] ELSE rows[m]
  BY DEF Mixed
<1>9. m # n /\ rows[m].series = s /\ rows[n].series = s /\ s # NoSeries
  BY <1>4, <1>5, <1>7, <1>8 DEF Clash
<1>10. 0 - p \in Mixed(rows, new, P)[m].slot
  BY <1>4, <1>6, <1>7 DEF Clash
<1>11. PICK r \in Int : rows[m].slot = {r}
  <2>1. rows[m].slot \in Slots
    BY <1>5 DEF BookRow
  <2>2. rows[m].slot # {}
    BY <1>5, <1>8, <1>10
  <2> QED BY <2>1, <2>2 DEF Slots
<1>12. r >= 0 /\ (0 - p = 0 - r \/ 0 - p = r)
  <2>1. m \in S
    BY <1>9, <1>11
  <2>2. new[m].slot = {0 - r}
    BY <1>5, <1>11
  <2> QED BY <1>8, <1>10, <1>11, <2>1, <2>2
<1>13. p = r
  BY <1>6, <1>12
<1>14. Clash(rows, m, n)
  BY <1>6, <1>9, <1>11, <1>13 DEF Clash
<1> QED BY <1>7, <1>14 DEF Apart

(* Nor does giving the books of a series new, different places, when none  *)
(* of them stands at a positive one any more.                              *)
LEMMA AssignSmooth ==
    ASSUME NEW rows \in SeriesRows, NEW s, NEW S, IsFiniteSet(S), S \subseteq Book,
           \A n \in Book : n \in S <=> rows[n].series = s,
           \A n \in S : \A p \in rows[n].slot : p <= 0,
           NEW to, \A n \in S : to[n] \in Nat \ {0},
           \A m, n \in S : to[m] = to[n] => m = n,
           NEW new, \A n \in S : new[n].slot = {to[n]} /\ new[n].series = s,
           NEW order \in SetToSeqs(S)
    PROVE  ~Trips(rows, new, order)
<1>1. SUFFICES ASSUME NEW i \in DOMAIN order, NEW m \in Book,
                      Clash(Mixed(rows, new, ToSet(SubSeq(order, 1, i))), m, order[i])
               PROVE  FALSE
  BY DEF Trips
<1>2. PICK P \in SUBSET S : P = ToSet(SubSeq(order, 1, i))
  BY EnumFacts
<1>3. PICK n \in S : n = order[i] /\ n \in P
  BY <1>2, EnumFacts
<1>4. Clash(Mixed(rows, new, P), m, n)
  BY <1>1, <1>2, <1>3
<1>5. n \in Book /\ Mixed(rows, new, P)[n] = new[n]
  BY <1>3 DEF Mixed
<1>6. Mixed(rows, new, P)[m] = IF m \in P THEN new[m] ELSE rows[m]
  BY DEF Mixed
<1>7. m \in S /\ m # n
  BY <1>3, <1>4, <1>5, <1>6 DEF Clash
<1>8. to[n] \in Mixed(rows, new, P)[m].slot
  BY <1>3, <1>4, <1>5 DEF Clash
<1>9. CASE m \in P
  BY <1>3, <1>6, <1>7, <1>8, <1>9
<1>10. CASE m \notin P
  BY <1>3, <1>6, <1>7, <1>8, <1>10
<1> QED BY <1>9, <1>10

(* A statement that trips over nothing leaves no clash among its rows.     *)
LEMMA SmoothApart ==
    ASSUME NEW rows, NEW new, NEW S, IsFiniteSet(S), S \subseteq Book,
           NEW order \in SetToSeqs(S), ~Trips(rows, new, order),
           NEW m \in S, NEW n \in S, NEW u, u[m] = new[m], u[n] = new[n]
    PROVE  ~Clash(u, m, n)
<1>1. PICK i \in DOMAIN order :
         order[i] \in {m, n} /\ {m, n} \subseteq ToSet(SubSeq(order, 1, i))
  BY EnumFacts
<1>2. PICK P : P = ToSet(SubSeq(order, 1, i))
  OBVIOUS
<1>3. Mixed(rows, new, P)[m] = u[m] /\ Mixed(rows, new, P)[n] = u[n]
  BY <1>1, <1>2 DEF Mixed
<1>4. \A x \in Book : ~Clash(Mixed(rows, new, P), x, order[i])
  BY <1>2 DEF Trips
<1>5. ~Clash(Mixed(rows, new, P), m, n)
  <2>1. CASE order[i] = n
    BY <1>4, <2>1
  <2>2. CASE order[i] = m
    <3>1. ~Clash(Mixed(rows, new, P), n, m)
      BY <1>4, <2>2
    <3> QED BY <3>1 DEF Clash
  <2> QED BY <1>1, <2>1, <2>2
<1> QED BY <1>3, <1>5, SameClash

(* The new positions of the books of a series.                             *)
LEMMA SoloTo ==
    ASSUME NEW b \in SeriesRows, NEW s, NEW wish \in Wish,
           NEW to, to = ReorderPositions(Ordered(wish, SeriesBooks(b, s))),
           NEW M, M = Members(b, s)
    PROVE  /\ IsFiniteSet(M) /\ M \subseteq Book /\ M \subseteq Nat /\ DOMAIN to = M
           /\ \A n \in M : to[n] \in 1 .. Cardinality(M)
           /\ \A m, n \in M : to[m] = to[n] => m = n
<1>1. \A n \in Book : b[n].slot \in Slots
  BY DEF SeriesRows
<1>2. PICK before : before = SeriesBooks(b, s)
  OBVIOUS
<1>3. /\ IsFiniteSet(Members(b, s)) /\ Members(b, s) \subseteq Book
      /\ SeriesBooks(b, s) \in Seq(Members(b, s)) /\ ToSet(SeriesBooks(b, s)) = Members(b, s)
      /\ Distinct(SeriesBooks(b, s))
  BY <1>1, BooksFacts
<1>4. /\ IsFiniteSet(M) /\ M \subseteq Book /\ before \in Seq(M) /\ ToSet(before) = M
      /\ Distinct(before)
  BY <1>2, <1>3
<1>5. M \subseteq Nat /\ wish \in Seq(Nat)
  BY <1>4, SeriesAssumption
<1>6. PICK order : order = Ordered(wish, before)
  OBVIOUS
<1>7. order \in Seq(Nat) /\ ToSet(order) = M
  BY <1>4, <1>5, <1>6, OrderedFacts
<1>8. /\ DOMAIN ReorderPositions(order) = ToSet(order)
      /\ \A n \in ToSet(order) : ReorderPositions(order)[n] \in 1 .. Cardinality(ToSet(order))
      /\ \A m, n \in ToSet(order) : ReorderPositions(order)[m] = ReorderPositions(order)[n] => m = n
  BY <1>7, PositionsFacts
<1>9. to = ReorderPositions(order)
  BY <1>2, <1>6
<1> QED BY <1>4, <1>5, <1>7, <1>8, <1>9

-----------------------------------------------------------------------------
(* What a statement makes of the request that runs it.                     *)
Chosen(new, W) == [n \in W |-> new[n]]
Stepped(ed, q, w, next) == [ed EXCEPT ![q].wrote = w, ![q].step = next]
Emptied(ed, q, w)       == [ed EXCEPT ![q].step = "commit", ![q].wrote = w]
Writes(e, w, next, e2) ==
    e2 = [kind |-> "reorder", series |-> e.series, step |-> next, wish |-> e.wish,
          to |-> e.to, wrote |-> w]

LEMMA WroteFacts ==
    ASSUME NEW e \in Reorders, NEW W \in SUBSET Book, NEW w \in [W -> BookRow],
           NEW next \in {"assign", "commit"},
           NEW e2, Writes(e, w, next, e2)
    PROVE  /\ e2 \in Reorders /\ e2.kind = "reorder" /\ e2.series = e.series /\ e2.step = next
           /\ e2.wish = e.wish /\ e2.to = e.to /\ e2.wrote = w /\ HeldBy(e2) = W
<1>1. w \in SomeRows
  BY DEF SomeRows
<1>2. e2 \in Reorders
  BY <1>1 DEF Reorders, Writes
<1>3. e2.kind = "reorder" /\ e2.series = e.series /\ e2.step = next /\ e2.wish = e.wish
      /\ e2.to = e.to /\ e2.wrote = w
  BY DEF Reorders, Writes
<1> QED BY <1>2, <1>3 DEF HeldBy

LEMMA StatementMoves ==
    ASSUME NEW b, NEW ed, NEW al, Consistent(b, ed, al), NEW q \in Editor,
           ed[q].kind = "reorder",
           NEW S, S \subseteq Members(SeenBy(ed[q], b), ed[q].series),
           \A p \in Editor \ {q} : HeldBy(ed[p]) \cap S = {},
           NEW new, \A n \in S \cup HeldBy(ed[q]) :
                       new[n] \in BookRow /\ new[n].series = ed[q].series,
           NEW next \in {"assign", "commit"},
           NEW w, w = Chosen(new, S \cup HeldBy(ed[q])),
           NEW e2, Writes(ed[q], w, next, e2),
           next = "commit" => /\ S = Members(SeenBy(ed[q], b), ed[q].series)
                              /\ Apart(SeenBy(e2, b)),
           q \in al => SoloOK(e2, b)
    PROVE  Consistent(b, [ed EXCEPT ![q] = e2], al)
<1>e. PICK e : e = ed[q]
  OBVIOUS
<1>w. PICK W : W = S \cup HeldBy(e) /\ w = [n \in W |-> new[n]]
  BY <1>e DEF Chosen
<1>1. b \in SeriesRows /\ ed \in [Editor -> Edits] /\ e \in Edits /\ EditOK(e, b)
      /\ \A p \in Editor \ {q} : PairOK(ed[p], e) /\ EditOK(ed[p], b) /\ ed[p] \in Edits
  BY <1>e, <1>w DEF Consistent
<1>2. e \in Reorders
  BY <1>e, <1>w, <1>1, EditShape
<1>3. HeldBy(e) \in SUBSET Book /\ S \subseteq Book
      /\ \A n \in Book : SeenBy(e, b)[n] = IF n \in HeldBy(e) THEN e.wrote[n] ELSE b[n]
  BY <1>e, <1>w, <1>1, HeldShape DEF Members
<1>4. W \in SUBSET Book /\ w \in [W -> BookRow]
  BY <1>e, <1>w, <1>3
<1>5. /\ e2 \in Reorders /\ e2.kind = "reorder" /\ e2.series = e.series /\ e2.step = next
      /\ e2.wish = e.wish /\ e2.to = e.to /\ e2.wrote = w /\ HeldBy(e2) = W
  <2>1. e \in Reorders /\ W \in SUBSET Book /\ w \in [W -> BookRow]
        /\ Writes(e, w, next, e2) /\ next \in {"assign", "commit"}
    BY <1>e, <1>2, <1>4
  <2>2. /\ e2 \in Reorders /\ e2.kind = "reorder" /\ e2.series = e.series /\ e2.step = next
        /\ e2.wish = e.wish /\ e2.to = e.to /\ e2.wrote = w /\ HeldBy(e2) = W
    BY ONLY <2>1, WroteFacts
  <2> QED BY <2>2 DEF Edits
<1>6. \A n \in W : b[n].series = e.series
  <2> TAKE n \in W
  <2>1. CASE n \in HeldBy(e)
    BY <1>e, <1>w, <1>1, <2>1 DEF EditOK
  <2>2. CASE n \notin HeldBy(e)
    BY <1>e, <1>w, <1>3, <2>2 DEF Members
  <2> QED BY <1>e, <1>w, <2>1, <2>2
<1>7. EditOK(e2, b)
  <2>1. \A n \in W : w[n].series = e.series
    BY <1>e, <1>w
  <2> QED BY <1>e, <1>w, <1>5, <1>6, <2>1 DEF EditOK
<1>8. ASSUME NEW p \in Editor \ {q} PROVE PairOK(ed[p], e2)
  <2>1. HeldBy(ed[p]) \cap W = {}
    BY <1>e, <1>w, <1>1 DEF PairOK
  <2>2. ASSUME ed[p].kind = "reorder", ed[p].series = e.series, next = "commit"
        PROVE  HeldBy(ed[p]) = {}
    <3>1. SUFFICES ASSUME NEW n \in HeldBy(ed[p]) PROVE FALSE
      BY <1>e, <1>w
    <3>2. n \in Book /\ b[n].series = e.series /\ n \notin HeldBy(e)
      <4>1. HeldBy(ed[p]) \in SUBSET Book
        BY <1>e, <1>w, <1>1, HeldShape
      <4>2. b[n].series = ed[p].series
        BY <1>e, <1>w, <1>1, <2>2 DEF EditOK
      <4> QED BY <1>e, <1>w, <2>1, <2>2, <4>1, <4>2
    <3>3. n \in S
      BY <1>e, <1>w, <1>3, <2>2, <3>2 DEF Members
    <3> QED BY <1>e, <1>w, <3>3
  <2> QED BY <1>e, <1>w, <1>5, <2>1, <2>2 DEF PairOK
<1>9. e2 \in Edits
  BY <1>e, <1>w, <1>5 DEF Edits
<1> QED BY <1>e, <1>w, <1>7, <1>8, <1>9, RequestMoves

-----------------------------------------------------------------------------
(* The first statement of a reorder.                                       *)
LEMMA Negates ==
    ASSUME NEW b, NEW ed, NEW al, Consistent(b, ed, al), NEW q \in Editor,
           ed[q].kind = "reorder", ed[q].step = "negate",
           NEW rows, rows = SeenBy(ed[q], b),
           NEW S, S \subseteq Book,
           \A n \in Book : n \in S <=> rows[n].series = ed[q].series /\ rows[n].slot # {},
           \A p \in Editor \ {q} : HeldBy(ed[p]) \cap S = {},
           NEW new, \A n \in Book : new[n] = Negated(rows[n]),
           NEW w, w = Chosen(new, S \cup HeldBy(ed[q]))
    PROVE  Consistent(b, Stepped(ed, q, w, "assign"), al)
<1>p. PICK e2 : Writes(ed[q], w, "assign", e2)
  BY DEF Writes
<1>e. PICK e : e = ed[q]
  OBVIOUS
<1>w. PICK W : W = S \cup HeldBy(e) /\ w = [n \in W |-> new[n]]
  BY <1>e DEF Chosen
<1>1. b \in SeriesRows /\ e \in Edits /\ EditOK(e, b) /\ (q \in al => SoloOK(e, b))
  BY <1>e, <1>w DEF Consistent
<1>2. e \in Reorders
  BY <1>e, <1>w, <1>1, EditShape
<1>3. HeldBy(e) \in SUBSET Book /\ S \subseteq Book /\ rows \in SeriesRows
      /\ \A n \in Book : rows[n] = IF n \in HeldBy(e) THEN e.wrote[n] ELSE b[n]
  BY <1>e, <1>w, <1>1, HeldShape DEF Members
<1>4. W \in SUBSET Book /\ \A n \in W : new[n] \in BookRow /\ new[n].series = e.series
  <2>1. \A n \in Book : rows[n] \in BookRow
    BY <1>e, <1>w, <1>3 DEF SeriesRows, BookRow
  <2>2. \A n \in W : rows[n].series = e.series
    BY <1>e, <1>w, <1>1, <1>3 DEF EditOK, Members
  <2> QED BY <1>e, <1>w, <1>3, <2>1, <2>2, NegatedFacts
<1>5. w \in [W -> BookRow]
  BY <1>e, <1>w, <1>4
<1>6. /\ e2.kind = "reorder" /\ e2.series = e.series /\ e2.step = "assign"
      /\ e2.wish = e.wish /\ e2.to = e.to /\ e2.wrote = w /\ HeldBy(e2) = W
  <2>1. e \in Reorders /\ W \in SUBSET Book /\ w \in [W -> BookRow]
        /\ Writes(e, w, "assign", e2) /\ "assign" \in {"assign", "commit"}
    BY <1>p, <1>e, <1>2, <1>4, <1>5
  <2>2. /\ e2 \in Reorders /\ e2.kind = "reorder" /\ e2.series = e.series /\ e2.step = "assign"
        /\ e2.wish = e.wish /\ e2.to = e.to /\ e2.wrote = w /\ HeldBy(e2) = W
    BY ONLY <2>1, WroteFacts
  <2> QED BY <2>2 DEF Edits
<1>7. ASSUME q \in al PROVE SoloOK(e2, b)
  <2>1. HeldBy(e) = {} /\ e.to = ReorderPositions(Ordered(e.wish, SeriesBooks(b, e.series)))
    BY <1>e, <1>w, <1>1, <1>7 DEF SoloOK
  <2>2. \A n \in Book : rows[n] = b[n]
    BY <1>e, <1>w, <1>3, <2>1
  <2>3. W = {n \in Members(b, e.series) : b[n].slot # {}}
    BY <1>e, <1>w, <2>1, <2>2 DEF Members
  <2>4. \A n \in W : w[n] = Negated(b[n])
    BY <1>e, <1>w, <1>4, <2>2
  <2> QED BY <1>e, <1>w, <1>6, <2>1, <2>3, <2>4 DEF SoloOK
<1>8. S \subseteq Members(SeenBy(ed[q], b), ed[q].series)
  BY DEF Members
<1>9. \A n \in S \cup HeldBy(ed[q]) : new[n] \in BookRow /\ new[n].series = ed[q].series
  BY <1>e, <1>w, <1>4
<1>10. PICK next \in {"assign", "commit"} : next = "assign"
  OBVIOUS
<1>11. Writes(ed[q], w, next, e2)
  BY <1>p, <1>10
<1>12. next = "commit" => /\ S = Members(SeenBy(ed[q], b), ed[q].series)
                          /\ Apart(SeenBy(e2, b))
  BY <1>10
<1>13. Consistent(b, ed, al) /\ q \in Editor /\ ed[q].kind = "reorder"
       /\ w = Chosen(new, S \cup HeldBy(ed[q]))
  OBVIOUS
<1>14. \A p \in Editor \ {q} : HeldBy(ed[p]) \cap S = {}
  OBVIOUS
<1>15. Consistent(b, [ed EXCEPT ![q] = e2], al)
  BY ONLY <1>7, <1>8, <1>9, <1>10, <1>11, <1>12, <1>13, <1>14, StatementMoves
<1>s. w \in SomeRows /\ ed \in [Editor -> Edits]
  BY <1>4, <1>5 DEF SomeRows, Consistent
<1>u. [ed EXCEPT ![q].wrote = w, ![q].step = "assign"] = [ed EXCEPT ![q] = e2]
  <2>1. PICK r : r = [e EXCEPT !.wrote = w, !.step = "assign"]
    OBVIOUS
  <2>2. r \in Reorders /\ r.kind = "reorder" /\ r.series = e.series /\ r.step = "assign"
        /\ r.wish = e.wish /\ r.to = e.to /\ r.wrote = w
    BY <1>2, <1>s, <2>1 DEF Reorders
  <2>3. r = e2
    BY <1>e, <1>p, <2>2 DEF Reorders, Writes
  <2>4. [ed EXCEPT ![q].wrote = w, ![q].step = "assign"]
          = [ed EXCEPT ![q] = [e EXCEPT !.wrote = w, !.step = "assign"]]
    BY <1>e, <1>s
  <2> QED BY <2>1, <2>3, <2>4
<1> QED BY ONLY <1>15, <1>u DEF Stepped

(* The second one.                                                         *)
LEMMA Assigns ==
    ASSUME NEW b, NEW ed, NEW al, Consistent(b, ed, al), NEW q \in Editor,
           ed[q].kind = "reorder", ed[q].step = "assign",
           NEW rows, rows = SeenBy(ed[q], b),
           NEW S, S = Members(rows, ed[q].series),
           \A p \in Editor \ {q} : HeldBy(ed[p]) \cap S = {},
           NEW new, \A n \in S : new[n] = Assigned(q, n, rows[n]),
           edit = ed,
           NEW order \in SetToSeqs(S), ~Trips(rows, new, order),
           NEW w, w = Chosen(new, S \cup HeldBy(ed[q]))
    PROVE  Consistent(b, Stepped(ed, q, w, "commit"), al)
<1>p. PICK e2 : Writes(ed[q], w, "commit", e2)
  BY DEF Writes
<1>e. PICK e : e = ed[q]
  OBVIOUS
<1>w. PICK W : W = S \cup HeldBy(e) /\ w = [n \in W |-> new[n]]
  BY <1>e DEF Chosen
<1>1. b \in SeriesRows /\ e \in Edits /\ EditOK(e, b) /\ Apart(b) /\ (q \in al => SoloOK(e, b))
  BY <1>e, <1>w DEF Consistent
<1>2. e \in Reorders
  BY <1>e, <1>w, <1>1, EditShape
<1>3. HeldBy(e) \in SUBSET Book /\ S \subseteq Book /\ rows \in SeriesRows
      /\ \A n \in Book : rows[n] = IF n \in HeldBy(e) THEN e.wrote[n] ELSE b[n]
  BY <1>e, <1>w, <1>1, HeldShape DEF Members
<1>4. HeldBy(e) \subseteq S /\ W = S
  BY <1>e, <1>w, <1>1, <1>3 DEF EditOK, Members
<1>5. \A n \in S : new[n] \in BookRow /\ new[n].series = e.series
                   /\ (n \in DOMAIN e.to => new[n].slot = {e.to[n]})
  <2> TAKE n \in S
  <2>1. rows[n] \in BookRow /\ rows[n].series = e.series
    BY <1>e, <1>w, <1>3 DEF SeriesRows, BookRow, Members
  <2>2. CASE n \notin DOMAIN e.to
    BY <1>e, <1>w, <2>1, <2>2, NegatedFacts DEF Assigned
  <2>3. CASE n \in DOMAIN e.to
    <3>1. e.to[n] \in Int
      <4>1. PICK D \in SUBSET Book : e.to \in [D -> Int]
        BY <1>e, <1>w, <1>2 DEF Reorders
      <4> QED BY <1>e, <1>w, <2>3, <4>1
    <3>2. {e.to[n]} \in Slots
      BY <1>e, <1>w, <3>1 DEF Slots
    <3>3. new[n] = [rows[n] EXCEPT !.slot = {e.to[n]}]
      BY <1>e, <1>w, <2>3 DEF Assigned
    <3> QED BY <1>e, <1>w, <2>1, <3>2, <3>3 DEF BookRow
  <2> QED BY <1>e, <1>w, <2>2, <2>3
<1>6. w \in [W -> BookRow] /\ W \in SUBSET Book
  BY <1>e, <1>w, <1>3, <1>4, <1>5
<1>7. /\ e2 \in Edits /\ e2.kind = "reorder" /\ e2.series = e.series /\ e2.step = "commit"
      /\ e2.wish = e.wish /\ e2.to = e.to /\ e2.wrote = w /\ HeldBy(e2) = W
  <2>1. e \in Reorders /\ W \in SUBSET Book /\ w \in [W -> BookRow]
        /\ Writes(e, w, "commit", e2) /\ "commit" \in {"assign", "commit"}
    BY <1>p, <1>e, <1>2, <1>6
  <2>2. /\ e2 \in Reorders /\ e2.kind = "reorder" /\ e2.series = e.series /\ e2.step = "commit"
        /\ e2.wish = e.wish /\ e2.to = e.to /\ e2.wrote = w /\ HeldBy(e2) = W
    BY ONLY <2>1, WroteFacts
  <2> QED BY <2>2 DEF Edits
<1>8. Apart(SeenBy(e2, b))
  <2> DEFINE u == SeenBy(e2, b)
  <2>1. \A n \in Book : u[n] = IF n \in S THEN new[n] ELSE b[n]
    <3>1. \A n \in Book : u[n] = IF n \in HeldBy(e2) THEN e2.wrote[n] ELSE b[n]
      BY <1>1, <1>7, HeldShape
    <3>2. \A n \in S : e2.wrote[n] = new[n]
      BY <1>w, <1>4, <1>7
    <3> QED BY <1>4, <1>7, <3>1, <3>2
  <2> HIDE DEF u
  <2>2. IsFiniteSet(S)
    BY <1>e, <1>w, <1>3, SeriesAssumption, FS_Subset
  <2>3. \A n \in Book \ S : b[n].series # e.series
    BY <1>e, <1>w, <1>3, <1>4 DEF Members
  <2>4. ASSUME NEW m \in Book, NEW n \in Book PROVE ~Clash(u, m, n)
    <3>1. CASE m \in S /\ n \in S
      BY <1>e, <1>w, <1>3, <2>1, <2>2, <3>1, SmoothApart
    <3>2. CASE m \notin S /\ n \notin S
      BY <1>e, <1>w, <1>1, <2>1, <3>2, SameClash DEF Apart
    <3>3. CASE (m \in S) # (n \in S)
      <4>1. u[m].series # u[n].series
        BY <1>e, <1>w, <1>5, <2>1, <2>3, <3>3
      <4> QED BY <1>e, <1>w, <4>1 DEF Clash
    <3> QED BY <1>e, <1>w, <3>1, <3>2, <3>3
  <2> QED BY <1>e, <1>w, <2>4 DEF Apart, u
<1>9. ASSUME q \in al PROVE SoloOK(e2, b)
  <2>1. e.to = ReorderPositions(Ordered(e.wish, SeriesBooks(b, e.series)))
    BY <1>e, <1>w, <1>1, <1>9, <1>2 DEF SoloOK, Reorders
  <2>2. S = Members(b, e.series)
    BY <1>e, <1>w, <1>1, <1>3, <1>4 DEF EditOK, Members
  <2>3. DOMAIN e.to = S
    <3>1. e.wish \in Wish
      BY <1>e, <1>w, <1>2 DEF Reorders
    <3> QED BY <1>e, <1>w, <1>1, <2>1, <2>2, <3>1, SoloTo
  <2>4. \A n \in S : w[n].slot = {e.to[n]}
    BY <1>e, <1>w, <1>4, <1>5, <2>3
  <2> QED BY <1>e, <1>w, <1>4, <1>7, <2>1, <2>2, <2>4 DEF SoloOK
<1>10. S = Members(SeenBy(ed[q], b), ed[q].series)
  BY <1>e, <1>w
<1>11. \A n \in S \cup HeldBy(ed[q]) : new[n] \in BookRow /\ new[n].series = ed[q].series
  BY <1>e, <1>w, <1>4, <1>5
<1>12. S \subseteq Members(SeenBy(ed[q], b), ed[q].series)
  BY <1>e, <1>w, <1>10
<1>13. Consistent(b, [ed EXCEPT ![q] = e2], al)
  BY <1>p, <1>e, <1>w, <1>8, <1>9, <1>10, <1>11, <1>12, StatementMoves
<1>s. w \in SomeRows /\ ed \in [Editor -> Edits]
  BY <1>6 DEF SomeRows, Consistent
<1>u. [ed EXCEPT ![q].wrote = w, ![q].step = "commit"] = [ed EXCEPT ![q] = e2]
  <2>1. PICK r : r = [e EXCEPT !.wrote = w, !.step = "commit"]
    OBVIOUS
  <2>2. r \in Reorders /\ r.kind = "reorder" /\ r.series = e.series /\ r.step = "commit"
        /\ r.wish = e.wish /\ r.to = e.to /\ r.wrote = w
    BY <1>2, <1>s, <2>1 DEF Reorders
  <2>3. r = e2
    BY <1>e, <1>p, <2>2 DEF Reorders, Writes
  <2>4. [ed EXCEPT ![q].wrote = w, ![q].step = "commit"]
          = [ed EXCEPT ![q] = [e EXCEPT !.wrote = w, !.step = "commit"]]
    BY <1>e, <1>s
  <2> QED BY <2>1, <2>3, <2>4
<1> QED BY ONLY <1>13, <1>u DEF Stepped

-----------------------------------------------------------------------------
(* A request arrives: a reorder reads, a deletion detaches the books.      *)
LEMMA ReorderBegins ==
    ASSUME NEW b, NEW ed, NEW al, Consistent(b, ed, al), NEW q \in Editor,
           NEW s \in Collection, NEW wish \in Wish,
           NEW to, to = ReorderPositions(Ordered(wish, SeriesBooks(b, s))),
           NEW e, e = [kind |-> "reorder", series |-> s, step |-> "negate", wish |-> wish,
                       to |-> to, wrote |-> <<>>],
           NEW al2, al2 \subseteq al \cup {q}
    PROVE  Consistent(b, [ed EXCEPT ![q] = e], al2)
<1>1. b \in SeriesRows
  BY DEF Consistent
<1>2. to \in UNION {[S -> Int] : S \in SUBSET Book}
  <2>1. PICK M : M = Members(b, s)
    OBVIOUS
  <2>2. M \in SUBSET Book /\ IsFiniteSet(M) /\ DOMAIN to = M
        /\ \A n \in M : to[n] \in 1 .. Cardinality(M)
    BY <1>1, <2>1, SoloTo
  <2>3. Cardinality(M) \in Nat
    BY <2>2, FS_CardinalityType
  <2>4. to = [n \in DOMAIN to |-> to[n]]
    BY DEF ReorderPositions
  <2>5. \A n \in M : to[n] \in Int
    BY <2>2, <2>3
  <2>6. to \in [M -> Int]
    BY <2>2, <2>4, <2>5
  <2> QED BY <2>2, <2>6
<1>3. <<>> \in SomeRows /\ DOMAIN <<>> = {}
  <2>1. <<>> \in [{} -> BookRow]
    OBVIOUS
  <2> QED BY <2>1 DEF SomeRows
<1>4. e \in Edits
  BY <1>2, <1>3 DEF Edits, Reorders
<1>5. HeldBy(e) = {} /\ e.kind = "reorder" /\ e.step = "negate" /\ e.series = s
      /\ e.wish = wish /\ e.to = to
  BY <1>3 DEF HeldBy
<1>6. EditOK(e, b) /\ \A p \in Editor \ {q} : PairOK(ed[p], e)
  BY <1>5 DEF EditOK, PairOK
<1>7. SoloOK(e, b)
  BY <1>5 DEF SoloOK
<1> QED BY <1>4, <1>6, <1>7, RequestMoves

LEMMA DropMoves ==
    ASSUME NEW b, NEW ed, NEW al, Consistent(b, ed, al), NEW q \in Editor,
           NEW e \in Drops, \A n \in HeldBy(e) : e.wrote[n].series = NoSeries,
           \A p \in Editor \ {q} : HeldBy(ed[p]) \cap HeldBy(e) = {}
    PROVE  Consistent(b, [ed EXCEPT ![q] = e], al)
<1>1. e.kind = "drop" /\ e \in Edits
  BY DEF Drops, Edits
<1>2. EditOK(e, b) /\ SoloOK(e, b) /\ \A p \in Editor \ {q} : PairOK(ed[p], e)
  BY <1>1 DEF EditOK, SoloOK, PairOK
<1> QED BY <1>1, <1>2, RequestMoves

LEMMA DeleteBegins ==
    ASSUME NEW b, NEW ed, NEW al, Consistent(b, ed, al), NEW q \in Editor,
           NEW s \in Collection,
           \A p \in Editor \ {q} : HeldBy(ed[p]) \cap Members(b, s) = {},
           NEW w, w = [n \in Members(b, s) |-> [Loose EXCEPT !.slot = {0}]],
           NEW e, e = [kind |-> "drop", series |-> s, step |-> "drop", wrote |-> w]
    PROVE  Consistent(b, [ed EXCEPT ![q] = e], al)
<1>1. PICK M \in SUBSET Book : M = Members(b, s)
  BY DEF Members
<1>2. [Loose EXCEPT !.slot = {0}] \in BookRow /\ [Loose EXCEPT !.slot = {0}].series = NoSeries
  <2>1. PICK r : r = Loose
    OBVIOUS
  <2>2. r = [series |-> NoSeries, slot |-> {}]
    BY <2>1 DEF Loose
  <2>3. r \in BookRow /\ r.series = NoSeries
    <3>1. {} \in Slots
      BY DEF Slots
    <3> QED BY <2>2, <3>1 DEF BookRow
  <2>4. PICK z \in Int : z = 0
    OBVIOUS
  <2>5. {z} \in Slots
    BY DEF Slots
  <2>6. [r EXCEPT !.slot = {z}] \in BookRow /\ [r EXCEPT !.slot = {z}].series = NoSeries
    BY ONLY <2>3, <2>5 DEF BookRow
  <2> QED BY <2>1, <2>4, <2>6
<1>3. w \in [M -> BookRow] /\ \A n \in M : w[n].series = NoSeries
  BY <1>1, <1>2
<1>4. w \in SomeRows
  BY <1>3 DEF SomeRows
<1>5. e \in Drops
  BY <1>4 DEF Drops
<1>6. HeldBy(e) = M /\ e.wrote = w
  BY <1>3 DEF HeldBy
<1> QED BY <1>1, <1>3, <1>5, <1>6, DropMoves

LEMMA DropCompletes ==
    ASSUME NEW b, NEW ed, NEW al, Consistent(b, ed, al), NEW q \in Editor,
           ed[q].kind = "drop",
           NEW late, late = Members(SeenBy(ed[q], b), ed[q].series),
           \A p \in Editor \ {q} : HeldBy(ed[p]) \cap late = {},
           NEW w, w = [n \in late \cup HeldBy(ed[q]) |->
                         IF n \in late THEN [b[n] EXCEPT !.series = NoSeries]
                         ELSE SeenBy(ed[q], b)[n]]
    PROVE  Consistent(b, Emptied(ed, q, w), al)
<1>p. PICK e : e = [kind |-> "drop", series |-> ed[q].series, step |-> "commit", wrote |-> w]
  OBVIOUS
<1>1. b \in SeriesRows /\ ed[q] \in Edits /\ EditOK(ed[q], b)
      /\ \A p \in Editor \ {q} : PairOK(ed[p], ed[q])
  BY DEF Consistent
<1>2. ed[q] \in Drops
  BY <1>1, EditShape
<1>3. HeldBy(ed[q]) \in SUBSET Book /\ SeenBy(ed[q], b) \in SeriesRows
      /\ \A n \in Book : SeenBy(ed[q], b)[n] = IF n \in HeldBy(ed[q]) THEN ed[q].wrote[n] ELSE b[n]
  BY <1>1, HeldShape
<1>4. PICK W \in SUBSET Book : W = late \cup HeldBy(ed[q])
  BY <1>3 DEF Members
<1>5. ASSUME NEW n \in W PROVE w[n] \in BookRow /\ w[n].series = NoSeries
  <2>1. CASE n \in late
    <3>1. b[n] \in BookRow
      BY <1>1, <1>4 DEF SeriesRows, BookRow
    <3>2. w[n] = [b[n] EXCEPT !.series = NoSeries]
      BY <1>4, <2>1
    <3> QED BY <3>1, <3>2 DEF BookRow
  <2>2. CASE n \notin late
    <3>1. w[n] = SeenBy(ed[q], b)[n] /\ n \in HeldBy(ed[q])
      BY <1>4, <2>2
    <3>2. SeenBy(ed[q], b)[n] \in BookRow
      BY <1>3, <1>4 DEF SeriesRows, BookRow
    <3> QED BY <1>1, <1>3, <1>4, <3>1, <3>2 DEF EditOK
  <2> QED BY <2>1, <2>2
<1>6. w \in [W -> BookRow]
  BY <1>4, <1>5
<1>7. w \in SomeRows
  BY <1>6 DEF SomeRows
<1>8. e \in Drops
  BY <1>p, <1>2, <1>7 DEF Drops
<1>9. HeldBy(e) = W /\ e.wrote = w
  BY <1>p, <1>6 DEF HeldBy
<1>10. \A p \in Editor \ {q} : HeldBy(ed[p]) \cap W = {}
  BY <1>1, <1>4 DEF PairOK
<1>11. Consistent(b, [ed EXCEPT ![q] = e], al)
  BY <1>5, <1>8, <1>9, <1>10, DropMoves
<1>12. ed \in [Editor -> Edits]
  BY DEF Consistent
<1>13. [ed EXCEPT ![q].step = "commit", ![q].wrote = w] = [ed EXCEPT ![q] = e]
  <2>1. PICK d \in Drops : d = ed[q]
    BY <1>2
  <2>2. PICK r : r = [d EXCEPT !.step = "commit", !.wrote = w]
    OBVIOUS
  <2>3. r \in Drops /\ r.kind = "drop" /\ r.series = d.series /\ r.step = "commit" /\ r.wrote = w
    BY <1>7, <2>2 DEF Drops
  <2>4. r = e
    BY <1>p, <2>1, <2>3 DEF Drops
  <2>5. [ed EXCEPT ![q].step = "commit", ![q].wrote = w]
          = [ed EXCEPT ![q] = [d EXCEPT !.step = "commit", !.wrote = w]]
    BY <1>12, <2>1
  <2> QED BY <2>2, <2>4, <2>5
<1> QED BY ONLY <1>11, <1>13 DEF Emptied

(* The series as they stand at first.                                      *)
LEMMA FirstApart ==
    ASSUME NEW home \in [Book -> Collection \cup {NoSeries}], NEW numbered,
           NEW b, b = [n \in Book |->
              [series |-> home[n],
               slot |-> IF home[n] \in numbered
                        THEN {Cardinality({m \in Book : home[m] = home[n] /\ m <= n})}
                        ELSE {}]]
    PROVE  b \in SeriesRows /\ Apart(b)
<1> DEFINE upTo(n) == {m \in Book : home[m] = home[n] /\ m <= n}
<1>1. \A n \in Book : n \in Nat /\ IsFiniteSet(upTo(n)) /\ Cardinality(upTo(n)) \in Nat
  BY SeriesAssumption, FS_Subset, FS_CardinalityType
<1>2. \A n \in Book : b[n].series = home[n]
         /\ b[n].slot = IF home[n] \in numbered THEN {Cardinality(upTo(n))} ELSE {}
  OBVIOUS
<1>3. b \in SeriesRows
  <2>1. ASSUME NEW n \in Book PROVE (IF home[n] \in numbered THEN {Cardinality(upTo(n))} ELSE {}) \in Slots
    BY <1>1 DEF Slots
  <2> QED BY <2>1 DEF SeriesRows
<1>4. ASSUME NEW m \in Book, NEW n \in Book, m < n, home[m] = home[n]
      PROVE  Cardinality(upTo(m)) # Cardinality(upTo(n))
  <2>1. upTo(m) \subseteq upTo(n)
    <3>1. m \in Nat /\ n \in Nat /\ \A k \in Book : k \in Nat
      BY <1>1
    <3>2. \A k \in Book : k <= m => k <= n
      BY <1>4, <3>1
    <3> QED BY <1>4, <3>2
  <2>2. n \in upTo(n) /\ n \notin upTo(m)
    <3>1. m \in Nat /\ n \in Nat
      BY <1>1
    <3>2. n <= n /\ ~(n <= m)
      BY <1>4, <3>1
    <3> QED BY <3>2
  <2> HIDE DEF upTo
  <2>3. Cardinality(upTo(m)) = Cardinality(upTo(n)) => upTo(m) = upTo(n)
    BY <1>1, <2>1, FS_Subset
  <2> QED BY <2>2, <2>3
<1> HIDE DEF upTo
<1>5. ASSUME NEW m \in Book, NEW n \in Book, Clash(b, m, n) PROVE FALSE
  <2>1. m # n /\ home[m] = home[n] /\ home[m] \in numbered
        /\ Cardinality(upTo(m)) = Cardinality(upTo(n))
    BY <1>2, <1>5 DEF Clash
  <2>2. m < n \/ n < m
    BY <1>1, <2>1
  <2> QED BY <1>4, <2>1, <2>2
<1> QED BY <1>3, <1>5 DEF Apart

LEMMA SeriesStart == SeriesInit => SeriesInv
<1>1. SUFFICES ASSUME SeriesInit PROVE Consistent(book, edit, alone)
  BY DEF SeriesInv
<1>2. book \in SeriesRows /\ Apart(book)
  BY <1>1, FirstApart DEF SeriesInit
<1>3. edit \in [Editor -> Edits] /\ alone = {} /\ \A q \in Editor : edit[q] = Resting
  BY <1>1, RestIsOK DEF SeriesInit
<1> QED BY <1>2, <1>3, RestIsOK DEF Consistent

-----------------------------------------------------------------------------
LEMMA Linked ==
    ASSUME NEW q \in Editor
    PROVE  Held(q) = HeldBy(edit[q]) /\ Seen(q) = SeenBy(edit[q], book)
BY DEF Held, HeldBy, Seen, SeenBy

LEMMA FreeMeans ==
    ASSUME NEW q \in Editor, NEW S, Free(q, S)
    PROVE  \A p \in Editor \ {q} : HeldBy(edit[p]) \cap S = {}
BY Linked DEF Free

LEMMA NegateKeeps ==
    ASSUME SeriesInv, NEW q \in Editor, NegateAll(q)
    PROVE  SeriesInv'
<1>0. q \in Editor
  OBVIOUS
<1>1. edit[q].kind = "reorder" /\ edit[q].step = "negate"
  BY DEF NegateAll
<1>2. PICK b, ed, al, rows : b = book /\ ed = edit /\ al = alone /\ rows = SeenBy(ed[q], b)
  OBVIOUS
<1>3. Consistent(b, ed, al) /\ Seen(q) = rows /\ Held(q) = HeldBy(ed[q])
  BY <1>2, Linked DEF SeriesInv
<1>4. PICK S : S = {n \in Members(rows, ed[q].series) : rows[n].slot # {}}
  OBVIOUS
<1>5. PICK new : new = [n \in Book |-> Negated(rows[n])]
  OBVIOUS
<1>6. Statement(q, S, new, "assign")
  BY <1>2, <1>3, <1>4, <1>5 DEF NegateAll
<1>7. \A p \in Editor \ {q} : HeldBy(ed[p]) \cap S = {}
  BY <1>2, <1>6, FreeMeans DEF Statement
<1>8. PICK w : w = Chosen(new, S \cup HeldBy(ed[q]))
  OBVIOUS
<1>9. PICK order \in SetToSeqs(S) :
        IF Trips(Seen(q), new, order) THEN GiveUpEdit(q)
        ELSE /\ edit' = [edit EXCEPT ![q].wrote = [n \in S \cup Held(q) |-> new[n]],
                                     ![q].step = "assign"]
             /\ UNCHANGED <<book, open, alone, edits>>
  BY <1>6 DEF Statement
<1>10. CASE GiveUpEdit(q)
  <2>1. book' = b /\ edit' = [ed EXCEPT ![q] = Resting] /\ alone' = al
    BY <1>2, <1>10 DEF GiveUpEdit, Leave
  <2>2. Consistent(b, [ed EXCEPT ![q] = Resting], al)
    BY <1>3, RequestEnds
  <2> QED BY <2>1, <2>2 DEF SeriesInv
<1>11. CASE ~Trips(Seen(q), new, order)
  <2>1. book' = b /\ alone' = al
        /\ edit' = Stepped(ed, q, w, "assign")
    BY <1>2, <1>3, <1>8, <1>9, <1>11 DEF Stepped, Chosen
  <2>2. ed[q].kind = "reorder" /\ ed[q].step = "negate"
    BY <1>1, <1>2
  <2>3. \A n \in Book : new[n] = Negated(rows[n])
    BY <1>5
  <2>4. rows = SeenBy(ed[q], b)
    BY <1>2
  <2>s. S \subseteq Book
        /\ \A n \in Book : n \in S <=> rows[n].series = ed[q].series /\ rows[n].slot # {}
    BY <1>4 DEF Members
  <2>5. Consistent(b, Stepped(ed, q, w, "assign"), al)
    BY ONLY <1>0, <1>3, <2>s, <1>7, <1>8, <2>2, <2>3, <2>4, Negates
  <2> QED BY <2>1, <2>5 DEF SeriesInv
<1> QED BY <1>9, <1>10, <1>11

LEMMA AssignKeeps ==
    ASSUME SeriesInv, NEW q \in Editor, AssignAll(q)
    PROVE  SeriesInv'
<1>0. q \in Editor
  OBVIOUS
<1>1. edit[q].kind = "reorder" /\ edit[q].step = "assign"
  BY DEF AssignAll
<1>2. PICK b, ed, al, rows : b = book /\ ed = edit /\ al = alone /\ rows = SeenBy(ed[q], b)
  OBVIOUS
<1>3. Consistent(b, ed, al) /\ Seen(q) = rows /\ Held(q) = HeldBy(ed[q])
  BY <1>2, Linked DEF SeriesInv
<1>4. PICK S : S = Members(rows, ed[q].series)
  OBVIOUS
<1>5. PICK new : new = [n \in Book |-> IF n \in S THEN Assigned(q, n, rows[n]) ELSE rows[n]]
  OBVIOUS
<1>6. Statement(q, S, new, "commit")
  BY <1>2, <1>3, <1>4, <1>5 DEF AssignAll
<1>7. \A p \in Editor \ {q} : HeldBy(ed[p]) \cap S = {}
  BY <1>2, <1>6, FreeMeans DEF Statement
<1>8. PICK w : w = Chosen(new, S \cup HeldBy(ed[q]))
  OBVIOUS
<1>9. PICK order \in SetToSeqs(S) :
        IF Trips(Seen(q), new, order) THEN GiveUpEdit(q)
        ELSE /\ edit' = [edit EXCEPT ![q].wrote = [n \in S \cup Held(q) |-> new[n]],
                                     ![q].step = "commit"]
             /\ UNCHANGED <<book, open, alone, edits>>
  BY <1>6 DEF Statement
<1>10. CASE GiveUpEdit(q)
  <2>1. book' = b /\ edit' = [ed EXCEPT ![q] = Resting] /\ alone' = al
    BY <1>2, <1>10 DEF GiveUpEdit, Leave
  <2>2. Consistent(b, [ed EXCEPT ![q] = Resting], al)
    BY <1>3, RequestEnds
  <2> QED BY <2>1, <2>2 DEF SeriesInv
<1>11. CASE ~Trips(Seen(q), new, order)
  <2>1. book' = b /\ alone' = al
        /\ edit' = Stepped(ed, q, w, "commit")
    BY <1>2, <1>3, <1>8, <1>9, <1>11 DEF Stepped, Chosen
  <2>2. ed[q].kind = "reorder" /\ ed[q].step = "assign"
    BY <1>1, <1>2
  <2>3. \A n \in S : new[n] = Assigned(q, n, rows[n])
    BY <1>4, <1>5 DEF Members
  <2>4. rows = SeenBy(ed[q], b) /\ edit = ed
    BY <1>2
  <2>s. order \in SetToSeqs(S) /\ ~Trips(rows, new, order)
    BY <1>3, <1>9, <1>11
  <2>5. Consistent(b, Stepped(ed, q, w, "commit"), al)
    BY ONLY <1>0, <1>3, <1>4, <1>7, <1>8, <2>2, <2>3, <2>4, <2>s, Assigns
  <2> QED BY <2>1, <2>5 DEF SeriesInv
<1> QED BY <1>9, <1>10, <1>11

LEMMA ReorderKeeps ==
    ASSUME SeriesInv, NEW q \in Editor, NEW s \in Collection, NEW wish \in Wish,
           ReorderSeries(q, s, wish)
    PROVE  SeriesInv'
<1>1. PICK b, ed, al, al2, to : b = book /\ ed = edit /\ al = alone /\ al2 = alone'
         /\ to = ReorderPositions(Ordered(wish, SeriesBooks(b, s)))
  OBVIOUS
<1>2. PICK e : e = [kind |-> "reorder", series |-> s, step |-> "negate", wish |-> wish,
                    to |-> to, wrote |-> <<>>]
  OBVIOUS
<1>3. book' = b /\ edit' = [ed EXCEPT ![q] = e] /\ al2 \subseteq al \cup {q}
  BY <1>1, <1>2 DEF ReorderSeries
<1>4. Consistent(b, ed, al)
  BY <1>1 DEF SeriesInv
<1>5. Consistent(b, [ed EXCEPT ![q] = e], al2)
  BY <1>1, <1>2, <1>3, <1>4, ReorderBegins
<1> QED BY <1>1, <1>3, <1>5 DEF SeriesInv

LEMMA DeleteKeeps ==
    ASSUME SeriesInv, NEW q \in Editor, NEW s \in Collection, DeleteSeries(q, s)
    PROVE  SeriesInv'
<1>1. PICK b, ed, al : b = book /\ ed = edit /\ al = alone
  OBVIOUS
<1>2. PICK w : w = [n \in Members(b, s) |-> [Loose EXCEPT !.slot = {0}]]
  OBVIOUS
<1>3. PICK e : e = [kind |-> "drop", series |-> s, step |-> "drop", wrote |-> w]
  OBVIOUS
<1>4. book' = b /\ edit' = [ed EXCEPT ![q] = e] /\ alone' = al
  BY <1>1, <1>2, <1>3 DEF DeleteSeries
<1>5. \A p \in Editor \ {q} : HeldBy(ed[p]) \cap Members(b, s) = {}
  BY <1>1, FreeMeans DEF DeleteSeries
<1>6. Consistent(b, ed, al)
  BY <1>1 DEF SeriesInv
<1>7. Consistent(b, [ed EXCEPT ![q] = e], al)
  BY <1>2, <1>3, <1>5, <1>6, DeleteBegins
<1> QED BY <1>4, <1>7 DEF SeriesInv

LEMMA DropKeeps ==
    ASSUME SeriesInv, NEW q \in Editor, DropSeries(q)
    PROVE  SeriesInv'
<1>1. PICK b, ed, al, late : b = book /\ ed = edit /\ al = alone
         /\ late = Members(SeenBy(ed[q], b), ed[q].series)
  OBVIOUS
<1>2. Seen(q) = SeenBy(ed[q], b) /\ Held(q) = HeldBy(ed[q])
  BY <1>1, Linked
<1>3. PICK w : w = [n \in late \cup HeldBy(ed[q]) |->
                      IF n \in late THEN [b[n] EXCEPT !.series = NoSeries]
                      ELSE SeenBy(ed[q], b)[n]]
  OBVIOUS
<1>4. book' = b /\ edit' = Emptied(ed, q, w) /\ alone' = al
  BY <1>1, <1>2, <1>3 DEF DropSeries, Emptied
<1>5. \A p \in Editor \ {q} : HeldBy(ed[p]) \cap late = {}
  <2>1. Free(q, late)
    BY <1>1, <1>2 DEF DropSeries
  <2> QED BY <1>1, <2>1, FreeMeans
<1>6. Consistent(b, ed, al) /\ ed[q].kind = "drop"
  BY <1>1 DEF SeriesInv, DropSeries
<1>7. Consistent(b, Emptied(ed, q, w), al)
  BY <1>1, <1>3, <1>5, <1>6, DropCompletes
<1> QED BY <1>4, <1>7 DEF SeriesInv

LEMMA EditCommits ==
    ASSUME SeriesInv, NEW q \in Editor, CommitEdit(q)
    PROVE  SeriesInv'
<1>1. PICK b, ed, al, al2 : b = book /\ ed = edit /\ al = alone /\ al2 = alone'
  OBVIOUS
<1>2. Consistent(b, ed, al) /\ ed[q].kind # "rest" /\ ed[q].step = "commit"
  BY <1>1 DEF SeriesInv, CommitEdit
<1>3. book' = SeenBy(ed[q], b) /\ edit' = [ed EXCEPT ![q] = Resting]
  BY <1>1, Linked DEF CommitEdit, Leave
<1>4. \A p \in al2 \cap Editor : p # q => ed[p].kind # "reorder"
  BY <1>1 DEF CommitEdit, Disturb, Busy
<1>5. Consistent(SeenBy(ed[q], b), [ed EXCEPT ![q] = Resting], al2)
  BY <1>2, <1>4, CommitMoves
<1> QED BY <1>1, <1>3, <1>5 DEF SeriesInv

LEMMA RowKeeps ==
    ASSUME SeriesInv, NEW n \in Book, NEW r \in BookRow, UpdateRow(n, r)
    PROVE  SeriesInv'
<1>1. PICK b, ed, al, al2 : b = book /\ ed = edit /\ al = alone /\ al2 = alone'
  OBVIOUS
<1>2. Consistent(b, ed, al) /\ edit' = ed
  BY <1>1 DEF SeriesInv, UpdateRow
<1>3. CASE book' = b /\ al2 = al
  BY <1>1, <1>2, <1>3 DEF SeriesInv
<1>4. CASE /\ ~\E m \in Book : Clash([book EXCEPT ![n] = r], m, n)
           /\ book' = [book EXCEPT ![n] = r] /\ alone' = alone \ Busy
  <2>1. PICK b2 : b2 = [b EXCEPT ![n] = r]
    OBVIOUS
  <2>2. \A q \in Editor : n \notin HeldBy(ed[q])
    BY <1>1, Linked DEF UpdateRow, Settled
  <2>3. \A q \in Editor, m \in Book \ {n} :
           m \in HeldBy(ed[q]) /\ r.series # NoSeries =>
              \/ r.slot \cap (b[m].slot \cup ed[q].wrote[m].slot) = {}
              \/ r.series \notin {b[m].series, ed[q].wrote[m].series}
    BY <1>1, Linked DEF UpdateRow, Settled
  <2>4. \A m \in Book : ~Clash(b2, m, n)
    BY <1>1, <1>4, <2>1
  <2>5. \A p \in al2 \cap Editor : ed[p].kind # "reorder"
    BY <1>1, <1>4 DEF Busy
  <2>6. Consistent(b2, ed, al2)
    BY <1>2, <2>1, <2>2, <2>3, <2>4, <2>5, RowMoves
  <2> QED BY <1>1, <1>2, <1>4, <2>1, <2>6 DEF SeriesInv
<1> QED BY <1>1, <1>3, <1>4 DEF UpdateRow

(* The rows that the operations write.                                     *)
LEMMA UpdateKeeps ==
    ASSUME SeriesInv, NEW n \in Book,
           \/ \E s \in Collection :
                JoinSeries(n, s, book[n].slot) \/ \E p \in Slot : JoinSeries(n, s, {p})
           \/ LeaveSeries(n)
           \/ \E p \in Slot : SetPosition(n, p)
    PROVE  SeriesInv'
<1>1. book[n] \in BookRow
  BY DEF SeriesInv, Consistent, SeriesRows, BookRow
<1>2. \A p \in Slot : {p} \in Slots
  <2>1. Slot \subseteq Nat
    BY SeriesAssumption
  <2>2. ASSUME NEW p \in Int PROVE {p} \in Slots
    BY DEF Slots
  <2> QED BY ONLY <2>1, <2>2
<1>3. \A s \in Collection, x \in Slots : [series |-> s, slot |-> x] \in BookRow
  BY DEF BookRow
<1>4. book[n].slot \in Slots
  BY <1>1 DEF BookRow
<1>5. CASE \E s \in Collection : JoinSeries(n, s, book[n].slot)
  BY <1>3, <1>4, <1>5, RowKeeps DEF JoinSeries
<1>6. CASE \E s \in Collection : \E p \in Slot : JoinSeries(n, s, {p})
  BY <1>2, <1>3, <1>6, RowKeeps DEF JoinSeries
<1>7. CASE LeaveSeries(n)
  <2>1. Loose \in BookRow
    BY DEF Loose, BookRow, Slots
  <2> QED BY <1>7, <2>1, RowKeeps DEF LeaveSeries
<1>8. ASSUME NEW p \in Slot, SetPosition(n, p) PROVE SeriesInv'
  <2>1. PICK r \in BookRow : r = book[n]
    BY <1>1
  <2>2. [r EXCEPT !.slot = {p}] \in BookRow
    BY <1>2 DEF BookRow
  <2> QED BY <1>8, <2>1, <2>2, RowKeeps DEF SetPosition
<1> QED BY <1>5, <1>6, <1>7, <1>8

(* The positions of a series stay apart, whatever requests do side by side, *)
(* and a reorder that has only to commit still fits the rows as they are.   *)
THEOREM SeriesInvCorrect == SeriesSpec => []SeriesInv
<1>1. SeriesInit => SeriesInv
  BY SeriesStart
<1>2. SeriesInv /\ [SeriesNext]_seriesVars => SeriesInv'
  <2> SUFFICES ASSUME SeriesInv, [SeriesNext]_seriesVars PROVE SeriesInv'
    OBVIOUS
  <2>1. CASE UNCHANGED seriesVars
    BY <2>1 DEF seriesVars, SeriesInv
  <2>2. ASSUME NEW q \in Editor,
               \/ \E s \in Collection : DeleteSeries(q, s) \/ \E w \in Wish : ReorderSeries(q, s, w)
               \/ NegateAll(q) \/ AssignAll(q) \/ DropSeries(q) \/ CommitEdit(q)
        PROVE  SeriesInv'
    BY <2>2, DeleteKeeps, ReorderKeeps, NegateKeeps, AssignKeeps, DropKeeps, EditCommits
  <2> QED BY <2>1, <2>2, UpdateKeeps DEF SeriesNext
<1> QED BY <1>1, <1>2, PTL DEF SeriesSpec

-----------------------------------------------------------------------------
(* SeriesRows that stand in the order of their new positions stand at them.      *)
LEMMA InTheirPlaces ==
    ASSUME NEW order \in Seq(Nat), NEW M, M = ToSet(order),
           NEW to, to = ReorderPositions(order),
           NEW after \in Seq(M), ToSet(after) = M, Distinct(after),
           \A i, j \in 1 .. Len(after) : to[after[i]] < to[after[j]] <=> i < j
    PROVE  \A i \in 1 .. Len(after) : to[after[i]] = i
<1>1. Len(after) \in Nat /\ DOMAIN after = 1 .. Len(after)
      /\ \A i \in 1 .. Len(after) : after[i] \in M
  OBVIOUS
<1>2. /\ \A n \in ToSet(order) :
           ReorderPositions(order)[n] = Cardinality(Sooner(order)[n]) + 1
      /\ \A m, n \in ToSet(order) : ReorderPositions(order)[m] < ReorderPositions(order)[n]
                                      <=> First(order, m) < First(order, n)
  BY PositionsFacts
<1>3. \A x \in M : \E j \in 1 .. Len(after) : after[j] = x
  BY <1>1 DEF ToSet
<1>4. ASSUME NEW i \in 1 .. Len(after) PROVE to[after[i]] = i
  <2>1. PICK S : S = Sooner(order)[after[i]]
    OBVIOUS
  <2>2. \A x \in M : x \in S <=> to[x] < to[after[i]]
    BY <1>1, <1>2, <2>1 DEF Sooner
  <2>3. S \subseteq M
    BY <1>1, <2>1 DEF Sooner
  <2>4. PICK k \in 0 .. Len(after) : k = i - 1
    BY <1>1
  <2>5. \A j \in 1 .. k : after[j] \in S
    <3> TAKE j \in 1 .. k
    <3>1. j \in 1 .. Len(after) /\ j < i
      BY <1>1, <2>4
    <3> QED BY <1>1, <2>2, <3>1
  <2>6. \A x \in S : \E j \in 1 .. k : after[j] = x
    <3> TAKE x \in S
    <3>1. PICK j \in 1 .. Len(after) : after[j] = x
      BY <1>3, <2>3
    <3>2. j < i
      BY <2>2, <2>3, <3>1
    <3>3. j \in 1 .. k
      BY <1>1, <2>4, <3>2
    <3> QED BY <3>1, <3>3
  <2>7. Cardinality(S) = k
    BY <2>4, <2>5, <2>6, DistinctCount
  <2>8. to[after[i]] = Cardinality(S) + 1
    BY <1>1, <1>2, <2>1
  <2> QED BY <1>1, <2>4, <2>7, <2>8
<1> QED BY <1>4

(* A reorder that has written its positions leaves the books as asked.     *)
LEMMA CommitAsAsked ==
    ASSUME NEW b, NEW ed, NEW al, Consistent(b, ed, al), NEW q \in Editor, q \in al,
           ed[q].kind = "reorder", ed[q].step = "commit",
           NEW s, s = ed[q].series, NEW b2, b2 = SeenBy(ed[q], b),
           NEW before, before = SeriesBooks(b, s), NEW after, after = SeriesBooks(b2, s)
    PROVE  /\ \A i \in DOMAIN after : b2[after[i]].slot = {i}
           /\ PlacedAsAsked(before, after, ed[q].wish)
<1>1. PICK e \in Edits : e = ed[q]
  BY DEF Consistent
<1>2. b \in SeriesRows /\ e \in Reorders /\ EditOK(e, b) /\ SoloOK(e, b)
  BY <1>1, EditShape DEF Consistent
<1>3. PICK M, to, wish : M = Members(b, s) /\ to = e.to /\ wish = e.wish
  OBVIOUS
<1>4. /\ to = ReorderPositions(Ordered(wish, before)) /\ HeldBy(e) = M
      /\ \A n \in M : e.wrote[n].slot = {to[n]}
  BY <1>1, <1>2, <1>3 DEF SoloOK
<1>5. wish \in Wish /\ wish \in Seq(Nat)
  BY <1>2, <1>3, SeriesAssumption DEF Reorders
<1>6. /\ IsFiniteSet(M) /\ M \subseteq Book /\ M \subseteq Nat /\ DOMAIN to = M
      /\ \A n \in M : to[n] \in 1 .. Cardinality(M)
      /\ \A m, n \in M : to[m] = to[n] => m = n
  BY <1>2, <1>3, <1>4, <1>5, SoloTo
<1>7. /\ b2 \in SeriesRows
      /\ \A n \in Book : b2[n] = IF n \in M THEN e.wrote[n] ELSE b[n]
  BY <1>1, <1>2, <1>4, HeldShape
<1>8. Members(b2, s) = M
  BY <1>1, <1>2, <1>3, <1>4, <1>6, <1>7 DEF EditOK, Members
<1>9. before \in Seq(M) /\ ToSet(before) = M /\ Distinct(before)
  <2>1. \A n \in Book : b[n].slot \in Slots
    BY <1>2 DEF SeriesRows
  <2>2. /\ SeriesBooks(b, s) \in Seq(Members(b, s)) /\ ToSet(SeriesBooks(b, s)) = Members(b, s)
        /\ Distinct(SeriesBooks(b, s))
    BY <2>1, BooksFacts
  <2> QED BY <1>3, <2>2
<1>10. \A n \in Book : b2[n].slot \in Slots
  BY <1>7 DEF SeriesRows
<1>11. /\ after \in Seq(M) /\ Len(after) = Cardinality(M) /\ ToSet(after) = M /\ Distinct(after)
       /\ \A i, j \in 1 .. Len(after) : Precedes(b2, after[i], after[j]) <=> i < j
  <2>1. /\ SeriesBooks(b2, s) \in Seq(Members(b2, s))
        /\ Len(SeriesBooks(b2, s)) = Cardinality(Members(b2, s))
        /\ ToSet(SeriesBooks(b2, s)) = Members(b2, s)
        /\ Distinct(SeriesBooks(b2, s))
        /\ \A i, j \in 1 .. Len(SeriesBooks(b2, s)) :
             Precedes(b2, SeriesBooks(b2, s)[i], SeriesBooks(b2, s)[j]) <=> i < j
    BY <1>10, BooksFacts
  <2> QED BY <1>8, <2>1
<1>12. ASSUME NEW m \in M, NEW n \in M PROVE Precedes(b2, m, n) <=> to[m] < to[n]
  <2>1. PICK x \in Int : x = to[m]
    BY <1>6
  <2>2. PICK y \in Int : y = to[n]
    BY <1>6
  <2>3. b2[m].slot = {x} /\ b2[n].slot = {y} /\ m \in Book /\ n \in Book
    BY <1>4, <1>6, <1>7, <2>1, <2>2
  <2>4. Precedes(b2, m, n) <=> (x < y \/ (x = y /\ m < n))
    <3>1. Precedes(b2, m, n) <=>
              \/ b2[m].slot = {} /\ b2[n].slot = {} /\ m < n
              \/ b2[m].slot # {} /\ b2[n].slot = {}
              \/ b2[m].slot # {} /\ b2[n].slot # {} /\ (x < y \/ (x = y /\ m < n))
      BY <1>10, <2>3, PrecedesMeans
    <3>2. b2[m].slot # {} /\ b2[n].slot # {}
      BY <2>3
    <3> QED BY ONLY <3>1, <3>2
  <2>5. x = y => m = n
    BY <1>6, <2>1, <2>2
  <2>6. ~(m < m)
    BY <1>6
  <2> QED BY <2>1, <2>2, <2>4, <2>5, <2>6
<1>13. Len(after) \in Nat /\ DOMAIN after = 1 .. Len(after)
       /\ \A i \in 1 .. Len(after) : after[i] \in M
  BY <1>11
<1>14. \A i, j \in 1 .. Len(after) : to[after[i]] < to[after[j]] <=> i < j
  BY <1>11, <1>12, <1>13
<1>15. PICK order : order \in Seq(Nat) /\ M = ToSet(order) /\ to = ReorderPositions(order)
  <2>1. Ordered(wish, before) \in Seq(Nat) /\ ToSet(Ordered(wish, before)) = M
    BY ONLY <1>5, <1>6, <1>9, OrderedFacts
  <2> QED BY <1>4, <2>1
<1>16. \A i \in 1 .. Len(after) : to[after[i]] = i
  BY ONLY <1>11, <1>14, <1>15, InTheirPlaces
<1>17. \A i \in DOMAIN after : b2[after[i]].slot = {i}
  <2> TAKE i \in DOMAIN after
  <2>1. after[i] \in M /\ after[i] \in Book /\ to[after[i]] = i
    BY <1>6, <1>13, <1>16
  <2>2. b2[after[i]] = e.wrote[after[i]]
    BY <1>7, <2>1
  <2> QED BY <1>4, <2>1, <2>2
<1>18. PlacedAsAsked(before, after, wish)
  BY <1>4, <1>5, <1>6, <1>9, <1>11, <1>16, AsAsked
<1> QED BY <1>1, <1>3, <1>17, <1>18

-----------------------------------------------------------------------------
(* A statement of an undisturbed reorder trips over negative positions only. *)
Sound(b, s) == \A n \in Members(b, s) : \A p \in b[n].slot : ~(p < 0)

LEMMA NegateTrips ==
    ASSUME NEW b, NEW ed, NEW al, Consistent(b, ed, al), NEW q \in Editor, q \in al,
           ed[q].kind = "reorder", ed[q].step = "negate", Sound(b, ed[q].series),
           NEW rows, rows = SeenBy(ed[q], b),
           NEW S, S \subseteq Book,
           \A n \in Book : n \in S <=> rows[n].series = ed[q].series /\ rows[n].slot # {},
           NEW new, \A n \in Book : new[n] = Negated(rows[n]),
           NEW order \in SetToSeqs(S)
    PROVE  ~Trips(rows, new, order)
<1>1. PICK e \in Edits : e = ed[q]
  BY DEF Consistent
<1>2. b \in SeriesRows /\ Apart(b) /\ SoloOK(e, b) /\ IsFiniteSet(S)
  BY <1>1, SeriesAssumption, FS_Subset DEF Consistent
<1>3. HeldBy(e) = {}
  BY <1>1, <1>2 DEF SoloOK
<1>4. rows \in SeriesRows /\ \A n \in Book : rows[n] = b[n]
  BY <1>1, <1>2, <1>3, HeldShape
<1>5. Apart(rows)
  BY <1>2, <1>4, SameClash DEF Apart
<1>6. \A n \in S : \A p \in rows[n].slot : p >= 0
  <2> TAKE n \in S
  <2>1. n \in Members(b, ed[q].series)
    BY <1>4 DEF Members
  <2>2. \A p \in rows[n].slot : ~(p < 0)
    BY <1>4, <2>1 DEF Sound
  <2>3. \A p \in rows[n].slot : p \in Int
    BY <1>4 DEF SeriesRows, Slots
  <2> QED BY <2>2, <2>3
<1>7. PICK s : s = ed[q].series
  OBVIOUS
<1>8. \A n \in Book : n \in S <=> rows[n].series = s /\ rows[n].slot # {}
  BY <1>7
<1> QED BY <1>2, <1>4, <1>5, <1>6, <1>8, NegateSmooth

LEMMA AssignTrips ==
    ASSUME NEW b, NEW ed, NEW al, Consistent(b, ed, al), NEW q \in Editor, q \in al,
           ed[q].kind = "reorder", ed[q].step = "assign", Sound(b, ed[q].series),
           edit = ed, NEW rows, rows = SeenBy(ed[q], b),
           NEW S, S = Members(rows, ed[q].series),
           NEW new, \A n \in S : new[n] = Assigned(q, n, rows[n]),
           NEW order \in SetToSeqs(S)
    PROVE  ~Trips(rows, new, order)
<1>1. PICK e \in Edits : e = ed[q]
  BY DEF Consistent
<1>2. b \in SeriesRows /\ EditOK(e, b) /\ SoloOK(e, b) /\ e \in Reorders
  BY <1>1, EditShape DEF Consistent
<1>3. PICK s, to, wish, M :
         s = e.series /\ to = e.to /\ wish = e.wish /\ M = Members(b, s)
  OBVIOUS
<1>4. /\ to = ReorderPositions(Ordered(wish, SeriesBooks(b, s)))
      /\ HeldBy(e) = {n \in M : b[n].slot # {}}
      /\ \A n \in HeldBy(e) : e.wrote[n] = Negated(b[n])
  BY <1>1, <1>2, <1>3 DEF SoloOK
<1>5. wish \in Wish
  BY <1>2, <1>3 DEF Reorders
<1>6. /\ IsFiniteSet(M) /\ M \subseteq Book /\ DOMAIN to = M
      /\ \A n \in M : to[n] \in 1 .. Cardinality(M)
      /\ \A m, n \in M : to[m] = to[n] => m = n
  BY <1>2, <1>3, <1>4, <1>5, SoloTo
<1>7. /\ rows \in SeriesRows
      /\ \A n \in Book : rows[n] = IF n \in HeldBy(e) THEN e.wrote[n] ELSE b[n]
  BY <1>1, <1>2, HeldShape
<1>8. S = M
  BY <1>1, <1>2, <1>3, <1>4, <1>6, <1>7 DEF EditOK, Members
<1>9. \A n \in Book : n \in S <=> rows[n].series = s
  BY <1>1, <1>3 DEF Members
<1>10. ASSUME NEW n \in S, NEW p \in rows[n].slot PROVE p <= 0
  <2>1. n \in HeldBy(e) /\ rows[n] = Negated(b[n])
    BY <1>4, <1>6, <1>7, <1>8, <1>10
  <2>2. b[n] \in BookRow /\ n \in Members(b, ed[q].series)
    BY <1>1, <1>2, <1>3, <1>6, <1>8 DEF SeriesRows, BookRow
  <2>3. PICK r \in b[n].slot : p = 0 - r
    BY <2>1, <2>2, NegatedFacts
  <2>4. r \in Int /\ ~(r < 0)
    BY <2>2, <2>3 DEF Sound, BookRow, Slots
  <2> QED BY <2>3, <2>4
<1>11. \A n \in S : to[n] \in Nat \ {0}
  <2>1. Cardinality(M) \in Nat
    BY <1>6, FS_CardinalityType
  <2> QED BY <1>6, <1>8, <2>1
<1>12. \A n \in S : new[n].slot = {to[n]} /\ new[n].series = s
  <2> TAKE n \in S
  <2>1. rows[n] \in BookRow /\ rows[n].series = s
    BY <1>6, <1>7, <1>8, <1>9 DEF SeriesRows, BookRow
  <2>2. new[n] = [rows[n] EXCEPT !.slot = {to[n]}]
    BY <1>1, <1>3, <1>6, <1>8 DEF Assigned
  <2> QED BY <2>1, <2>2 DEF BookRow
<1>13. IsFiniteSet(S) /\ S \subseteq Book /\ \A m, n \in S : to[m] = to[n] => m = n
  BY <1>6, <1>8
<1>14. \A n \in S : \A p \in rows[n].slot : p <= 0
  BY <1>10
<1>15. order \in SetToSeqs(S)
  OBVIOUS
<1> QED BY ONLY <1>7, <1>9, <1>11, <1>12, <1>13, <1>14, <1>15, AssignSmooth

(* Only a request's own steps end it.                                      *)
LEMMA OwnStep ==
    ASSUME SeriesInv, [SeriesNext]_seriesVars, NEW q \in Editor,
           edit[q].kind = "reorder", edit'[q] = Resting
    PROVE  NegateAll(q) \/ AssignAll(q) \/ CommitEdit(q)
<1>1. edit \in [Editor -> Edits] /\ edit[q] # Resting
  BY DEF SeriesInv, Consistent, Resting
<1>2. SUFFICES ASSUME ~(NegateAll(q) \/ AssignAll(q) \/ CommitEdit(q)) PROVE edit'[q] = edit[q]
  BY <1>1
<1>3. CASE UNCHANGED edit
  BY <1>3
<1>4. ASSUME NEW n \in Book, NEW r, UpdateRow(n, r) PROVE edit'[q] = edit[q]
  BY <1>4 DEF UpdateRow
<1>5. ASSUME NEW p \in Editor, NEW s, DeleteSeries(p, s) PROVE edit'[q] = edit[q]
  BY <1>1, <1>5 DEF DeleteSeries
<1>6. ASSUME NEW p \in Editor, NEW s, NEW wish, ReorderSeries(p, s, wish) PROVE edit'[q] = edit[q]
  BY <1>1, <1>6 DEF ReorderSeries
<1>7. ASSUME NEW p \in Editor, p # q, NegateAll(p) \/ AssignAll(p) PROVE edit'[q] = edit[q]
  BY <1>1, <1>7 DEF NegateAll, AssignAll, Statement, GiveUpEdit, Leave
<1>8. ASSUME NEW p \in Editor, DropSeries(p) PROVE edit'[q] = edit[q]
  <2>1. p # q
    BY <1>8 DEF DropSeries
  <2> QED BY <1>1, <1>8, <2>1 DEF DropSeries
<1>9. ASSUME NEW p \in Editor, p # q, CommitEdit(p) PROVE edit'[q] = edit[q]
  BY <1>1, <1>9 DEF CommitEdit, Leave
<1> QED
  BY <1>2, <1>3, <1>4, <1>5, <1>6, <1>7, <1>8, <1>9
     DEF SeriesNext, seriesVars, JoinSeries, LeaveSeries, SetPosition

(* A statement that goes through leaves its request open.                  *)
LEMMA StatementGoesOn ==
    ASSUME SeriesInv, NEW q \in Editor, edit[q].kind = "reorder", NEW w, NEW next,
           edit' = [edit EXCEPT ![q].wrote = w, ![q].step = next]
    PROVE  edit'[q] # Resting
<1>1. edit \in [Editor -> Edits] /\ edit[q] \in Reorders
  BY EditShape DEF SeriesInv, Consistent
<1>2. PICK e \in Reorders : e = edit[q]
  BY <1>1
<1>3. edit'[q] = [e EXCEPT !.wrote = w, !.step = next]
  BY <1>1, <1>2
<1>4. edit'[q].kind = "reorder"
  BY <1>2, <1>3 DEF Reorders
<1>5. Resting.kind = "rest"
  BY DEF Resting
<1> QED BY ONLY <1>4, <1>5

LEMMA NegateEnds ==
    ASSUME SeriesInv, NEW q \in Editor, q \in alone, NegateAll(q), edit'[q] = Resting
    PROVE  ~Sound(book, edit[q].series)
<1>0. q \in Editor
  OBVIOUS
<1>1. edit[q].kind = "reorder" /\ edit[q].step = "negate"
  BY DEF NegateAll
<1>2. PICK b, ed, al, rows : b = book /\ ed = edit /\ al = alone /\ rows = SeenBy(ed[q], b)
  OBVIOUS
<1>3. Consistent(b, ed, al) /\ Seen(q) = rows /\ Held(q) = HeldBy(ed[q]) /\ q \in al
  BY <1>2, Linked DEF SeriesInv
<1>4. PICK S : S = {n \in Members(rows, ed[q].series) : rows[n].slot # {}}
  OBVIOUS
<1>5. PICK new : new = [n \in Book |-> Negated(rows[n])]
  OBVIOUS
<1>6. Statement(q, S, new, "assign")
  BY <1>2, <1>3, <1>4, <1>5 DEF NegateAll
<1>7. PICK order \in SetToSeqs(S) :
        IF Trips(Seen(q), new, order) THEN GiveUpEdit(q)
        ELSE /\ edit' = [edit EXCEPT ![q].wrote = [n \in S \cup Held(q) |-> new[n]],
                                     ![q].step = "assign"]
             /\ UNCHANGED <<book, open, alone, edits>>
  BY <1>6 DEF Statement
<1>8. Trips(rows, new, order)
  BY <1>1, <1>3, <1>7, StatementGoesOn
<1>9. S \subseteq Book
      /\ \A n \in Book : n \in S <=> rows[n].series = ed[q].series /\ rows[n].slot # {}
  BY <1>4 DEF Members
<1>10. \A n \in Book : new[n] = Negated(rows[n])
  BY <1>5
<1>11. ed[q].kind = "reorder" /\ ed[q].step = "negate" /\ rows = SeenBy(ed[q], b)
       /\ order \in SetToSeqs(S)
  BY <1>1, <1>2
<1>12. ~Sound(b, ed[q].series)
  BY ONLY <1>0, <1>3, <1>8, <1>9, <1>10, <1>11, NegateTrips
<1> QED BY <1>2, <1>12

LEMMA AssignEnds ==
    ASSUME SeriesInv, NEW q \in Editor, q \in alone, AssignAll(q), edit'[q] = Resting
    PROVE  ~Sound(book, edit[q].series)
<1>0. q \in Editor
  OBVIOUS
<1>1. edit[q].kind = "reorder" /\ edit[q].step = "assign"
  BY DEF AssignAll
<1>2. PICK b, ed, al, rows : b = book /\ ed = edit /\ al = alone /\ rows = SeenBy(ed[q], b)
  OBVIOUS
<1>3. Consistent(b, ed, al) /\ Seen(q) = rows /\ Held(q) = HeldBy(ed[q]) /\ q \in al
  BY <1>2, Linked DEF SeriesInv
<1>4. PICK S : S = Members(rows, ed[q].series)
  OBVIOUS
<1>5. PICK new : new = [n \in Book |-> IF n \in S THEN Assigned(q, n, rows[n]) ELSE rows[n]]
  OBVIOUS
<1>6. Statement(q, S, new, "commit")
  BY <1>2, <1>3, <1>4, <1>5 DEF AssignAll
<1>7. PICK order \in SetToSeqs(S) :
        IF Trips(Seen(q), new, order) THEN GiveUpEdit(q)
        ELSE /\ edit' = [edit EXCEPT ![q].wrote = [n \in S \cup Held(q) |-> new[n]],
                                     ![q].step = "commit"]
             /\ UNCHANGED <<book, open, alone, edits>>
  BY <1>6 DEF Statement
<1>8. Trips(rows, new, order)
  BY <1>1, <1>3, <1>7, StatementGoesOn
<1>9. \A n \in S : new[n] = Assigned(q, n, rows[n])
  BY <1>4, <1>5 DEF Members
<1>10. ed[q].kind = "reorder" /\ ed[q].step = "assign" /\ rows = SeenBy(ed[q], b)
       /\ order \in SetToSeqs(S) /\ edit = ed
  BY <1>1, <1>2
<1>11. ~Sound(b, ed[q].series)
  BY ONLY <1>0, <1>3, <1>4, <1>8, <1>9, <1>10, AssignTrips
<1> QED BY <1>2, <1>11

-----------------------------------------------------------------------------
(* Only a request that is served is undisturbed.                           *)
LEMMA AloneServed == SeriesSpec => [](alone \subseteq Editor)
<1>1. SeriesInit => alone \subseteq Editor
  BY DEF SeriesInit
<1>2. alone \subseteq Editor /\ [SeriesNext]_seriesVars => (alone \subseteq Editor)'
  <2> SUFFICES ASSUME alone \subseteq Editor, [SeriesNext]_seriesVars
               PROVE  alone' \subseteq Editor
    OBVIOUS
  <2>1. CASE UNCHANGED alone
    BY <2>1
  <2>2. ASSUME NEW n \in Book, NEW r, UpdateRow(n, r) PROVE alone' \subseteq Editor
    BY <2>2 DEF UpdateRow
  <2>3. ASSUME NEW q \in Editor, NEW s,
               DeleteSeries(q, s) \/ \E wish \in Wish : ReorderSeries(q, s, wish)
        PROVE  alone' \subseteq Editor
    BY <2>3 DEF DeleteSeries, ReorderSeries
  <2>4. ASSUME NEW q \in Editor, NegateAll(q) \/ AssignAll(q) \/ DropSeries(q)
        PROVE  UNCHANGED alone
    BY <2>4 DEF NegateAll, AssignAll, DropSeries, Statement, GiveUpEdit
  <2>5. ASSUME NEW q \in Editor, CommitEdit(q) PROVE alone' \subseteq Editor
    BY <2>5 DEF CommitEdit, Disturb
  <2> QED BY <2>1, <2>2, <2>3, <2>4, <2>5
             DEF SeriesNext, seriesVars, JoinSeries, LeaveSeries, SetPosition
<1> QED BY <1>1, <1>2, PTL DEF SeriesSpec

(* What ReorderAsAsked says of a step and a request.                       *)
LEMMA EndsAsAsked ==
    ASSUME SeriesInv, [SeriesNext]_seriesVars, NEW q \in Editor, q \in alone,
           edit[q].kind = "reorder", edit'[q] = Resting,
           NEW before, before = SeriesBooks(book, edit[q].series),
           NEW after, after = SeriesBooks(book', edit[q].series)
    PROVE  \/ \E n \in ToSet(before) : \E p \in book[n].slot : p < 0
           \/ /\ edit[q].step = "commit"
              /\ \A i \in DOMAIN after : book'[after[i]].slot = {i}
              /\ PlacedAsAsked(before, after, edit[q].wish)
<1>0. q \in Editor
  OBVIOUS
<1>1. PICK b, ed, al, s : b = book /\ ed = edit /\ al = alone /\ s = edit[q].series
  OBVIOUS
<1>2. Consistent(b, ed, al) /\ ed[q].kind = "reorder" /\ s = ed[q].series /\ q \in al
  BY <1>1 DEF SeriesInv
<1>3. ToSet(before) = Members(b, s)
  <2>1. \A n \in Book : b[n].slot \in Slots
    BY <1>2 DEF Consistent, SeriesRows
  <2>2. ToSet(SeriesBooks(b, s)) = Members(b, s)
    BY <2>1, BooksFacts
  <2> QED BY <1>1, <2>2
<1>4. CASE NegateAll(q) \/ AssignAll(q)
  <2>1. ~Sound(book, edit[q].series)
    BY <1>4, NegateEnds, AssignEnds
  <2> QED BY <1>1, <1>3, <2>1 DEF Sound
<1>5. CASE CommitEdit(q)
  <2>1. PICK b2 : b2 = SeenBy(ed[q], b)
    OBVIOUS
  <2>2. book' = b2 /\ edit[q].step = "commit"
    BY <1>1, <1>5, <2>1, Linked DEF CommitEdit
  <2>3. before = SeriesBooks(b, s) /\ after = SeriesBooks(b2, s) /\ ed[q].step = "commit"
    BY <1>1, <2>2
  <2>4. /\ \A i \in DOMAIN after : b2[after[i]].slot = {i}
        /\ PlacedAsAsked(before, after, ed[q].wish)
    BY ONLY <1>0, <1>2, <2>1, <2>3, CommitAsAsked
  <2> QED BY <1>1, <2>2, <2>4
<1> QED BY <1>4, <1>5, OwnStep

(* A reorder that nobody disturbs ends with its commit, and the books then  *)
(* stand at 1, 2, ... as the client asked, the others behind them; it trips *)
(* over the index only where a position was negative (SetSeriesOrder).      *)
THEOREM ReorderAsAskedCorrect == SeriesSpec => ReorderAsAsked
<1> DEFINE AskedFor ==
       \A q \in alone :
         edit[q].kind = "reorder" /\ edit'[q] = Resting =>
           LET before == SeriesBooks(book, edit[q].series)
               after  == SeriesBooks(book', edit[q].series)
           IN  \/ \E n \in ToSet(before) : \E p \in book[n].slot : p < 0
               \/ /\ edit[q].step = "commit"
                  /\ \A i \in DOMAIN after : book'[after[i]].slot = {i}
                  /\ PlacedAsAsked(before, after, edit[q].wish)
<1>1. SeriesInv /\ alone \subseteq Editor /\ [SeriesNext]_seriesVars => AskedFor
  <2> SUFFICES ASSUME SeriesInv, alone \subseteq Editor, [SeriesNext]_seriesVars,
                      NEW q \in alone, edit[q].kind = "reorder", edit'[q] = Resting
               PROVE  LET before == SeriesBooks(book, edit[q].series)
                          after  == SeriesBooks(book', edit[q].series)
                      IN  \/ \E n \in ToSet(before) : \E p \in book[n].slot : p < 0
                          \/ /\ edit[q].step = "commit"
                             /\ \A i \in DOMAIN after : book'[after[i]].slot = {i}
                             /\ PlacedAsAsked(before, after, edit[q].wish)
    OBVIOUS
  <2>1. q \in Editor
    OBVIOUS
  <2> QED BY <2>1, EndsAsAsked
<1>2. SeriesSpec => [][AskedFor]_seriesVars
  BY <1>1, SeriesInvCorrect, AloneServed, PTL DEF SeriesSpec
<1> QED BY <1>2 DEF ReorderAsAsked
=============================================================================
