--------------------------------- MODULE Series ---------------------------------
(***************************************************************************)
(* A translator's series and the reading order of its books (service/writer*)
(* and repository/writer, series.go; UpdateNovel in repository.go).        *)
(*                                                                         *)
(* The order is a slot in the novel's own row, and a partial unique index  *)
(* lets no two novels of a series have the same.  It is checked row by row *)
(* while a statement runs.  A reorder reads the books first and then runs  *)
(* one transaction of two statements; a deletion is two statements too, of *)
(* which the second lets the foreign key empty series_id.  A statement     *)
(* takes the rows that it wants at one moment, when nobody else holds one. *)
(***************************************************************************)
EXTENDS Integers, Sequences, FiniteSets, SequencesExt, Orders

CONSTANTS
    Book,           \* novels, by id
    Collection,     \* series
    Editor,         \* requests that are served side by side
    Wish,           \* orders that a client sends
    Slot,           \* positions that a client gives a novel
    MaxEdits        \* bound: requests that begin

ASSUME SeriesAssumption ==
    /\ Book \subseteq Nat \ {0} /\ IsFiniteSet(Book) /\ IsFiniteSet(Editor)
    /\ Wish \subseteq Seq(Nat) /\ Slot \subseteq Nat /\ MaxEdits \in Nat

VARIABLES
    book,       \* [Book -> the row's series and slot]
    open,       \* the series that exist
    edit,       \* [Editor -> the request that is served, or Resting]
    alone,      \* reorders during which nothing else was written
    edits

seriesVars == <<book, open, edit, alone, edits>>

(* A slot is a set: a NULL position is none.                               *)
NoSeries == "none"
Loose    == [series |-> NoSeries, slot |-> {}]
Resting  == [kind |-> "rest"]

(* The books of a series have never been ordered, or they stand at their   *)
(* places in it.                                                           *)
SeriesInit ==
    /\ \E home \in [Book -> Collection \cup {NoSeries}], numbered \in SUBSET Collection :
         book = [n \in Book |->
            [series |-> home[n],
             slot |-> IF home[n] \in numbered
                      THEN {Cardinality({m \in Book : home[m] = home[n] /\ m <= n})}
                      ELSE {}]]
    /\ open = Collection
    /\ edit = [q \in Editor |-> Resting]
    /\ alone = {} /\ edits = 0

-----------------------------------------------------------------------------
(* What request q sees: the committed rows and what it has written itself. *)
Held(q)    == IF edit[q].kind \in {"reorder", "drop"} THEN DOMAIN edit[q].wrote ELSE {}
Seen(q)    == [n \in Book |-> IF n \in Held(q) THEN edit[q].wrote[n] ELSE book[n]]
Free(q, S) == \A p \in Editor \ {q} : Held(p) \cap S = {}

Members(rows, s) == {n \in Book : rows[n].series = s}

(* ORDER BY series_position, id: novels without a position come last.      *)
Precedes(rows, m, n) ==
    LET a == rows[m].slot
        b == rows[n].slot
    IN  CASE a = {} /\ b = {} -> m < n
          [] a = {} /\ b # {} -> FALSE
          [] a # {} /\ b = {} -> TRUE
          [] OTHER -> \A x \in a, y \in b : x < y \/ (x = y /\ m < n)
SeriesBooks(rows, s) ==
    LET S == Members(rows, s)
    IN  Ranked(S, [n \in S |-> {m \in S : Precedes(rows, m, n)}])

(* The index: rows m and n take the same slot.                             *)
Clash(rows, m, n) ==
    /\ m # n /\ rows[m].series = rows[n].series /\ rows[m].series # NoSeries
    /\ rows[m].slot \cap rows[n].slot # {}

(* A statement turns rows into new, those of S in some order, and may trip *)
(* over a clash with a row that it has not reached yet.                    *)
Mixed(rows, new, S) == [n \in Book |-> IF n \in S THEN new[n] ELSE rows[n]]
Trips(rows, new, order) ==
    \E i \in DOMAIN order, m \in Book :
        Clash(Mixed(rows, new, ToSet(SubSeq(order, 1, i))), m, order[i])

(* The commit of what q wrote, or its failure, and the others' solitude.   *)
Busy == {q \in Editor : edit[q].kind = "reorder"}
Disturb(q) == alone' = alone \ (Busy \ {q})
Leave(q)   == edit' = [edit EXCEPT ![q] = Resting]
GiveUpEdit(q)  ==
    /\ Leave(q)
    /\ UNCHANGED <<book, open, alone, edits>>

-----------------------------------------------------------------------------
(* ReorderSeries: the ids that are not members are dropped, the members    *)
(* that were omitted follow, each novel counts once (ReorderPositions).    *)
Ordered(wish, books) ==
    Filtered(wish, ToSet(books)) \o Filtered(books, ToSet(books) \ ToSet(wish))
Nth(order, n) ==
    LET first == CHOOSE i \in DOMAIN order :
                   order[i] = n /\ \A j \in 1..(i - 1) : order[j] # n
    IN  Cardinality(ToSet(SubSeq(order, 1, first)))
ReorderPositions(order) == [n \in ToSet(order) |-> Nth(order, n)]

ReorderSeries(q, s, wish) ==
    /\ edit[q] = Resting /\ s \in open /\ edits < MaxEdits
    /\ LET books == SeriesBooks(book, s)
       IN  /\ books # <<>>
           /\ edit' = [edit EXCEPT ![q] =
                [kind |-> "reorder", series |-> s, step |-> "negate", wish |-> wish,
                 to |-> ReorderPositions(Ordered(wish, books)), wrote |-> <<>>]]
    /\ alone' = IF \A p \in Editor : edit[p] = Resting THEN alone \cup {q} ELSE alone \ {q}
    /\ edits' = edits + 1
    /\ UNCHANGED <<book, open>>

(* SetSeriesOrder, first statement: every position out of the way.         *)
(* Mutant: they stay where they are.                                       *)
Kept(r) == r
Negated(r) == [r EXCEPT !.slot = {0 - p : p \in r.slot}]
(* Second statement: the new positions; a row that is not named gets its   *)
(* position negated once more.                                             *)
Assigned(q, n, r) ==
    IF n \in DOMAIN edit[q].to THEN [r EXCEPT !.slot = {edit[q].to[n]}] ELSE Negated(r)

(* One UPDATE of the rows S, whatever order it meets them in.              *)
Statement(q, S, new, next) ==
    /\ Free(q, S)
    /\ \E order \in SetToSeqs(S) :
         IF Trips(Seen(q), new, order)
         THEN GiveUpEdit(q)
         ELSE /\ edit' = [edit EXCEPT ![q].wrote = [n \in S \cup Held(q) |-> new[n]],
                                      ![q].step = next]
              /\ UNCHANGED <<book, open, alone, edits>>
NegateAll(q) ==
    /\ edit[q].kind = "reorder" /\ edit[q].step = "negate"
    /\ Statement(q, {n \in Members(Seen(q), edit[q].series) : Seen(q)[n].slot # {}},
                 [n \in Book |-> Negated(Seen(q)[n])], "assign")
AssignAll(q) ==
    /\ edit[q].kind = "reorder" /\ edit[q].step = "assign"
    /\ Statement(q, Members(Seen(q), edit[q].series),
                 [n \in Book |-> IF n \in Members(Seen(q), edit[q].series)
                                 THEN Assigned(q, n, Seen(q)[n]) ELSE Seen(q)[n]],
                 "commit")

-----------------------------------------------------------------------------
(* DeleteSeries: the books are detached, then the series goes and with it  *)
(* the membership of whoever has joined since.                             *)
DeleteSeries(q, s) ==
    /\ edit[q] = Resting /\ s \in open /\ edits < MaxEdits
    /\ Free(q, Members(book, s))
    /\ edit' = [edit EXCEPT ![q] =
         [kind |-> "drop", series |-> s, step |-> "drop",
          wrote |-> [n \in Members(book, s) |-> [Loose EXCEPT !.slot = {0}]]]]
    /\ edits' = edits + 1
    /\ UNCHANGED <<book, open, alone>>
DropSeries(q) ==
    /\ edit[q].kind = "drop" /\ edit[q].step = "drop"
    /\ LET late == Members(Seen(q), edit[q].series)
       IN  /\ Free(q, late)
           /\ edit' = [edit EXCEPT ![q].step = "commit",
                ![q].wrote = [n \in late \cup Held(q) |->
                    IF n \in late THEN [book[n] EXCEPT !.series = NoSeries]
                    ELSE Seen(q)[n]]]
    /\ UNCHANGED <<book, open, alone, edits>>

CommitEdit(q) ==
    /\ edit[q].kind \in {"reorder", "drop"} /\ edit[q].step = "commit"
    /\ book' = Seen(q)
    /\ open' = IF edit[q].kind = "drop" THEN open \ {edit[q].series} ELSE open
    /\ Leave(q) /\ Disturb(q)
    /\ UNCHANGED edits

-----------------------------------------------------------------------------
(* UpdateNovel is one statement.  The rows that others have written are    *)
(* waited for where the index or the foreign key has to know.              *)
Settled(n, r) ==
    /\ \A q \in Editor : n \notin Held(q)
    /\ \A q \in Editor, m \in Book \ {n} :
         m \in Held(q) /\ r.series # NoSeries =>
           /\ r.slot \cap (book[m].slot \cup edit[q].wrote[m].slot) = {}
              \/ r.series \notin {book[m].series, edit[q].wrote[m].series}
           /\ edit[q].kind = "drop" /\ edit[q].step = "commit" => r.series # edit[q].series
UpdateRow(n, r) ==
    /\ edits < MaxEdits /\ edits' = edits + 1
    /\ Settled(n, r)
    /\ IF \E m \in Book : Clash([book EXCEPT ![n] = r], m, n)
       THEN UNCHANGED <<book, alone>>
       ELSE book' = [book EXCEPT ![n] = r] /\ alone' = alone \ Busy
    /\ UNCHANGED <<open, edit>>

(* Joining, or moving from one series to another, may name a position and  *)
(* else keeps the one that the novel has; leaving drops it.                *)
JoinSeries(n, s, slot) ==
    /\ s \in open /\ book[n].series # s
    /\ UpdateRow(n, [series |-> s, slot |-> slot])
LeaveSeries(n) ==
    /\ book[n].series # NoSeries
    /\ UpdateRow(n, Loose)
SetPosition(n, p) == UpdateRow(n, [book[n] EXCEPT !.slot = {p}])

SeriesNext ==
    \/ \E q \in Editor :
         \/ \E s \in Collection : DeleteSeries(q, s) \/ \E w \in Wish : ReorderSeries(q, s, w)
         \/ NegateAll(q) \/ AssignAll(q) \/ DropSeries(q) \/ CommitEdit(q)
    \/ \E n \in Book :
         \/ \E s \in Collection :
              JoinSeries(n, s, book[n].slot) \/ \E p \in Slot : JoinSeries(n, s, {p})
         \/ LeaveSeries(n)
         \/ \E p \in Slot : SetPosition(n, p)

SeriesSpec == SeriesInit /\ [][SeriesNext]_seriesVars

-----------------------------------------------------------------------------
(* A reorder during which nothing else is written never trips over the     *)
(* index on its way, however it permutes the books, as long as no position *)
(* is negative (SetSeriesOrder's two statements).  It leaves the books of  *)
(* the series at 1, 2, ... without a gap: those that the client sent in    *)
(* its order, then the others in the order that they had (ReorderSeries).  *)
PlacedAsAsked(before, after, wish) ==
    LET sent == Filtered(wish, ToSet(before))
        rest == Filtered(before, ToSet(before) \ ToSet(sent))
    IN  /\ Len(after) = Cardinality(ToSet(sent)) + Len(rest)
        /\ \A i, j \in DOMAIN after : i < j /\ after[j] \in ToSet(sent) =>
             /\ after[i] \in ToSet(sent)
             /\ \E x, y \in DOMAIN sent : sent[x] = after[i] /\ sent[y] = after[j] /\ x < y
        /\ IsSuffix(rest, after)

ReorderAsAsked ==
    [][\A q \in alone :
         edit[q].kind = "reorder" /\ edit'[q] = Resting =>
           LET before == SeriesBooks(book, edit[q].series)
               after  == SeriesBooks(book', edit[q].series)
           IN  \/ \E n \in ToSet(before) : \E p \in book[n].slot : p < 0
               \/ /\ edit[q].step = "commit"
                  /\ \A i \in DOMAIN after : book'[after[i]].slot = {i}
                  /\ PlacedAsAsked(before, after, edit[q].wish)]_seriesVars
=============================================================================
