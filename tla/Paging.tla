-------------------------------- MODULE Paging --------------------------------
(***************************************************************************)
(* Walking a long list page by page (httpx/cursor.go and the List queries  *)
(* of the repositories).  A page holds PageSize rows and, if there are     *)
(* more, a cursor with the sort order and the key of its last row; the     *)
(* next page starts behind that key, whatever was inserted, removed or     *)
(* moved since.                                                            *)
(***************************************************************************)
EXTENDS Integers, Sequences, FiniteSets, SequencesExt, Orders

CONSTANTS
    Item,           \* rows of the list that is walked, by id
    Weight,         \* what rows may be sorted by: likes, followers, a number, a time
    PageSize,       \* rows on a page
    MaxMoves        \* bound for TLC

ASSUME PagingAssumption ==
    /\ IsFiniteSet(Item) /\ Item \subseteq Nat /\ Weight \subseteq Nat
    /\ PageSize \in Nat \ {0} /\ MaxMoves \in Nat

VARIABLES
    rows,       \* [Item -> [there, fits, weight]]; fits: what the query filters by
    walk,       \* [list, sort, cursor, over]: a reader's walk through a list
    listed,     \* [Item -> how often the walk has met it]
    steady,     \* items that have been in the list, at one place, since it began
    moves

pagingVars == <<rows, walk, listed, steady, moves>>

-----------------------------------------------------------------------------
(* A key is a sequence of numbers, a cursor one of them with its sort      *)
(* order; lists are in descending order of their keys.  A cursor is only   *)
(* taken under the order it was given out for.                             *)
FirstPage == [sort |-> "", keys |-> <<>>]
DecodeCursorFor(cursor, sort) == cursor = FirstPage \/ cursor.sort = sort

Below(k, l) ==
    \E n \in 1..Len(k) : k[n] < l[n] /\ \A m \in 1..(n - 1) : k[m] = l[m]

(* The rows of S in the order of their keys, which are given by key.       *)
InOrder(S, key) == Ranked(S, [i \in S |-> {j \in S : Below(key[i], key[j])}])

(* A query asks for one row more than a page, to know whether there is one. *)
(* Mutant: rows that share the cursor's first number are left out.         *)
BehindFirst(S, key, after) == {i \in S : after = <<>> \/ key[i][1] < after[1]}
Behind(S, key, after) == {i \in S : after = <<>> \/ Below(key[i], after)}
Fetched(S, key, after) ==
    LET all == InOrder(Behind(S, key, after), key)
    IN  SubSeq(all, 1, IF Len(all) > PageSize THEN PageSize + 1 ELSE Len(all))

Page(S, key, after) ==
    LET got  == Fetched(S, key, after)
        more == Len(got) > PageSize
    IN  [items |-> IF more THEN SubSeq(got, 1, PageSize) ELSE got,
         next  |-> IF more THEN key[got[PageSize]] ELSE <<>>]

Present == {i \in Item : rows[i].there}
Fitting == {i \in Present : rows[i].fits}

ById     == [i \in Item |-> <<i>>]
ByWeight == [i \in Item |-> <<rows[i].weight, i>>]

(* Comments: those with a reply, the latest, the most liked.               *)
ListComments(sort, keys) ==
    CASE sort = "with_replies" -> Page(Fitting, ById, keys)
      [] sort = "latest"       -> Page(Present, ById, keys)
      [] OTHER                 -> Page(Present, ByWeight, keys)
ListReviews(keys) == Page(Present, ById, keys)

(* Novels that are not hidden: last updated, or most followed.  What is    *)
(* found by a word is one page, and its next page is never asked for.      *)
CatalogNovels(sort, keys) ==
    IF sort = "search" THEN [Page(Fitting, ByWeight, <<>>) EXCEPT !.next = <<>>]
    ELSE Page(Fitting, ByWeight, keys)

(* The shelf is in ascending order of its novels; a tab shows some of it.  *)
ListShelf(keys)         == Page(Fitting, [i \in Item |-> <<-i>>], keys)
ListBookmarks(keys)     == Page(Present, ById, keys)
ListNotifications(keys) == Page(Fitting, ById, keys)

(* The ledger is in the order of its times, chapters in that of their      *)
(* numbers, which no two chapters of a novel share.                        *)
ListLedger(keys)     == Page(Present, ByWeight, keys)
ListEarnings(keys)   == Page(Present, ById, keys)
WriterNovels(keys)   == Page(Present, ById, keys)
WriterChapters(keys) == Page(Present, [i \in Item |-> <<rows[i].weight>>], keys)

Sorts(list) ==
    CASE list = "comments" -> {"popular", "latest", "with_replies"}
      [] list = "catalog"  -> {"popular", "latest", "search"}
      [] OTHER             -> {list}
Lists == {"comments", "reviews", "catalog", "shelf", "bookmarks", "notifications",
          "ledger", "earnings", "writer_novels", "writer_chapters"}

PageOf(list, sort, keys) ==
    CASE list = "comments"        -> ListComments(sort, keys)
      [] list = "reviews"         -> ListReviews(keys)
      [] list = "catalog"         -> CatalogNovels(sort, keys)
      [] list = "shelf"           -> ListShelf(keys)
      [] list = "bookmarks"       -> ListBookmarks(keys)
      [] list = "notifications"   -> ListNotifications(keys)
      [] list = "ledger"          -> ListLedger(keys)
      [] list = "earnings"        -> ListEarnings(keys)
      [] list = "writer_novels"   -> WriterNovels(keys)
      [] list = "writer_chapters" -> WriterChapters(keys)

(* The rows that a list shows in an order, at their places.                *)
Shows(list, sort) ==
    IF list \in {"shelf", "notifications", "catalog"} \/ sort = "with_replies"
    THEN Fitting ELSE Present
Movable(list, sort) ==
    \/ list = "comments" /\ sort = "popular"
    \/ list = "catalog"
    \/ list = "writer_chapters"

-----------------------------------------------------------------------------
NumbersDiffer == walk.list = "writer_chapters" =>
    \A i, j \in Present : rows[i].weight = rows[j].weight => i = j

PagingInit ==
    /\ \E list \in Lists : \E sort \in Sorts(list) :
          walk = [list |-> list, sort |-> sort, cursor |-> FirstPage, over |-> FALSE]
    /\ rows \in [Item -> [there : BOOLEAN, fits : {TRUE}, weight : Weight]]
    /\ NumbersDiffer
    /\ listed = [i \in Item |-> 0] /\ moves = 0
    /\ steady = Shows(walk.list, walk.sort)

NextPage ==
    /\ ~walk.over
    /\ LET answer == PageOf(walk.list, walk.sort, walk.cursor.keys)
       IN  /\ listed' = [i \in Item |-> listed[i] + (IF i \in ToSet(answer.items) THEN 1 ELSE 0)]
           /\ walk' = IF answer.next = <<>> THEN [walk EXCEPT !.over = TRUE]
                      ELSE [walk EXCEPT !.cursor = [sort |-> walk.sort, keys |-> answer.next]]
    /\ UNCHANGED <<rows, steady, moves>>

(* The reader changes the order in the middle of a walk: a cursor that is  *)
(* refused sends them to the first page.                                   *)
ChangeSort(sort) ==
    /\ ~walk.over /\ sort # walk.sort /\ moves < MaxMoves /\ moves' = moves + 1
    /\ walk' = [walk EXCEPT !.sort = sort,
                           !.cursor = IF DecodeCursorFor(@, sort) THEN @ ELSE FirstPage]
    /\ listed' = [i \in Item |-> 0] /\ steady' = Shows(walk.list, sort)
    /\ UNCHANGED rows

(* Meanwhile a row comes, goes, is filtered differently, or moves.         *)
Disturbed(i, row) ==
    /\ ~walk.over /\ moves < MaxMoves /\ moves' = moves + 1
    /\ rows' = [rows EXCEPT ![i] = row]
    /\ UNCHANGED <<walk, listed>>
    /\ NumbersDiffer'

Appear(i) == /\ ~rows[i].there /\ Disturbed(i, [rows[i] EXCEPT !.there = TRUE])
             /\ UNCHANGED steady
Vanish(i) == /\ rows[i].there /\ Disturbed(i, [rows[i] EXCEPT !.there = FALSE])
             /\ steady' = steady \ {i}
Refit(i) == /\ rows[i].there /\ Disturbed(i, [rows[i] EXCEPT !.fits = ~@])
            /\ steady' = steady \cap Shows(walk.list, walk.sort)'
Reweigh(i, w) ==
    /\ rows[i].there /\ w # rows[i].weight /\ walk.list # "ledger"
    /\ Disturbed(i, [rows[i] EXCEPT !.weight = w])
    /\ steady' = IF Movable(walk.list, walk.sort) THEN steady \ {i} ELSE steady

PagingNext ==
    \/ NextPage
    \/ \E sort \in Sorts(walk.list) : ChangeSort(sort)
    \/ \E i \in Item : Appear(i) \/ Vanish(i) \/ Refit(i)
    \/ \E i \in Item, w \in Weight : Reweigh(i, w)

PagingSpec == PagingInit /\ [][PagingNext]_pagingVars

-----------------------------------------------------------------------------
(* A walk to the end meets every row that stood still exactly once, and no *)
(* such row twice on the way, whatever other rows did, and although rows   *)
(* share the number they are sorted by.  A search shows one page only.     *)
ListedOnce ==
    /\ \A i \in steady : listed[i] <= 1
    /\ walk.over /\ walk.sort # "search" => \A i \in steady : listed[i] = 1
=============================================================================
