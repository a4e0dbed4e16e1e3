--------------------------------- MODULE Shelf ---------------------------------
(***************************************************************************)
(* What belongs to one reader: the shelf and the bookmarks (service and    *)
(* repository/library), the position in a novel (service/reading) and the  *)
(* inbox (service/notification).  A request takes the time, or reads,      *)
(* first and writes in a later statement, which commits by itself; a       *)
(* reader has several devices.  One novel.                                 *)
(***************************************************************************)
EXTENDS Integers

CONSTANTS
    Owner,          \* readers
    Device,         \* requests that are served side by side
    Tab,            \* Statuses of a shelf entry
    Pct,            \* positions that a client sends
    Item,           \* ids of bookmarks and notifications, handed out in order
    MaxClock, MaxWrites                             \* bounds for TLC

Nobody == "nobody"

ASSUME ShelfAssumption == /\ Nobody \notin Owner
                          /\ Item \subseteq Nat \ {0} /\ Pct \subseteq Int
                          /\ MaxClock \in Nat /\ MaxWrites \in Nat

VARIABLES
    shelf,      \* [Owner -> the library_entries row of the novel, or Off]
    position,   \* [Owner -> the reading_progress row of the novel]
    bookmarks,  \* [Item -> [of, gone]]: bookmarks rows; gone ones keep their id
    inbox,      \* [Item -> [to, readAt]]: notifications rows, 0: unread
    device,     \* [Device -> the request that is served, or Free]
    clock, writes

shelfVars == <<shelf, position, bookmarks, inbox, device, clock, writes>>
stores    == <<shelf, position, bookmarks, inbox>>

Off    == [tab |-> "off", added |-> 0]
Free   == [kind |-> "free"]

ShelfInit ==
    /\ shelf = [u \in Owner |-> Off]
    /\ position = [u \in Owner |-> [pct |-> 0, at |-> 0]]
    /\ bookmarks = [i \in Item |-> [of |-> Nobody, gone |-> FALSE]]
    /\ inbox = [i \in Item |-> [to |-> Nobody, readAt |-> 0]]
    /\ device = [d \in Device |-> Free]
    /\ clock = 1 /\ writes = 0

-----------------------------------------------------------------------------
Take(d, request) == device[d] = Free /\ device' = [device EXCEPT ![d] = request]
Done(d)          == device' = [device EXCEPT ![d] = Free]

(* SetShelfStatus takes the time; UpsertShelf changes the tab of a row that*)
(* is there and leaves its added_at.                                       *)
SetShelfStatus(d, u, t) ==
    Take(d, [kind |-> "put", user |-> u, tab |-> t, at |-> clock])
    /\ UNCHANGED <<stores, writes>>
Upserted(row, t, at) ==
    IF row = Off THEN [tab |-> t, added |-> at] ELSE [row EXCEPT !.tab = t]
UpsertShelf(d) ==
    /\ device[d].kind = "put"
    /\ shelf' = [shelf EXCEPT ![device[d].user] = Upserted(@, device[d].tab, device[d].at)]
    /\ Done(d) /\ UNCHANGED <<position, bookmarks, inbox>>
RemoveShelf(u) ==
    /\ shelf[u] # Off
    /\ shelf' = [shelf EXCEPT ![u] = Off]
    /\ UNCHANGED <<position, bookmarks, inbox, device>>

(* SaveProgress clamps the position and takes the time; UpsertProgress     *)
(* writes the row, whatever was written since.                             *)
Clamp(p) == IF p < 0 THEN 0 ELSE IF p > 100 THEN 100 ELSE p
SaveProgress(d, u, p) ==
    Take(d, [kind |-> "save", user |-> u, pct |-> Clamp(p), at |-> clock])
    /\ UNCHANGED <<stores, writes>>
UpsertProgress(d) ==
    /\ device[d].kind = "save"
    /\ position' = [position EXCEPT ![device[d].user] =
                      [pct |-> device[d].pct, at |-> device[d].at]]
    /\ Done(d) /\ UNCHANGED <<shelf, bookmarks, inbox>>

(* CreateBookmark; the ids come from a sequence and are not used again.    *)
Fresh(i, taken(_)) == ~taken(i) /\ \A j \in Item : j < i => taken(j)
CreateBookmark(u) ==
    \E i \in Item :
        /\ Fresh(i, LAMBDA j : bookmarks[j].of # Nobody)
        /\ bookmarks' = [bookmarks EXCEPT ![i].of = u]
        /\ UNCHANGED <<shelf, position, inbox, device>>

(* DeleteBookmark reads the row and refuses another reader's; the DELETE   *)
(* that follows goes by the id alone and may find the row gone.            *)
ReadBookmark(d, u, i) ==
    /\ bookmarks[i].of = u /\ ~bookmarks[i].gone
    /\ Take(d, [kind |-> "unbookmark", user |-> u, id |-> i])
    /\ UNCHANGED <<stores, writes>>
DeleteBookmark(d) ==
    /\ device[d].kind = "unbookmark"
    /\ bookmarks' = [bookmarks EXCEPT ![device[d].id].gone = TRUE]
    /\ Done(d) /\ UNCHANGED <<shelf, position, inbox>>

(* FanOut: a notification for u.                                           *)
Notify(u) ==
    \E i \in Item :
        /\ Fresh(i, LAMBDA j : inbox[j].to # Nobody)
        /\ inbox' = [inbox EXCEPT ![i].to = u]
        /\ UNCHANGED <<shelf, position, bookmarks, device>>

(* MarkRead takes the time; the UPDATE marks those of the ids, or all when *)
(* there are none, that are u's and not read yet.                          *)
MarkRead(d, u, ids) ==
    Take(d, [kind |-> "read", user |-> u, ids |-> ids, at |-> clock])
    /\ UNCHANGED <<stores, writes>>
(* Mutant: the ids are trusted.                                            *)
MarksAnyones(x, i) ==
    inbox[i].readAt = 0 /\ (inbox[i].to = x.user \/ i \in x.ids)
Marks(x, i) == /\ inbox[i].to = x.user /\ inbox[i].readAt = 0
               /\ x.ids = {} \/ i \in x.ids
UpdateRead(d) ==
    /\ device[d].kind = "read"
    /\ inbox' = [i \in Item |-> IF Marks(device[d], i)
                                THEN [inbox[i] EXCEPT !.readAt = device[d].at]
                                ELSE inbox[i]]
    /\ Done(d) /\ UNCHANGED <<shelf, position, bookmarks>>

Arrive(d, u) ==
    \/ \E t \in Tab : SetShelfStatus(d, u, t)
    \/ \E p \in Pct : SaveProgress(d, u, p)
    \/ \E i \in Item : ReadBookmark(d, u, i)
    \/ \E ids \in SUBSET Item : MarkRead(d, u, ids)
Write ==
    /\ writes < MaxWrites /\ writes' = writes + 1
    /\ \/ \E u \in Owner : RemoveShelf(u) \/ CreateBookmark(u) \/ Notify(u)
       \/ \E d \in Device : \/ UpsertShelf(d) \/ UpsertProgress(d)
                            \/ DeleteBookmark(d) \/ UpdateRead(d)

ShelfNext ==
    \/ \E d \in Device, u \in Owner : Arrive(d, u) /\ UNCHANGED clock
    \/ Write /\ UNCHANGED clock
    \/ clock < MaxClock /\ clock' = clock + 1 /\ UNCHANGED <<stores, device, writes>>

ShelfSpec == ShelfInit /\ [][ShelfNext]_shelfVars

-----------------------------------------------------------------------------
(* A bookmark goes, and a notification is read, by a request of its owner  *)
(* only, though the statement goes by the id; what was read stays read at  *)
(* the time it was first read, and a novel keeps the time at which it was  *)
(* put on the shelf while it stays there, however many devices move it     *)
(* between the tabs (DeleteBookmark, MarkRead, MarkAllRead, UpsertShelf).  *)
RowsStayTheirs ==
    [][/\ \A i \in Item :
            /\ bookmarks'[i].gone # bookmarks[i].gone =>
                 \E d \in Device : /\ device[d].kind = "unbookmark"
                                   /\ device[d].user = bookmarks[i].of
            /\ inbox'[i].readAt # inbox[i].readAt =>
                 /\ inbox[i].readAt = 0
                 /\ \E d \in Device : /\ device[d].kind = "read"
                                      /\ device[d].user = inbox[i].to
       /\ \A u \in Owner :
            shelf[u] # Off /\ shelf'[u] # Off => shelf'[u].added = shelf[u].added]_shelfVars
=============================================================================
