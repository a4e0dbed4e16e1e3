------------------------------- MODULE MCReaders -------------------------------
(* The readers' side of the site for TLC.  Its components share no state,  *)
(* so each instance looks at one of them while the others stand still: the *)
(* counters and the threads together (histories of a few requests), the    *)
(* opening of a chapter, the rows of a reader, the session of a browser.   *)
EXTENDS Threads, Reading, Shelf, MCSessions

CONSTANTS mei, nok, anon, tr, ot, adm, n1, n2, q1, q2, q3, k1, k2, k3

VARIABLE lane       \* the component that this instance looks at

-----------------------------------------------------------------------------
(* Histories of Counters and Threads.                                      *)
Asks(k, u, t, s) == [kind |-> k, user |-> u, on |-> t, stars |-> s]
NoAsk  == Asks("follow", mei, <<n1>>, 0)
Posts(u, ch, p)  == [kind |-> "post", user |-> u, chapter |-> ch, parent |-> p]
Drops(u, c)      == [kind |-> "drop", user |-> u, comment |-> c]

(* Comment 1 is mei's, on the chapter "first".                             *)
OneComment ==
    [c \in Comment |-> IF c = 1 THEN [chapter |-> "first", user |-> mei, parent |-> 0,
                                      badge |-> FALSE, deleted |-> FALSE]
                       ELSE NoComment]
Books   == <<n1, n2>>
Swapped == <<n2, n1>>

Served(x, y, z, n, ls, os) ==
    [serve |-> IF n = 0 THEN {} ELSE IF n = 1 THEN {q1} ELSE {q1, q2, q3},
     ask |-> [q \in Request |-> IF q = q1 THEN x ELSE IF q = q2 THEN y ELSE z],
     links |-> ls, orders |-> os, calls |-> {},
     call |-> [k \in Call |-> Drops(mei, 1)], comments |-> OneComment]
Called(h, x, y, z) ==
    [h EXCEPT !.calls = Call,
              !.call = [k \in Call |-> IF k = k1 THEN x ELSE IF k = k2 THEN y ELSE z]]

Nothing == Served(NoAsk, NoAsk, NoAsk, 0, {}, <<Books>>)

(* Two readers follow a series while it is reordered, one drops it.        *)
SeriesFollowed ==
    Served(Asks("follow_series", mei, <<>>, 0), Asks("follow_series", nok, <<>>, 0),
           Asks("unfollow_series", nok, <<>>, 0), 3, {<<nok, n1>>},
           <<Books, Swapped, <<>>>>)
(* One reader in several tabs: a book and its series.                      *)
Tabs ==
    Served(Asks("follow_series", mei, <<>>, 0), Asks("unfollow", mei, <<n2>>, 0),
           Asks("follow", mei, <<n1>>, 0), 3, {<<mei, n2>>}, <<Books, Swapped>>)
(* A reader likes and unlikes a comment, and likes it again.               *)
LikesCrossed ==
    Served(Asks("like", mei, <<1>>, 0), Asks("unlike", mei, <<1>>, 0),
           Asks("like", nok, <<1>>, 0), 3, {}, <<Books>>)
LikesRepeated ==
    Served(Asks("like", mei, <<1>>, 0), Asks("like", mei, <<1>>, 0),
           Asks("unlike", mei, <<1>>, 0), 3, {<<mei, 1>>, <<nok, 1>>}, <<Books>>)
(* Two readers review a novel, one of them twice.                          *)
Reviewed ==
    Served(Asks("review", mei, <<n1>>, 5), Asks("review", nok, <<n1>>, 2),
           Asks("review", nok, <<n1>>, 4), 3, {}, <<Books>>)
(* A reviewer and a follower of the same novel, and its series' follower.  *)
Mixed ==
    Served(Asks("review", mei, <<n1>>, 3), Asks("follow", nok, <<n1>>, 0),
           Asks("follow_series", mei, <<>>, 0), 3, {}, <<Swapped>>)

(* Replies to a comment, by its author too, which its author deletes.      *)
RepliedTo ==
    Called(Nothing, Posts(nok, "first", 1), Posts(mei, "first", 1), Drops(mei, 1))
(* Its author and the translator delete a comment that is liked.           *)
DeletedTwice ==
    Called(Served(Asks("like", nok, <<1>>, 0), NoAsk, NoAsk, 1, {}, <<Books>>),
           Drops(mei, 1), Drops(tr, 1), Drops(nok, 1))
(* A reply, a reply to it, and a reply from another chapter.               *)
RepliedAcross ==
    Called(Nothing, Posts(nok, "first", 1), Posts(mei, "first", 2), Posts(nok, "other", 1))
(* A new comment is deleted by an admin while it is being answered.        *)
Moderated ==
    Called(Nothing, Posts(nok, "first", 0), Drops(adm, 2), Posts(mei, "first", 2))

MCHistories == {Nothing, SeriesFollowed, Tabs, LikesCrossed, LikesRepeated, Reviewed,
                Mixed, RepliedTo, DeletedTwice, RepliedAcross, Moderated}
MCTranslatorOf == [c \in Chapter |-> tr]

-----------------------------------------------------------------------------
(* Reading: the chapter's translator, another one, an admin.               *)
MCRolesOf == [v \in Visitor |-> IF v \in {tr, ot} THEN {"translator"}
                                ELSE IF v = adm THEN {"admin"} ELSE {}]
MCPct     == {120}

AtRest ==
    /\ lane # "community" => CountersInit(Nothing) /\ ThreadInit(Nothing)
    /\ lane # "reading" => /\ ReadingInit /\ owners = {} /\ subscribers = {}
                           /\ chapter = [status |-> "draft", price |-> 0, publicAt |-> 0]
    /\ lane # "shelf" => ShelfInit
    /\ SessionsInit

MCInit ==
    /\ lane \in {"community", "reading", "shelf", "session"}
    /\ CASE lane = "community" -> CommunityInit
         [] lane = "reading"   -> ReadingInit
         [] lane = "shelf"     -> ShelfInit
         [] lane = "session"   -> SessionsInit
    /\ AtRest

community == <<vars, threadVars>>
atHome    == <<readingVars, shelfVars, sessionVars>>
MCNext ==
    /\ UNCHANGED lane
    /\ \/ lane = "community" /\ CommunityNext /\ UNCHANGED atHome
       \/ /\ UNCHANGED community
          /\ \/ lane = "reading" /\ ReadingNext /\ UNCHANGED <<shelfVars, sessionVars>>
             \/ lane = "shelf" /\ ShelfNext /\ UNCHANGED <<readingVars, sessionVars>>
             \/ lane = "session" /\ SessionsNext /\ UNCHANGED <<readingVars, shelfVars>>

all == <<lane, community, atHome>>
MCSpec ==
    /\ MCInit /\ [][MCNext]_all
    /\ \A q \in Request :
         WF_all(Serve(q) /\ UNCHANGED <<lane, threadVars, atHome>>)
=============================================================================
