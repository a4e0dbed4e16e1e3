-------------------------------- MODULE Manuscript --------------------------------
(***************************************************************************)
(* A novel's chapters in the studio: their numbers, arcs, prices, text and *)
(* autosave history (service/writer, repository/writer).                   *)
(*                                                                         *)
(* A request reads the novel or the chapter, then the arcs, and then runs  *)
(* one transaction on what it has read.  The transaction locks the row     *)
(* that it updates; its new number is in the index from then on, where     *)
(* others wait for it, and is free for them only once it is committed.     *)
(***************************************************************************)
EXTENDS Integers, FiniteSets

CONSTANTS
    Chapter,        \* ids of chapters; one novel
    Arc,            \* ids of arcs, in the order of arc_no
    Number,         \* chapter numbers
    Price,          \* prices that a client sends
    Pen,            \* requests that are served side by side
    Keep,           \* KeepRevisions
    MaxSaves        \* bound: requests that begin

ASSUME ManuscriptAssumption ==
    /\ IsFiniteSet(Chapter) /\ IsFiniteSet(Pen)
    /\ Arc \subseteq Nat \ {0} /\ Number \subseteq Nat \ {0}
    /\ Price \subseteq Nat /\ Keep \in Nat \ {0} /\ MaxSaves \in Nat

VARIABLES
    settings,   \* novels: price_per_chapter and free_until_chapter
    arcs,       \* [Arc -> [from, to] or NoArc]
    chapters,   \* [Chapter -> a row with its body, or NoChapter]
    history,    \* [Chapter -> set of [text, at]]: chapter_drafts, at is saved_at
    pen,        \* [Pen -> the request that is served, or PenDown]
    texts,      \* [Chapter -> set of drafts]: history variable, all ever saved
    resolved,   \* history variable: what ResolveArcID answered so far
    moment,     \* the clock that stamps drafts
    saves

manuscriptVars ==
    <<settings, arcs, chapters, history, pen, texts, resolved, moment, saves>>

NoArc     == [from |-> 0, to |-> 0]
NoChapter == [no |-> 0]
PenDown   == [step |-> "idle"]

-----------------------------------------------------------------------------
(* ResolveArcID: the first arc whose range holds the number, or none.      *)
Covers(a, n) == arcs[a] # NoArc /\ arcs[a].from <= n /\ n <= arcs[a].to
ResolveArcID(n) ==
    {a \in Arc : Covers(a, n) /\ \A b \in Arc : b < a => ~Covers(b, n)}

ManuscriptInit ==
    /\ settings \in [price : {0, 2}, free : {0, 1}]
    /\ arcs = [a \in Arc |-> [from |-> a, to |-> a]]
    /\ \E c \in Chapter, n \in Number :
         /\ chapters = [d \in Chapter |-> IF d = c
                          THEN [no |-> n, arc |-> ResolveArcID(n), price |-> 0, text |-> 0]
                          ELSE NoChapter]
         /\ resolved = {<<n, ResolveArcID(n)>>}
    /\ history = [c \in Chapter |-> {}]
    /\ pen = [q \in Pen |-> PenDown]
    /\ texts = [c \in Chapter |-> {}]
    /\ moment = 0 /\ saves = 0

-----------------------------------------------------------------------------
Writing(q)  == pen[q].step \in {"place", "commit"}
Holds(q, c) == Writing(q) /\ pen[q].id = c
Turn(q, next) == pen' = [pen EXCEPT ![q] = next]
Start(q, next) ==
    /\ pen[q] = PenDown /\ saves < MaxSaves /\ saves' = saves + 1
    /\ Turn(q, next)
Sent(new, c, n, p, step, arc) ==
    [step |-> step, new |-> new, id |-> c, no |-> n, price |-> p, arc |-> arc,
     text |-> saves + 1, at |-> 0, doomed |-> {}]

(* CreateChapter: the novel's price is the default, and the chapters up to *)
(* free_until_chapter are free.                                            *)
PriceFor(n, p) ==
    IF n <= settings.free THEN 0 ELSE IF p = 0 THEN settings.price ELSE p
CreateChapter(q, c, n, p) ==
    /\ chapters[c] = NoChapter /\ \A r \in Pen : pen[r].step # "idle" => pen[r].id # c
    /\ Start(q, Sent(TRUE, c, n, PriceFor(n, p), "arcs", {}))
    /\ UNCHANGED <<settings, arcs, chapters, history, texts, resolved, moment>>

(* SaveChapter reads the chapter; a number that is not sent (0), or is the *)
(* chapter's own, leaves its place as it was read.                         *)
SaveChapter(q, c, n, p) ==
    /\ chapters[c] # NoChapter
    /\ IF n \in {0, chapters[c].no}
       THEN Start(q, Sent(FALSE, c, chapters[c].no, p, "lock", chapters[c].arc))
       ELSE Start(q, Sent(FALSE, c, n, p, "arcs", {}))
    /\ UNCHANGED <<settings, arcs, chapters, history, texts, resolved, moment>>

ReadArcs(q) ==
    /\ pen[q].step = "arcs"
    /\ LET arc == ResolveArcID(pen[q].no)
       IN  /\ Turn(q, [pen[q] EXCEPT !.arc = arc, !.step = "lock"])
           /\ resolved' = resolved \cup {<<pen[q].no, arc>>}
    /\ UNCHANGED <<settings, arcs, chapters, history, texts, moment, saves>>

(* The UPDATE takes the chapter's row; an INSERT has nothing to wait for.  *)
(* Mutant: the chapter's row is not locked while its texts are rotated.    *)
NeverLocked(q) == FALSE
Locked(q) == \E r \in Pen \ {q} : Holds(r, pen[q].id)
LockRow(q) ==
    /\ pen[q].step = "lock" /\ ~Locked(q)
    /\ Turn(q, [pen[q] EXCEPT !.step = "place"])
    /\ UNCHANGED <<settings, arcs, chapters, history, texts, resolved, moment, saves>>

(* Then the index: a number that another transaction takes or gives up is  *)
(* waited for, and one that another chapter has fails the request.         *)
InDoubt(q, r) ==
    /\ r # q /\ Writing(r) /\ pen[r].id # pen[q].id
    /\ \/ pen[r].step = "commit" /\ pen[r].no = pen[q].no
       \/ chapters[pen[r].id].no = pen[q].no
Taken(q) == \E c \in Chapter \ {pen[q].id} : chapters[c].no = pen[q].no

(* A save's draft is stamped when it is written.  The drafts that go are   *)
(* all but the newest of those that the transaction sees, its own among    *)
(* them (pruneRevisions).                                                  *)
Draft(q) == [text |-> pen[q].text, at |-> pen[q].at]
Newest(drafts, k) == {d \in drafts : Cardinality({e \in drafts : e.at > d.at}) < k}
Doomed(q, at) ==
    LET drafts == history[pen[q].id] \cup {[text |-> pen[q].text, at |-> at]}
    IN  drafts \ Newest(drafts, Keep)
Place(q) ==
    /\ pen[q].step = "place" /\ ~(\E r \in Pen : InDoubt(q, r))
    /\ \/ Taken(q) /\ Turn(q, PenDown) /\ UNCHANGED moment
       \/ /\ ~Taken(q) /\ moment' = moment + 1
          /\ Turn(q, [pen[q] EXCEPT !.step = "commit", !.at = moment + 1,
                                    !.doomed = Doomed(q, moment + 1)])
    /\ UNCHANGED <<settings, arcs, chapters, history, texts, resolved, saves>>

(* Mutant: a new number keeps the arc that the chapter was in.             *)
WrittenInPlace(q) ==
    [no |-> pen[q].no, price |-> pen[q].price, text |-> pen[q].text,
     arc |-> IF chapters[pen[q].id] = NoChapter THEN pen[q].arc ELSE chapters[pen[q].id].arc]
Written(q) ==
    [no |-> pen[q].no, arc |-> pen[q].arc, price |-> pen[q].price, text |-> pen[q].text]
CommitCreate(q) ==
    /\ pen[q].step = "commit" /\ pen[q].new
    /\ chapters' = [chapters EXCEPT ![pen[q].id] = Written(q)]
    /\ Turn(q, PenDown)
    /\ UNCHANGED <<settings, arcs, history, texts, resolved, moment, saves>>
CommitSave(q) ==
    /\ pen[q].step = "commit" /\ ~pen[q].new
    /\ LET c == pen[q].id
       IN  /\ chapters' = [chapters EXCEPT ![c] = Written(q)]
           /\ history' = [history EXCEPT ![c] = (@ \cup {Draft(q)}) \ pen[q].doomed]
           /\ texts' = [texts EXCEPT ![c] = @ \cup {Draft(q)}]
    /\ Turn(q, PenDown)
    /\ UNCHANGED <<settings, arcs, resolved, moment, saves>>

(* Two chapters that swap their numbers wait for each other; the database  *)
(* rolls one of them back.  Any transaction may fail.                      *)
RolledBack(q) ==
    /\ Writing(q)
    /\ Turn(q, PenDown)
    /\ UNCHANGED <<settings, arcs, chapters, history, texts, resolved, moment, saves>>

(* UpdateNovel and UpdateArc are one statement each; the arcs that the     *)
(* chapters have are left as they are.                                     *)
UpdateNovel(p, f) ==
    /\ settings' = [price |-> p, free |-> f] /\ settings' # settings
    /\ UNCHANGED <<arcs, chapters, history, pen, texts, resolved, moment, saves>>
UpdateArc(a, from, to) ==
    /\ saves < MaxSaves /\ saves' = saves + 1
    /\ arcs' = [arcs EXCEPT ![a] = [from |-> from, to |-> to]] /\ arcs' # arcs
    /\ UNCHANGED <<settings, chapters, history, pen, texts, resolved, moment>>

ManuscriptNext ==
    \/ \E q \in Pen :
         \/ \E c \in Chapter, p \in Price :
              \/ \E n \in Number : CreateChapter(q, c, n, p)
              \/ \E n \in Number \cup {0} : SaveChapter(q, c, n, p)
         \/ ReadArcs(q) \/ LockRow(q) \/ Place(q)
         \/ CommitCreate(q) \/ CommitSave(q) \/ RolledBack(q)
    \/ \E p \in Price, f \in {0, 1} : UpdateNovel(p, f)
    \/ \E a \in Arc, m, n \in Number : m <= n /\ UpdateArc(a, m, n)

ManuscriptSpec == ManuscriptInit /\ [][ManuscriptNext]_manuscriptVars
-----------------------------------------------------------------------------
(* The history of a chapter is the newest Keep of all the drafts that were *)
(* ever saved, and its body is the newest of them, however many tabs save  *)
(* at once (SaveChapter: "so the chapter and its history cannot drift").   *)
HistoryKeepsNewest ==
    \A c \in Chapter :
        /\ history[c] = Newest(texts[c], Keep)
        /\ \A d \in Newest(texts[c], 1) : chapters[c].text = d.text

(* No two chapters have the same number, and the arc of a chapter is the   *)
(* one that its number had when a request resolved it: a save that loses a *)
(* race leaves both or changes both (SaveChapter, CreateChapter).          *)
PlacedTogether ==
    \A c \in Chapter :
        chapters[c] # NoChapter =>
          /\ <<chapters[c].no, chapters[c].arc>> \in resolved
          /\ \A d \in Chapter : chapters[d].no = chapters[c].no => d = c
=============================================================================
