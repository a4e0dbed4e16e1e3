-------------------------------- MODULE Threads --------------------------------
(***************************************************************************)
(* The comments under a chapter and their replies (service/social,         *)
(* repository/social), and the reply notifications (service/notification). *)
(* Every statement commits by itself: a call reads, decides and writes in  *)
(* steps between which other calls run, the likes of module Counters among *)
(* them, which hold a comment's row until they commit.                     *)
(***************************************************************************)
EXTENDS Counters

CONSTANTS
    Call,           \* calls that are served side by side
    Chapter,
    Admin,          \* readers with the role
    TranslatorOf    \* [Chapter -> Reader]: ChapterTranslatorID

(* Comments are known by their ids, 0 is no comment.                       *)
ASSUME ThreadAssumption ==
    /\ Comment \subseteq Nat \ {0} /\ IsFiniteSet(Comment)
    /\ Admin \subseteq Reader /\ TranslatorOf \in [Chapter -> Reader]

CommentRow == [chapter : Chapter, user : Reader, parent : Comment \cup {0},
               badge : BOOLEAN, deleted : BOOLEAN]
NoComment  == [absent |-> TRUE]

Post == [kind : {"post"}, user : Reader, chapter : Chapter,
         parent : Comment \cup {0}]
Drop == [kind : {"drop"}, user : Reader, comment : Comment]

(* A history has calls, too, and the comments that are there before them.  *)
ASSUME CallAssumption ==
    \A h \in Histories : /\ h.calls \subseteq Call
                         /\ h.call \in [Call -> Post \cup Drop]
                         /\ h.comments \in [Comment -> CommentRow \cup {NoComment}]

VARIABLES
    call,       \* [Call -> Post \cup Drop]
    comments,   \* [Comment -> CommentRow \cup {NoComment}]
    notices,    \* SUBSET (Reader \X Comment): reply notifications
    stage,      \* [Call -> Stage]
    made,       \* [Call -> Comment \cup {0}]: the comment that it created
    answer      \* [Call -> Answer]

threadVars == <<call, comments, notices, stage, made, answer>>

Stages  == {"start", "insert", "reread", "tell", "delete", "done"}
Answers == {"none", "posted", "deleted", "not_found", "too_deep", "forbidden"}

ThreadInit(h) ==
    /\ call = h.call /\ comments = h.comments
    /\ notices = {}
    /\ stage = [k \in Call |-> IF k \in h.calls THEN "start" ELSE "done"]
    /\ made = [k \in Call |-> 0]
    /\ answer = [k \in Call |-> "none"]

-----------------------------------------------------------------------------
(* GetComment finds a comment that is not deleted.                         *)
(* Mutant: a soft-deleted comment is found like any other.                 *)
Exists(c) == comments[c] # NoComment
Live(c) == comments[c] # NoComment /\ ~comments[c].deleted

Reply(k, a) ==
    /\ stage' = [stage EXCEPT ![k] = "done"]
    /\ answer' = [answer EXCEPT ![k] = a]
Continue(k, s) ==
    /\ stage' = [stage EXCEPT ![k] = s]
    /\ UNCHANGED answer

(* CreateComment checks the comment that is answered: it is there, on the  *)
(* same chapter, and not a reply itself (MaxReplyDepth).                   *)
Answerable(k) ==
    LET c == call[k].parent
    IN  IF ~Live(c) \/ comments[c].chapter # call[k].chapter THEN "not_found"
        ELSE IF comments[c].parent # 0 THEN "too_deep"
        ELSE "none"
ReadParent(k) ==
    /\ stage[k] = "start" /\ call[k].kind = "post"
    /\ IF call[k].parent = 0 \/ Answerable(k) = "none"
       THEN Continue(k, "insert")
       ELSE Reply(k, Answerable(k))
    /\ UNCHANGED <<call, comments, notices, made>>

(* The INSERT: the next id; the badge is the chapter's translator's.       *)
NextId(c) == comments[c] = NoComment /\ \A d \in Comment : d < c => comments[d] # NoComment
InsertComment(k) ==
    /\ stage[k] = "insert"
    /\ \E c \in Comment :
         /\ NextId(c)
         /\ comments' = [comments EXCEPT ![c] =
              [chapter |-> call[k].chapter, user |-> call[k].user,
               parent |-> call[k].parent, deleted |-> FALSE,
               badge |-> TranslatorOf[call[k].chapter] = call[k].user]]
         /\ made' = [made EXCEPT ![k] = c]
    /\ Continue(k, "reread")
    /\ UNCHANGED <<call, notices>>

(* The new comment is read again, and may have been deleted already.       *)
Reread(k) ==
    /\ stage[k] = "reread"
    /\ IF ~Live(made[k])          THEN Reply(k, "not_found")
       ELSE IF call[k].parent = 0 THEN Reply(k, "posted")
       ELSE Continue(k, "tell")
    /\ UNCHANGED <<call, comments, notices, made>>

(* The author of the comment that is answered hears of the reply, unless   *)
(* it is deleted now or the reply is by its author.                        *)
(* Mutant: authors hear of their own replies.                              *)
HearsAnyway(k) ==
    LET c == call[k].parent
    IN  IF Live(c) THEN {<<comments[c].user, made[k]>>} ELSE {}
Hears(k) ==
    LET c == call[k].parent
    IN  IF Live(c) /\ comments[c].user # call[k].user
        THEN {<<comments[c].user, made[k]>>} ELSE {}
Tell(k) ==
    /\ stage[k] = "tell"
    /\ notices' = notices \cup Hears(k)
    /\ Reply(k, "posted")
    /\ UNCHANGED <<call, comments, made>>

(* DeleteComment reads the comment and decides (CanDelete) ...             *)
CanDelete(c, u) ==
    \/ comments[c].user = u
    \/ u \in Admin
    \/ TranslatorOf[comments[c].chapter] = u
ReadForDelete(k) ==
    /\ stage[k] = "start" /\ call[k].kind = "drop"
    /\ LET c == call[k].comment
       IN  IF ~Live(c)                         THEN Reply(k, "not_found")
           ELSE IF ~CanDelete(c, call[k].user) THEN Reply(k, "forbidden")
           ELSE Continue(k, "delete")
    /\ UNCHANGED <<call, comments, notices, made>>

(* ... then one UPDATE deletes it if nobody has, once no like holds it.    *)
SoftDelete(k) ==
    /\ stage[k] = "delete"
    /\ LET c == call[k].comment
       IN  /\ \A q \in Request : c \notin locked[q]
           /\ IF Live(c)
              THEN /\ comments' = [comments EXCEPT ![c].deleted = TRUE]
                   /\ Reply(k, "deleted")
              ELSE UNCHANGED comments /\ Reply(k, "not_found")
    /\ UNCHANGED <<call, notices, made>>

(* A call dies between two statements, or its notification fails, which is *)
(* not reported.                                                           *)
CallFails(k) ==
    /\ stage[k] \notin {"start", "done"} /\ faults < MaxFaults
    /\ faults' = faults + 1
    /\ Reply(k, IF stage[k] = "tell" THEN "posted" ELSE "none")
    /\ UNCHANGED <<call, comments, notices, made>>

ServeCall(k) ==
    \/ ReadParent(k) \/ InsertComment(k) \/ Reread(k) \/ Tell(k)
    \/ ReadForDelete(k) \/ SoftDelete(k)

CommunityInit == \E h \in Histories : CountersInit(h) /\ ThreadInit(h)
CommunityNext ==
    \/ Next /\ UNCHANGED threadVars
    \/ \E k \in Call :
         \/ ServeCall(k) /\ UNCHANGED vars
         \/ CallFails(k) /\ UNCHANGED <<ask, rows, orders, step, todo, touched,
                                        locked, agg, lone>>
CommunitySpec ==
    /\ CommunityInit /\ [][CommunityNext]_<<vars, threadVars>>
    /\ \A q \in Request : WF_vars(Serve(q) /\ UNCHANGED threadVars)

-----------------------------------------------------------------------------
(* A comment is deleted by one call only, though several may be entitled   *)
(* to, and whoever hears "deleted" was (SoftDeleteComment, CanDelete).     *)
DeletedOnce ==
    \A j, k \in Call :
        answer[k] = "deleted" =>
          /\ comments[call[k].comment].deleted
          /\ call[k].user \in Admin \cup {comments[call[k].comment].user,
                                TranslatorOf[comments[call[k].comment].chapter]}
          /\ answer[j] = "deleted" /\ call[j].comment = call[k].comment => j = k

(* The author of a comment, and nobody else, hears of every reply that was *)
(* posted to it by somebody else and of none by the author, unless the     *)
(* comment is deleted or a call failed (NotifyReply).                      *)
RepliesTold ==
    /\ \A x \in notices : /\ x[1] = comments[comments[x[2]].parent].user
                          /\ x[1] # comments[x[2]].user
    /\ faults = 0 =>
         \A k \in Call :
           LET p == comments[call[k].parent]
           IN  answer[k] = "posted" /\ call[k].parent # 0 =>
                 \/ p.deleted \/ p.user = call[k].user
                 \/ <<p.user, made[k]>> \in notices

(* What a reader is answered or notified of is what happened: a deletion   *)
(* is one caller's, a reply reaches its author (CreateComment,             *)
(* DeleteComment).                                                         *)
AnswersTruthful == DeletedOnce /\ RepliesTold
=============================================================================
