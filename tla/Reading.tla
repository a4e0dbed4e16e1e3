-------------------------------- MODULE Reading --------------------------------
(***************************************************************************)
(* A chapter is opened (service/reading, domain/reading): its row, the     *)
(* reader's unlock, the reader's subscription and the body are read one    *)
(* after the other, each as it is at that moment, while the translator     *)
(* publishes, prices and withdraws the chapter and readers buy it,         *)
(* subscribe and cancel.                                                   *)
(*                                                                         *)
(* One chapter of one novel.  How it is published is module Publishing's   *)
(* matter and how it is bought module Wallet's; here these are single      *)
(* steps.                                                                  *)
(***************************************************************************)
EXTENDS Integers, FiniteSets

CONSTANTS
    Visitor,        \* who opens the chapter
    Buyer,          \* those who buy and subscribe
    Anonymous,      \* the visitor who is not signed in
    RolesOf,        \* [Visitor -> SUBSET {"translator", "admin"}]
    Translator,     \* the chapter's translator
    Open,           \* requests that are served side by side
    Price, Lead,    \* prices; hours of early access
    MaxTime, MaxChanges                             \* bounds for TLC

(* Nobody buys or subscribes without signing in.                           *)
ASSUME ReadingAssumption ==
    /\ RolesOf \in [Visitor -> SUBSET {"translator", "admin"}]
    /\ Anonymous \notin Buyer
    /\ Price \subseteq Nat /\ Lead \subseteq Nat
    /\ MaxTime \in Nat /\ MaxChanges \in Nat

VARIABLES
    chapter,    \* [status, price, publicAt]; publicAt is 0 for none
    owners,     \* visitors with a row in chapter_unlocks
    subscribers,\* visitors with an active auto_unlock_subscription
    hour,
    view,       \* [Open -> a request in flight or its answer]
    had,        \* [Open -> facts that held at some moment of the request]
    held,       \* [Open -> facts that have held at every moment of it]
    changes

readingVars == <<chapter, owners, subscribers, hour, view, had, held, changes>>

Facts == {"published", "public", "subscribed", "owned", "free"}
NoRead == [visitor |-> Anonymous, step |-> "idle"]

ReadingInit ==
    /\ chapter \in [status : {"published"}, price : Price, publicAt : {1 + l : l \in Lead}]
                  \cup [status : {"draft"}, price : Price, publicAt : {0}]
    /\ owners \in SUBSET Buyer /\ subscribers \in SUBSET Buyer /\ hour = 1
    /\ view = [o \in Open |-> NoRead]
    /\ had = [o \in Open |-> {}] /\ held = [o \in Open |-> Facts]
    /\ changes = 0

-----------------------------------------------------------------------------
IsAdmin(v)      == "admin" \in RolesOf[v]
IsTranslator(v) == v # Anonymous /\ v = Translator

(* See: what of the chapter may be seen at hour t.                         *)
(* Mutant: in the early-access window an owner must subscribe, too.        *)
SeeSubscribed(ch, v, subscribed, owns, t) ==
    LET privileged == IsTranslator(v) \/ IsAdmin(v)
    IN  IF privileged                             THEN "full"
        ELSE IF ch.status # "published"           THEN "hidden"
        ELSE IF ch.publicAt <= t \/ subscribed    THEN "full"
        ELSE "teaser"
See(ch, v, subscribed, owns, t) ==
    LET privileged == IsTranslator(v) \/ IsAdmin(v)
    IN  IF privileged                             THEN "full"
        ELSE IF ch.status # "published"           THEN "hidden"
        ELSE IF ch.publicAt <= t \/ subscribed \/ owns THEN "full"
        ELSE "teaser"

(* Decide: the body of a chapter that may be seen is withheld.             *)
(* Mutant: signing in is enough for a chapter with a price.                *)
DecideSignedIn(price, v, unlocked) == price > 0 /\ v = Anonymous
Decide(price, v, unlocked) ==
    /\ price > 0
    /\ v = Anonymous \/ ~(unlocked \/ IsTranslator(v) \/ IsAdmin(v))

(* GetChapter: the row; drafts are looked up for translators and admins.   *)
OpenChapter(o, v) ==
    /\ view[o] = NoRead
    /\ view' = [view EXCEPT ![o] =
         IF chapter.status = "published" \/ RolesOf[v] # {}
         THEN [visitor |-> v, step |-> "unlock", row |-> chapter]
         ELSE [visitor |-> v, step |-> "done", answer |-> "not_found"]]

(* The unlock, asked for a price and a signed-in visitor only.             *)
ReadUnlock(o) ==
    /\ view[o].step = "unlock"
    /\ LET x == view[o]
           u == /\ x.row.price > 0 /\ x.visitor # Anonymous
                /\ x.visitor \in owners
       IN  view' = [view EXCEPT ![o] =
             [visitor |-> x.visitor, step |-> "subscription", row |-> x.row,
              unlocked |-> u]]

(* The subscription, asked inside the early-access window only.            *)
ReadSubscription(o) ==
    /\ view[o].step = "subscription"
    /\ LET x == view[o]
           s == /\ x.row.publicAt > hour /\ x.visitor # Anonymous
                /\ x.visitor \in subscribers
       IN  view' = [view EXCEPT ![o] =
             [visitor |-> x.visitor, step |-> "decide", row |-> x.row,
              unlocked |-> x.unlocked, subscribed |-> s]]

(* See, then Decide; the body is read only for those who get it.           *)
Answer(x) ==
    LET seen == See(x.row, x.visitor, x.subscribed, x.unlocked, hour)
    IN  IF seen = "hidden"      THEN "not_found"
        ELSE IF seen = "teaser" THEN "early_access"
        ELSE IF Decide(x.row.price, x.visitor, x.unlocked) THEN "paywall"
        ELSE "body"
DecideView(o) ==
    /\ view[o].step = "decide"
    /\ view' = [view EXCEPT ![o] =
         [visitor |-> view[o].visitor, answer |-> Answer(view[o]),
          step |-> IF Answer(view[o]) = "body" THEN "body" ELSE "done"]]
ReadBody(o) ==
    /\ view[o].step = "body"
    /\ view' = [view EXCEPT ![o].step = "done"]

-----------------------------------------------------------------------------
Publish(lead) ==
    /\ chapter.status = "draft"
    /\ chapter' = [chapter EXCEPT !.status = "published", !.publicAt = hour + lead]
    /\ UNCHANGED <<owners, subscribers>>
Unpublish ==
    /\ chapter.status = "published"
    /\ chapter' = [chapter EXCEPT !.status = "draft", !.publicAt = 0]
    /\ UNCHANGED <<owners, subscribers>>
Reprice(p) ==
    /\ chapter.price # p
    /\ chapter' = [chapter EXCEPT !.price = p]
    /\ UNCHANGED <<owners, subscribers>>
(* A sale; before publicAt the auto-unlock of a subscriber only.           *)
Buy(v) ==
    /\ v \notin owners
    /\ chapter.status = "published" /\ chapter.price > 0
    /\ chapter.publicAt <= hour \/ v \in subscribers
    /\ owners' = owners \cup {v}
    /\ UNCHANGED <<chapter, subscribers>>
Subscribe(v) ==
    /\ v \notin subscribers
    /\ subscribers' = subscribers \cup {v}
    /\ UNCHANGED <<chapter, owners>>
Cancel(v) ==
    /\ v \in subscribers
    /\ subscribers' = subscribers \ {v}
    /\ UNCHANGED <<chapter, owners>>

Change ==
    /\ changes < MaxChanges /\ changes' = changes + 1
    /\ \/ \E lead \in Lead : Publish(lead)
       \/ Unpublish
       \/ \E p \in Price : Reprice(p)
       \/ \E v \in Buyer : Buy(v) \/ Subscribe(v) \/ Cancel(v)
    /\ UNCHANGED <<hour, view>>
Tick ==
    /\ hour < MaxTime /\ hour' = hour + 1
    /\ UNCHANGED <<chapter, owners, subscribers, view, changes>>
ServeView(o) ==
    /\ \/ \E v \in Visitor : OpenChapter(o, v)
       \/ ReadUnlock(o) \/ ReadSubscription(o) \/ DecideView(o) \/ ReadBody(o)
    /\ UNCHANGED <<chapter, owners, subscribers, hour, changes>>

(* History: the facts about visitor v.                                     *)
FactsOf(v, ch, own, subs, t) ==
    {f \in Facts :
        CASE f = "published"  -> ch.status = "published"
          [] f = "public"     -> ch.publicAt <= t
          [] f = "subscribed" -> v \in subs
          [] f = "owned"      -> v \in own
          [] f = "free"       -> ch.price = 0}
Remember ==
    LET during(o) == view'[o].step # "idle" /\ view[o].step # "done"
        after(o)  == FactsOf(view'[o].visitor, chapter', owners', subscribers', hour')
    IN  /\ had'  = [o \in Open |-> IF during(o) THEN had[o] \cup after(o) ELSE had[o]]
        /\ held' = [o \in Open |-> IF during(o) THEN held[o] \cap after(o) ELSE held[o]]

ReadingNext ==
    /\ Change \/ Tick \/ \E o \in Open : ServeView(o)
    /\ Remember

ReadingSpec == ReadingInit /\ [][ReadingNext]_readingVars

-----------------------------------------------------------------------------
Delivered(o) == view[o].step = "done" /\ view[o].answer = "body"
Withheld(o)  == view[o].step = "done" /\ view[o].answer # "body"

(* Those with a claim on the chapter by the facts in fs: what Decide and   *)
(* See write down, apart from the order in which the code asks.            *)
Claim(fs) ==
    /\ "published" \in fs
    /\ fs \cap {"public", "subscribed", "owned"} # {}
    /\ fs \cap {"free", "owned"} # {}

(* A body goes to the chapter's translator, to an admin, or to a visitor   *)
(* whose claim rests on facts that each held while the request was served: *)
(* reading them one by one lends nobody a claim (GetChapter).              *)
BodyOnlyToEntitled ==
    \A o \in Open :
        Delivered(o) => \/ view[o].visitor = Translator
                        \/ "admin" \in RolesOf[view[o].visitor]
                        \/ Claim(had[o])

(* Who had a claim all along gets the body, whatever else changes.  Left   *)
(* out is the owner of a chapter that is free at some moment: the code     *)
(* does not look for the unlock of a free chapter.                         *)
EntitledAreServed ==
    \A o \in Open :
        /\ Claim(held[o])
        /\ "owned" \in held[o] /\ "public" \notin held[o] => "free" \notin had[o]
        => ~Withheld(o)

=============================================================================
