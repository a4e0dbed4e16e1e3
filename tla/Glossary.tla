--------------------------------- MODULE Glossary ---------------------------------
(***************************************************************************)
(* The glossary's groups and terms (service/writer and repository/writer,  *)
(* glossary.go; migrations/0001_init.sql).  Each write is one statement; a *)
(* request looks up what it is about, and a deletion of a group counts its *)
(* terms, in statements of their own before.                               *)
(*                                                                         *)
(* A row trigger raises the novel's glossary_rev with every term that is   *)
(* written or deleted, by way of the term's group; module Publishing shows *)
(* what the revision is for.  When a group is deleted the database deletes *)
(* the terms in it, and their trigger does not find the group any more.    *)
(***************************************************************************)
EXTENDS Integers, FiniteSets

CONSTANTS
    Group, Term,    \* ids that will be handed out; one novel
    TermKey,        \* names of terms, unique within a group
    Desk,           \* requests that are served side by side
    MaxEntries      \* bound: requests that begin

ASSUME GlossaryAssumption ==
    /\ IsFiniteSet(Group) /\ IsFiniteSet(Term) /\ IsFiniteSet(Desk) /\ MaxEntries \in Nat
    /\ 0 \notin Group                  \* the group of no term

VARIABLES
    groups,     \* SUBSET Group: the groups that exist
    terms,      \* [Term -> [group, key, title] or NoTerm]
    spent,      \* ids of groups and terms that have been handed out
    rev,        \* novels.glossary_rev
    desk,       \* [Desk -> the request that is served, or Vacant]
    since,      \* [Desk -> the terms created since it counted its group's]
    entries

glossaryVars == <<groups, terms, spent, rev, desk, since, entries>>

NoTerm == [group |-> 0]
Vacant == [step |-> "vacant"]

GlossaryInit ==
    /\ groups = {} /\ terms = [t \in Term |-> NoTerm] /\ spent = {} /\ rev = 0
    /\ desk = [d \in Desk |-> Vacant] /\ since = [d \in Desk |-> {}]
    /\ entries = 0

-----------------------------------------------------------------------------
Asked(d, request) ==
    /\ desk[d] = Vacant /\ entries < MaxEntries /\ entries' = entries + 1
    /\ desk' = [desk EXCEPT ![d] = request]
Answered(d) == desk' = [desk EXCEPT ![d] = Vacant]

In(g)      == {t \in Term : terms[t].group = g}
KeyTaken(g, k, t) == \E u \in In(g) \ {t} : terms[u].key = k

(* The trigger: once for each of the terms ts, if their group is there.    *)
Bumped(ts, gs) == rev + Cardinality({t \in ts : terms'[t].group \in gs
                                                \/ terms[t].group \in gs})

CreateGlossaryGroup(g) ==
    /\ g \notin spent /\ entries < MaxEntries /\ entries' = entries + 1
    /\ groups' = groups \cup {g} /\ spent' = spent \cup {g}
    /\ UNCHANGED <<terms, rev, desk, since>>

(* A group that has gone, or a key that is taken, fails the request.       *)
CreateGlossaryEntry(t, g, k) ==
    /\ t \notin spent /\ g \in groups /\ ~KeyTaken(g, k, t)
    /\ entries < MaxEntries /\ entries' = entries + 1
    /\ terms' = [terms EXCEPT ![t] = [group |-> g, key |-> k, title |-> 0]]
    /\ spent' = spent \cup {t}
    /\ rev' = Bumped({t}, groups)
    /\ since' = [d \in Desk |-> IF desk[d].step = "drop" THEN since[d] \cup {t} ELSE since[d]]
    /\ UNCHANGED <<groups, desk>>

(* UpdateGlossaryEntry and DeleteGlossaryEntry look the term up first; it  *)
(* may have gone when they write.                                          *)
FindEntry(d, t, step, k) ==
    /\ terms[t] # NoTerm
    /\ Asked(d, [step |-> step, term |-> t, key |-> k])
    /\ UNCHANGED <<groups, terms, spent, rev, since>>
UpdateGlossaryEntry(d) ==
    /\ desk[d].step = "update"
    /\ LET t == desk[d].term
       IN  IF terms[t] = NoTerm \/ KeyTaken(terms[t].group, desk[d].key, t)
           THEN UNCHANGED <<terms, rev>>
           ELSE /\ terms' = [terms EXCEPT ![t].key = desk[d].key, ![t].title = @ + 1]
                /\ rev' = Bumped({t}, groups)
    /\ Answered(d) /\ UNCHANGED <<groups, spent, since, entries>>
DeleteGlossaryEntry(d) ==
    /\ desk[d].step = "delete"
    /\ LET t == desk[d].term
       IN  IF terms[t] = NoTerm THEN UNCHANGED <<terms, rev>>
           ELSE terms' = [terms EXCEPT ![t] = NoTerm] /\ rev' = Bumped({t}, groups)
    /\ Answered(d) /\ UNCHANGED <<groups, spent, since, entries>>

(* DeleteGlossaryGroup looks the group up, counts its terms and refuses    *)
(* when there are any (ErrGroupNotEmpty) ...                               *)
FindGroup(d, g) ==
    /\ g \in groups
    /\ Asked(d, [step |-> "count", group |-> g])
    /\ UNCHANGED <<groups, terms, spent, rev, since>>
(* Mutant: a last term does not count.                                     *)
AlmostEmpty(g) == Cardinality(In(g)) < 2
Empty(g) == In(g) = {}
CountGlossaryEntries(d) ==
    /\ desk[d].step = "count"
    /\ IF Empty(desk[d].group)
       THEN desk' = [desk EXCEPT ![d].step = "drop"]
       ELSE Answered(d)
    /\ UNCHANGED <<groups, terms, spent, rev, since, entries>>
(* ... and then deletes the group, and with it the terms that it has now.  *)
DeleteGlossaryGroup(d) ==
    /\ desk[d].step = "drop"
    /\ LET g == desk[d].group
       IN  /\ groups' = groups \ {g}
           /\ terms' = [t \in Term |-> IF terms[t].group = g THEN NoTerm ELSE terms[t]]
           /\ rev' = Bumped(In(g), groups \ {g})
    /\ Answered(d) /\ since' = [since EXCEPT ![d] = {}]
    /\ UNCHANGED <<spent, entries>>

GlossaryNext ==
    \/ \E g \in Group : \/ CreateGlossaryGroup(g)
                        \/ \E t \in Term, k \in TermKey : CreateGlossaryEntry(t, g, k)
    \/ \E d \in Desk :
         \/ \E t \in Term : \/ \E k \in TermKey : FindEntry(d, t, "update", k)
                            \/ FindEntry(d, t, "delete", terms[t].key)
         \/ \E g \in Group : FindGroup(d, g)
         \/ UpdateGlossaryEntry(d) \/ DeleteGlossaryEntry(d)
         \/ CountGlossaryEntries(d) \/ DeleteGlossaryGroup(d)

GlossarySpec == GlossaryInit /\ [][GlossaryNext]_glossaryVars

-----------------------------------------------------------------------------
(* Whenever a term comes, changes or goes, the novel's revision rises and  *)
(* the bodies that name it are rendered again, with one exception: a term  *)
(* that was created after its group was found to be empty goes with the    *)
(* group, unnoticed (the trigger, DeleteGlossaryGroup).                    *)
TermsNoticed ==
    [][\A t \in Term :
         terms'[t] # terms[t] =>
           \/ rev' > rev
           \/ \E d \in Desk : /\ desk[d].step = "drop" /\ desk'[d] = Vacant
                              /\ terms[t].group = desk[d].group /\ t \in since[d]]_glossaryVars

=============================================================================
