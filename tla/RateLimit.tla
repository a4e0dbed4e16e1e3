-------------------------------- MODULE RateLimit --------------------------------
(***************************************************************************)
(* The limits that one API process keeps in memory (ratelimit/limiter.go   *)
(* and middleware/ratelimit.go): how often a caller may try to sign in,    *)
(* and how many different chapter bodies it may open within a window.      *)
(*                                                                         *)
(* A request reads the clock and only then waits for the limiter's mutex,  *)
(* so the limiter may meet an earlier time after a later one.  It is held  *)
(* up by at most Lag ticks.  A token is counted as Per units of credit, of *)
(* which Rate come back every tick, in place of the code's fractions.      *)
(*                                                                         *)
(* Lag is at most half of Per.  A request with an earlier time takes       *)
(* credit back, so a bucket may need Per + Lag ticks to refill; a sweep    *)
(* drops what is idle for 2 * Per by its own time, and the next request    *)
(* may be Lag earlier than the sweep.  Past the half, a bucket could be    *)
(* dropped, and begun anew, before it has refilled.                        *)
(***************************************************************************)
EXTENDS Integers, FiniteSets, FiniteSetsExt

CONSTANTS
    Caller,         \* keys: an address, or a signed-in reader
    Body,           \* chapters
    Worker,         \* requests being served at a time
    Rate, Per,      \* attempts in so many ticks, also the burst
    Limit, Window,  \* different bodies in so many ticks
    SweepAt,        \* keys kept before idle ones are dropped (1024)
    Lag,            \* ticks between the clock's reading and the mutex
    MaxNow, MaxAsks                                 \* bounds for TLC

ASSUME RateAssumption ==
    /\ Rate \in Nat \ {0} /\ Per \in Nat \ {0} /\ Limit \in Nat \ {0}
    /\ Window \in Nat \ {0} /\ SweepAt \in Nat \ {0}
    /\ Lag \in Nat /\ 2 * Lag <= Per
    /\ MaxNow \in Nat /\ MaxAsks \in Nat

VARIABLES
    now,
    asks,       \* requests so far
    asked,      \* [Worker -> {} or the request that is at the limiter]
    buckets,    \* [Caller -> {} or {[credit, at]}]
    seen,       \* [Caller -> a set of [body, at], one at most for a body]
    tries,      \* [Caller -> [0..MaxNow -> attempts of that time let through]]
    opened      \* the [who, body, at] that were let through

limitVars == <<now, asks, asked, buckets, seen, tries, opened>>

LimitInit ==
    /\ now = 0 /\ asks = 0 /\ asked = [w \in Worker |-> {}]
    /\ buckets = [c \in Caller |-> {}] /\ seen = [c \in Caller |-> {}]
    /\ tries = [c \in Caller |-> [t \in 0..MaxNow |-> 0]] /\ opened = {}

-----------------------------------------------------------------------------
(* A request comes in, and reads the clock.                                *)
Attempt(w, c) ==
    /\ asked[w] = {} /\ asks < MaxAsks /\ asks' = asks + 1
    /\ asked' = [asked EXCEPT ![w] = {[who |-> c, body |-> 0, at |-> now]}]
    /\ UNCHANGED <<now, buckets, seen, tries, opened>>

OpenBody(w, c, b) ==
    /\ asked[w] = {} /\ asks < MaxAsks /\ asks' = asks + 1
    /\ asked' = [asked EXCEPT ![w] = {[who |-> c, body |-> b, at |-> now]}]
    /\ UNCHANGED <<now, buckets, seen, tries, opened>>

(* Sign-in attempts.  Buckets that have long refilled are dropped.         *)
(* Mutant: before they have refilled.                                      *)
NotNow(b, t) == t # b.at
Unused(b, t) == t - b.at > 2 * Per
SweptBuckets(t) ==
    IF Cardinality({c \in Caller : buckets[c] # {}}) < SweepAt THEN buckets
    ELSE [c \in Caller |-> {b \in buckets[c] : ~Unused(b, t)}]

Refilled(bs, t) ==
    IF bs = {} THEN Rate * Per
    ELSE LET b == CHOOSE b \in bs : TRUE
         IN  Min({Rate * Per, b.credit + Rate * (t - b.at)})

Allow(w) ==
    \E r \in asked[w] :
        LET kept   == SweptBuckets(r.at)
            credit == Refilled(kept[r.who], r.at)
            cost   == IF credit < Per THEN 0 ELSE Per
        IN  /\ r.body = 0
            /\ buckets' = [kept EXCEPT ![r.who] = {[credit |-> credit - cost, at |-> r.at]}]
            /\ tries' = [tries EXCEPT ![r.who][r.at] = @ + (IF cost = 0 THEN 0 ELSE 1)]
            /\ asked' = [asked EXCEPT ![w] = {}]
            /\ UNCHANGED <<now, asks, seen, opened>>

-----------------------------------------------------------------------------
(* Bodies.  What left the window is forgotten, what is in it may be opened *)
(* again, and then stays in it for longer.                                 *)
Recent(vs, t) == {v \in vs : v.at >= t - Window}

SweptSeen(s, t) ==
    IF Cardinality({c \in Caller : s[c] # {}}) < SweepAt THEN s
    ELSE [c \in Caller |-> Recent(s[c], t)]

Observe(w) ==
    \E r \in asked[w] :
        LET kept   == Recent(seen[r.who], r.at)
            others == {v \in kept : v.body # r.body}
            told   == [seen EXCEPT ![r.who] = others \cup {[body |-> r.body, at |-> r.at]}]
        IN  /\ r.body # 0
            /\ \/ others # kept /\ seen' = told /\ opened' = opened \cup {r}
               \/ /\ others = kept /\ Cardinality(kept) < Limit
                  /\ seen' = SweptSeen(told, r.at) /\ opened' = opened \cup {r}
               \/ /\ others = kept /\ Cardinality(kept) >= Limit
                  /\ seen' = [seen EXCEPT ![r.who] = kept] /\ UNCHANGED opened
            /\ asked' = [asked EXCEPT ![w] = {}]
            /\ UNCHANGED <<now, asks, buckets, tries>>

(* No request is held up for more than Lag.                                *)
Pass ==
    /\ now < MaxNow /\ now' = now + 1
    /\ \A w \in Worker : \A r \in asked[w] : now' - r.at <= Lag
    /\ UNCHANGED <<asks, asked, buckets, seen, tries, opened>>

(* The limiters share nothing but the clock.                               *)
SignInNext ==
    \/ \E w \in Worker : (\E c \in Caller : Attempt(w, c)) \/ Allow(w)
    \/ Pass
BodyNext ==
    \/ \E w \in Worker : (\E c \in Caller, b \in Body : OpenBody(w, c, b)) \/ Observe(w)
    \/ Pass
LimitNext == SignInNext \/ BodyNext

LimitSpec == LimitInit /\ [][LimitNext]_limitVars

-----------------------------------------------------------------------------
(* In any stretch of time a caller gets through at most the burst and what *)
(* came back meanwhile: neither the order in which requests reach the      *)
(* mutex nor a bucket dropped too early hands out a token twice.  And the  *)
(* different bodies a caller opens within a window are never more than the *)
(* limit, if the window is shortened by what requests may be held up: the  *)
(* one that is forgotten, and the one that then finds room.                *)
LetThrough(c, s, t) == SumFunctionOnSet(tries[c], s..t)
LimitsHold ==
    \A c \in Caller : \A t \in 0..MaxNow :
        /\ \A s \in 0..t : Per * LetThrough(c, s, t) <= Rate * Per + Rate * (t - s)
        /\ Cardinality({o.body : o \in {o \in opened : /\ o.who = c /\ o.at <= t
                                                    /\ o.at >= t - Window + 2 * Lag}}) <= Limit
=============================================================================
