--------------------------------- MODULE Orders ---------------------------------
(***************************************************************************)
(* What a query's ORDER BY and a loop over a slice do with an order.  Both *)
(* are stated without an operator as argument, which the provers do not    *)
(* take: an order of S is the function that gives, for each element, the   *)
(* set of the elements ahead of it.                                        *)
(***************************************************************************)
EXTENDS Integers, Sequences, FiniteSets

(* The elements of S, each at the place that those ahead of it leave.      *)
Ranked(S, ahead) ==
    [n \in 1 .. Cardinality(S) |-> CHOOSE x \in S : Cardinality(ahead[x]) = n - 1]

(* The entries of s that are in S, in the order of s.                      *)
Filtered(s, S) ==
    LET kept == {i \in DOMAIN s : s[i] \in S}
        at   == Ranked(kept, [i \in kept |-> {j \in kept : j < i}])
    IN  [n \in DOMAIN at |-> s[at[n]]]
=============================================================================
