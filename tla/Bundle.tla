------------------------------- MODULE Bundle -------------------------------
(***************************************************************************)
(* Pricing of an arc bundle: domain/wallet/bundle.go.                      *)
(*                                                                         *)
(* The chapters offered together are the domain of a function "prices"     *)
(* from chapter numbers to list prices; the code's slice order is the      *)
(* order of the chapter numbers.                                           *)
(***************************************************************************)
EXTENDS Integers, Functions, FiniteSets

Clamp(percent) == IF percent < 0 THEN 0 ELSE IF percent > 100 THEN 100 ELSE percent

Floor(weights, total) ==
    [i \in DOMAIN weights |-> (weights[i] * total) \div SumFunction(weights)]

Remainder(weights, total) ==
    [i \in DOMAIN weights |-> (weights[i] * total) % SumFunction(weights)]

(* The chapters whose rounded-down share is below their list price: only   *)
(* they may be rounded up.                                                 *)
Roundable(weights, total) ==
    {i \in DOMAIN weights : Floor(weights, total)[i] < weights[i]}

(* Those of them that are rounded up before chapter i: a larger remainder, *)
(* or the same remainder and an earlier place.                             *)
Before(weights, total, i) ==
    LET rem == Remainder(weights, total)
    IN  {j \in Roundable(weights, total) :
            rem[j] > rem[i] \/ (rem[j] = rem[i] /\ j < i)}

(* The coins that rounding down leaves over go to one chapter each.        *)
RoundedUp(weights, total) ==
    LET left == total - SumFunction(Floor(weights, total))
    IN  {i \in Roundable(weights, total) : Cardinality(Before(weights, total, i)) < left}

(* Mutant: the leftover coins all go to the first chapter.           *)
AllocateLeftoverToFirst(weights, total) ==
    LET first == CHOOSE i \in DOMAIN weights : \A j \in DOMAIN weights : i <= j
        left  == total - SumFunction(Floor(weights, total))
    IN  IF total <= 0 \/ SumFunction(weights) <= 0 THEN [i \in DOMAIN weights |-> 0]
        ELSE [Floor(weights, total) EXCEPT ![first] = @ + left]

(* Largest-remainder split of "total" in proportion to "weights".          *)
AllocateProportional(weights, total) ==
    IF total <= 0 \/ SumFunction(weights) <= 0 THEN [i \in DOMAIN weights |-> 0]
    ELSE [i \in DOMAIN weights |->
            Floor(weights, total)[i] + IF i \in RoundedUp(weights, total) THEN 1 ELSE 0]

(* A quote, or the reason there is none.                                   *)
QuoteBundle(prices, discountPercent) ==
    LET gross    == SumFunction(prices)
        discount == (gross * Clamp(discountPercent)) \div 100
    IN  IF DOMAIN prices = {} THEN [err |-> "arc_already_owned"]
        ELSE IF \E c \in DOMAIN prices : prices[c] < 0 THEN [err |-> "invalid_amount"]
        ELSE IF gross <= 0 THEN [err |-> "arc_not_for_sale"]
        ELSE [err |-> "none", total |-> gross - discount,
              perChapter |-> AllocateProportional(prices, gross - discount)]
=============================================================================
