------------------------------- MODULE MCBundle -------------------------------
(***************************************************************************)
(* Bundle over every price list of a few chapters: a state is a price      *)
(* list, a step reprices a chapter or adds or drops one.                   *)
(***************************************************************************)
EXTENDS Bundle, FiniteSets

CONSTANTS Sold, MaxPrice, DiscountPercent

ASSUME BundleAssumption == /\ Sold \subseteq Nat \ {0}
                           /\ MaxPrice \in Nat \ {0}
                           /\ DiscountPercent \in 0 .. 100

VARIABLE prices       \* list prices of the chapters bought together

PriceLists == UNION {[C -> 1 .. MaxPrice] : C \in SUBSET Sold}

PricesInit == prices = [c \in {} |-> 0]

SetPrice(c, p) ==
    prices' = [x \in DOMAIN prices \cup {c} |-> IF x = c THEN p ELSE prices[x]]

Drop(c) ==
    /\ c \in DOMAIN prices
    /\ prices' = [x \in DOMAIN prices \ {c} |-> prices[x]]

PricesNext == \E c \in Sold : \/ \E p \in 1 .. MaxPrice : SetPrice(c, p)
                           \/ Drop(c)

PricesSpec == PricesInit /\ [][PricesNext]_prices

-----------------------------------------------------------------------------

quote  == QuoteBundle(prices, DiscountPercent)
gross  == SumFunction(prices)
Quoted == DOMAIN prices # {}

(* The chapters' shares add up to exactly what the reader is debited, and  *)
(* the reader never gets more than the advertised discount (the discount   *)
(* rounds down), nor a whole coin less.                                    *)
SharesAddUp ==
    Quoted => /\ SumFunction(quote.perChapter) = quote.total
              /\ 100 * quote.total >= gross * (100 - DiscountPercent)
              /\ 100 * (quote.total - 1) < gross * (100 - DiscountPercent)

(* Every share is the chapter's exact proportional share rounded down or   *)
(* up, and never above its list price: no translator is favoured by more   *)
(* than one coin.                                                          *)
SharesProportional ==
    Quoted => \A c \in DOMAIN prices :
        LET share == quote.perChapter[c]
        IN  /\ share <= prices[c]
            /\ share * gross > (prices[c] * quote.total) - gross
            /\ share * gross < (prices[c] * quote.total) + gross

(* The split is monotone: a dearer chapter of the bundle never earns less  *)
(* than a cheaper one, whichever of them comes first.                      *)
DearerEarnsNoLess ==
    Quoted => \A c, d \in DOMAIN prices :
        prices[c] > prices[d] => quote.perChapter[c] >= quote.perChapter[d]

(* What the split of a bundle promises to the reader and the translators:  *)
(* exact, proportional to a coin, and monotone.                            *)
FairSplit == SharesAddUp /\ SharesProportional /\ DearerEarnsNoLess
=============================================================================
