--------------------------------- MODULE Shop ---------------------------------
(***************************************************************************)
(* What the coin economy promises its readers, with everything about how   *)
(* it is done left out: an operation is carried out at most once per key   *)
(* and moves the coins of one reader only; a purchase costs coins and      *)
(* always brings chapters that its reader did not have; nothing else       *)
(* brings any, and no chapter is ever taken back.                          *)
(***************************************************************************)
EXTENDS Integers

CONSTANTS Reader, Item,
          Key,          \* operations: a key names one
          BuyKey        \* those that buy something

VARIABLES
    coins,      \* [Reader -> Nat]: paid and bonus coins together
    owned,      \* [Reader -> SUBSET Item]
    done        \* [Reader -> SUBSET Key]: the operations carried out

shopVars == <<coins, owned, done>>

ShopInit ==
    /\ coins \in [Reader -> Nat]
    /\ owned = [r \in Reader |-> {}]
    /\ done \in [Reader -> SUBSET Key]

(* One operation of one reader, under a key not used before.               *)
Once(r, k) ==
    /\ k \in Key \ done[r]
    /\ done' = [done EXCEPT ![r] = @ \cup {k}]
    /\ coins' = [coins EXCEPT ![r] = coins'[r]]
    /\ coins'[r] \in Nat

Buy(r, k) ==
    /\ k \in BuyKey
    /\ Once(r, k)
    /\ coins'[r] < coins[r]
    /\ owned' = [owned EXCEPT ![r] = owned'[r]]
    /\ owned[r] \subseteq owned'[r]
    /\ owned'[r] # owned[r]
    /\ owned'[r] \subseteq Item

Move(r, k) ==
    /\ k \notin BuyKey
    /\ Once(r, k)
    /\ UNCHANGED owned

NewKeys(r) == done'[r] \ done[r]

ShopNext == \E r \in Reader : \E k \in NewKeys(r) : Buy(r, k) \/ Move(r, k)

ShopSpec == ShopInit /\ [][ShopNext]_shopVars
=============================================================================
