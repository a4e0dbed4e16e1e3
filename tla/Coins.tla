-------------------------------- MODULE Coins --------------------------------
(***************************************************************************)
(* The coin policy of domain/wallet/spend.go: pure planners that turn a    *)
(* balance and an operation into the ledger rows and the balance that the  *)
(* operation must write.                                                   *)
(*                                                                         *)
(* A balance is [paid, bonus, expiresAt].  A plan is either refused with   *)
(* an error or carries the entry's two deltas, the lapsed bonus that has   *)
(* to be written off before the entry (0: no write-off row) and the        *)
(* resulting balance.                                                      *)
(***************************************************************************)
EXTENDS Integers

NoExpiry == -1      \* bonus_expires_at IS NULL
NoError  == "none"

Balances == [paid: Nat, bonus: Nat, expiresAt: Nat \cup {NoExpiry}]

EmptyBalance == [paid |-> 0, bonus |-> 0, expiresAt |-> NoExpiry]

Refused(e) == [err |-> e]

Planned(lapsed, delta, bonusDelta, result) ==
    [err |-> NoError, lapsed |-> lapsed, delta |-> delta,
     bonusDelta |-> bonusDelta, result |-> result]

Bal(paid, bonus, expiresAt) ==
    [paid |-> paid, bonus |-> bonus, expiresAt |-> expiresAt]

Expired(b, now) == b.expiresAt # NoExpiry /\ b.expiresAt <= now

(* The bonus still spendable at "now", and the part to be written off.     *)
Surviving(b, now) == IF Expired(b, now) THEN 0 ELSE b.bonus
Lapsed(b, now)    == IF Expired(b, now) THEN b.bonus ELSE 0

(* A deadline is kept only while there is a bonus for it to apply to.      *)
DeadlineFor(bonus, deadline) == IF bonus = 0 THEN NoExpiry ELSE deadline

-----------------------------------------------------------------------------

(* An unlock: bonus coins first, then paid coins.                          *)
PlanSpend(b, amount, now) ==
    LET bonus     == Surviving(b, now)
        fromBonus == IF bonus < amount THEN bonus ELSE amount
        fromPaid  == amount - fromBonus
    IN  IF amount <= 0 THEN Refused("invalid_amount")
        ELSE IF bonus + b.paid < amount THEN Refused("insufficient_coins")
        ELSE Planned(Lapsed(b, now), -fromPaid, -fromBonus,
                     Bal(b.paid - fromPaid, bonus - fromBonus,
                         DeadlineFor(bonus - fromBonus, b.expiresAt)))

(* A tip: purchased coins only.                                            *)
PlanSpendPaidOnly(b, amount, now) ==
    IF amount <= 0 THEN Refused("invalid_amount")
    ELSE IF b.paid < amount THEN Refused("insufficient_paid_coins")
    ELSE Planned(Lapsed(b, now), -amount, 0,
                 Bal(b.paid - amount, Surviving(b, now),
                     IF Expired(b, now) THEN NoExpiry ELSE b.expiresAt))

(* A top-up: new bonus coins move the deadline of all bonus coins.         *)
PlanCredit(b, coins, bonusCoins, bonusTTL, now) ==
    LET bonus == Surviving(b, now) + bonusCoins
    IN  IF coins < 0 \/ bonusCoins < 0 \/ coins + bonusCoins <= 0
        THEN Refused("invalid_amount")
        ELSE Planned(Lapsed(b, now), coins, bonusCoins,
                     Bal(b.paid + coins, bonus,
                         DeadlineFor(bonus, IF bonusCoins > 0 /\ bonusTTL > 0
                                            THEN now + bonusTTL
                                            ELSE b.expiresAt)))

(* An administrative correction: no write-off, and never below zero.       *)
PlanAdjust(b, delta, bonusDelta, now) ==
    IF delta = 0 /\ bonusDelta = 0 THEN Refused("invalid_amount")
    ELSE IF b.paid + delta < 0 \/ b.bonus + bonusDelta < 0
         THEN Refused("insufficient_coins")
    ELSE Planned(0, delta, bonusDelta,
                 Bal(b.paid + delta, b.bonus + bonusDelta,
                     DeadlineFor(b.bonus + bonusDelta, b.expiresAt)))

(* The nightly write-off; refused when there is nothing to write off       *)
(* (planFor turns PlanBonusExpiry's false into ErrInvalidAmount).          *)
PlanBonusExpiry(b, now) ==
    IF ~Expired(b, now) \/ b.bonus = 0 THEN Refused("invalid_amount")
    ELSE Planned(0, 0, -b.bonus, Bal(b.paid, 0, NoExpiry))

-----------------------------------------------------------------------------

(* What the translator keeps of a gross amount; the fee rounds down.       *)
NetCoins(gross, feePercent) ==
    IF feePercent <= 0 THEN gross
    ELSE IF feePercent >= 100 THEN 0
    ELSE gross - (gross * feePercent) \div 100
=============================================================================
