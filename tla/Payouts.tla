------------------------------- MODULE Payouts -------------------------------
(***************************************************************************)
(* Translators withdraw what they earned (service/wallet RequestPayout).   *)
(* A request sums the translator's earnings, then what was requested       *)
(* before, compares, and inserts a payout row: three statements without a  *)
(* transaction or a lock, with other requests and new earnings in between. *)
(* Nothing approves, pays or rejects a payout yet, so every row counts.    *)
(***************************************************************************)
EXTENDS Integers

CONSTANTS
    Writer,
    Request,        \* requests that are served at the same time
    WriterOf,       \* [Request -> Writer]: who sends them
    Earning,        \* net coins of one sale
    Amount,         \* satang that translators ask for
    MaxEarned       \* bound for TLC

ASSUME WriterAssumption == WriterOf \in [Request -> Writer]
ASSUME AmountAssumption == Earning \subseteq Nat /\ Amount \subseteq Int /\ MaxEarned \in Nat

VARIABLES
    earned,         \* [Writer -> Nat]: the sum of writer_earnings
    requested,      \* [Writer -> Nat]: the sum of payouts
    req             \* [Request -> a request in progress or Idle]

payoutVars == <<earned, requested, req>>

Idle   == [step |-> "idle", amount |-> 0, earned |-> 0, requested |-> 0]
InWork == [step: {"idle", "earned", "summed"}, amount: Int, earned: Nat, requested: Nat]

(* SumUnpaidEarnings' answer.                                              *)
Available(r) == IF req[r].earned > req[r].requested
                THEN req[r].earned - req[r].requested ELSE 0

-----------------------------------------------------------------------------

(* Mutant: payouts that were only requested do not count yet.              *)
RequestedIgnoringPending(r) == 0
RequestedNow(r) == requested[WriterOf[r]]

ValidAmount(amount) == amount > 0

SumEarnings(r, amount) ==
    /\ req[r] = Idle
    /\ ValidAmount(amount)
    /\ req' = [req EXCEPT ![r] = [step |-> "earned", amount |-> amount,
                                  earned |-> earned[WriterOf[r]], requested |-> 0]]
    /\ UNCHANGED <<earned, requested>>

SumPayouts(r) ==
    /\ req[r].step = "earned"
    /\ req' = [req EXCEPT ![r] = [step |-> "summed", amount |-> req[r].amount,
                                  earned |-> req[r].earned,
                                  requested |-> RequestedNow(r)]]
    /\ UNCHANGED <<earned, requested>>

CreatePayout(r) ==
    /\ req[r].step = "summed"
    /\ req[r].amount <= Available(r)
    /\ requested' = [requested EXCEPT ![WriterOf[r]] = @ + req[r].amount]
    /\ req' = [req EXCEPT ![r] = Idle]
    /\ UNCHANGED earned

(* ErrInsufficientCoins.                                                   *)
Refuse(r) ==
    /\ req[r].step = "summed"
    /\ req[r].amount > Available(r)
    /\ req' = [req EXCEPT ![r] = Idle]
    /\ UNCHANGED <<earned, requested>>

(* The connection breaks or the process stops.                             *)
Abandon(r) ==
    /\ req[r] # Idle
    /\ req' = [req EXCEPT ![r] = Idle]
    /\ UNCHANGED <<earned, requested>>

(* A sale commits.                                                         *)
Credit(w, e) ==
    /\ earned[w] + e <= MaxEarned
    /\ earned' = [earned EXCEPT ![w] = @ + e]
    /\ UNCHANGED <<requested, req>>

PayoutsInit ==
    /\ earned = [w \in Writer |-> 0]
    /\ requested = [w \in Writer |-> 0]
    /\ req = [r \in Request |-> Idle]

PayoutsNext ==
    \/ \E r \in Request : \/ \E a \in Amount : SumEarnings(r, a)
                          \/ SumPayouts(r) \/ CreatePayout(r) \/ Refuse(r) \/ Abandon(r)
    \/ \E w \in Writer, e \in Earning : Credit(w, e)

PayoutsSpec == PayoutsInit /\ [][PayoutsNext]_payoutVars

-----------------------------------------------------------------------------

(* The sums stay natural numbers: no request gives a translator more to    *)
(* withdraw.                                                               *)
PayoutsTypeOK ==
    /\ earned \in [Writer -> Nat]
    /\ requested \in [Writer -> Nat]
    /\ req \in [Request -> InWork]

(* "Capped at the unpaid balance": a translator never has more in payouts  *)
(* than they earned.                                                       *)
PayoutsCovered == \A w \in Writer : requested[w] <= earned[w]

(* The case in which that is so: no translator sends two requests at once. *)
OneAtATime == \A r, s \in Request : WriterOf[r] = WriterOf[s] => r = s
=============================================================================
