------------------------------ MODULE MCPayouts ------------------------------
(* Instances of Payouts: a request per translator, or two of the same.     *)
EXTENDS Payouts

Amounts  == {-1, 0, 1, 3}
OneEach  == [r \in Request |-> r]
AllOfOne == [r \in Request |-> CHOOSE w \in Writer : TRUE]
=============================================================================
