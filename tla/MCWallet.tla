------------------------------- MODULE MCWallet -------------------------------
(***************************************************************************)
(* Instances of Wallet for TLC.  Chapter 1 is translated by "mei", who is  *)
(* a reader too; chapter 2 has no translator.  Both belong to arc 1 and    *)
(* chapter 2 alone to arc 2; or each arc has the chapter of its number.    *)
(***************************************************************************)
EXTENDS Wallet, TLC

CONSTANTS mei, nok, nobody, small, k1, k2, s1, s2

MCArcOf        == [a \in Arc |-> IF a = 1 THEN Chapter ELSE Chapter \cap {2}]
MCOneEach      == [a \in Arc |-> {a}]
MCTranslatorOf == [c \in Chapter |-> IF c = 1 THEN mei ELSE nobody]
MCPackCoins    == [p \in Pack |-> [coins |-> 3, bonus |-> 2]]
MCAdjustment   == {[coins |-> -2, bonus |-> 0], [coins |-> 0, bonus |-> 1]}

(* Readers that start with nothing, or with enough for every chapter.      *)
Broke == [u \in User |-> [coins |-> 0, bonus |-> 0]]
Rich  == [u \in User |-> [coins |-> 16, bonus |-> 4]]

(* Which slot serves a request makes no difference.                        *)
MCSymmetry == Permutations(Slot)
=============================================================================
