----------------------------- MODULE MCAutoUnlock -----------------------------
(* Instances of AutoUnlock for TLC: reader 1 is short of coins, reader 2   *)
(* can pay for every chapter.                                              *)
EXTENDS AutoUnlock, TLC

CONSTANTS r1, r2

MCOpening  == [u \in Reader |-> IF u = 1 THEN 1 ELSE 6]
MCSymmetry == Permutations(Replica)
=============================================================================
