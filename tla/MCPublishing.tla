---------------------------- MODULE MCPublishing ----------------------------
(* Instances of Publishing for TLC.                                        *)
EXTENDS Publishing, TLC

MCSymmetry == Permutations(Slot)

=============================================================================
