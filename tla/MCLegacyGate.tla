------------------------------ MODULE MCLegacyGate ------------------------------
(* Heads are interchangeable: the code compares them and nothing else.         *)
EXTENDS LegacyGate, TLC

HeadSymmetry == Permutations(Heads)
=============================================================================
