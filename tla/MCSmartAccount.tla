--------------------------- MODULE MCSmartAccount ---------------------------
(* Instances of SmartAccount small enough for TLC.                         *)
EXTENDS SmartAccount, TLC

Symmetry == Permutations(Keys) \cup Permutations(Policies)
=============================================================================
