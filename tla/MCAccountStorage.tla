-------------------------- MODULE MCAccountStorage --------------------------
(* Model values and symmetry for the instances of AccountStorage. *)
EXTENDS AccountStorage, TLC

CONSTANTS apex, s1, s2, c1, c2, n1, none
=============================================================================
