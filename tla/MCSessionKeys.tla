--------------------------- MODULE MCSessionKeys ---------------------------
(* An instance of SessionKeys small enough for TLC.                        *)
EXTENDS SessionKeys
CONSTANTS t1, k1, k2
=============================================================================
