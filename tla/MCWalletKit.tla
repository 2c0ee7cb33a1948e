---------------------------- MODULE MCWalletKit ----------------------------
(* An instance of WalletKit small enough for TLC: rules of one passkey, of *)
(* two with and without policies, and with a friend's account beside them. *)
EXTENDS WalletKit

CONSTANTS k1, k2, a1, a2

Rule(external, delegated, policies) ==
  [external |-> external, delegated |-> delegated, policies |-> policies]

MCForms ==
  { Rule({k1, k2}, 0, {}), Rule({k1}, 1, {}), Rule({k1, k2}, 0, {0}), Rule({k1, k2}, 0, {2}) }
=============================================================================
