---------------------------- MODULE MCRuleScan ----------------------------
(* An instance of RuleScan small enough for TLC: the owner's passkey, bare *)
(* and limited session keys on two verifiers' contracts, and friends.      *)
EXTENDS RuleScan

CONSTANTS k1, k2, c1, policy_limit, policy_old_limit, policy_multisig, v1, friend1, friend2

MCForms ==
  { [context |-> "default", signers |-> {<<"External", v1, k1>>}, policies |-> <<>>],
    [context |-> c1, signers |-> {<<"External", v1, k2>>}, policies |-> <<>>],
    [context |-> c1, signers |-> {<<"External", v1, k2>>}, policies |-> <<policy_old_limit>>],
    [context |-> c1, signers |-> {<<"Delegated", friend1>>, <<"Delegated", friend2>>},
     policies |-> <<policy_multisig>>],
    [context |-> "default", signers |-> {<<"External", v1, k1>>, <<"External", v1, k2>>},
     policies |-> <<>>] }
=============================================================================
