-------------------------- MODULE MCRecoverySystem --------------------------
(* Instances of RecoverySystem small enough for TLC.                       *)
EXTENDS RecoverySystem, TLC

CONSTANTS MaxNonce  \* proofs exist for the nonces 1..MaxNonce

(* One key is worth recovering to; every credential, nonce and root is proved. *)
MCProofs ==
  { [action |-> ACTION_INITIATE, account |-> Self, new_pubkey |-> k, nonce |-> i,
     timelock_secs |-> delay_secs, root |-> r, nullifier |-> n] :
      k \in PubKeys, i \in 1..MaxNonce, r \in 1..MAX_LEAVES, n \in Nullifiers }
  \cup
  { [action |-> x, account |-> Self, new_pubkey |-> ZeroKey, nonce |-> i,
     timelock_secs |-> 0, root |-> r, nullifier |-> n] :
      x \in {ACTION_CANCEL, ACTION_REVOKE}, i \in 1..MaxNonce,
      r \in 1..MAX_LEAVES, n \in Nullifiers }

Symmetry == Permutations(PubKeys)

MCRuleIds == 0..MaxRules

(* Forged rules of the right shape, for any rule id. *)
MCContextRules == [id: MCRuleIds, context_type: {Self}, signers: {{}}]

MCCalls ==
  [contract: {Self}, fn_name: {"add_context_rule"}, signers: {{k} : k \in PubKeys},
   policies: {{}}]
=============================================================================
