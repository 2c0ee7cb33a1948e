---------------------------- MODULE MCZkRecovery ----------------------------
(* Instances of ZkRecovery small enough for TLC.                           *)
EXTENDS ZkRecovery, TLC

CONSTANTS
  UnprovedKey,  \* a key no holder of a secret ever proved for
  Default,      \* the Default context type
  Provers,      \* the accounts for which proofs are submitted
  MaxNonce,     \* proofs exist for the nonces 1..MaxNonce
  RootsProved   \* and for these roots

(* Honest statements of every action, nonce, root and credential, for the keys
   somebody wants installed; and the same with a foreign account, which the
   circuit refuses whoever submits them. *)
MCProofs ==
  { [action |-> ACTION_INITIATE, account |-> a, new_pubkey |-> k, nonce |-> i,
     timelock_secs |-> t, root |-> r, nullifier |-> n] :
      a \in Provers, k \in PubKeys \ {UnprovedKey}, i \in 1..MaxNonce,
      t \in Timelocks, r \in RootsProved, n \in Nullifiers }
  \cup
  { [action |-> x, account |-> a, new_pubkey |-> ZeroKey, nonce |-> i,
     timelock_secs |-> 0, root |-> r, nullifier |-> n] :
      x \in {ACTION_CANCEL, ACTION_REVOKE}, a \in Provers, i \in 1..MaxNonce,
      r \in RootsProved, n \in Nullifiers }

(* The rules an account may install the policy under, forged ones included. *)
MCContextRules ==
  [id: RuleIds, context_type: Provers \cup {Default}, signers: {{}, {UnprovedKey}}]

(* The calls a rule may be asked to authorise. *)
MCCalls ==
  [contract: Provers, fn_name: {"add_context_rule", "remove_signer"},
   signers: {{k} : k \in PubKeys} \cup {PubKeys}, policies: {{}, {"other policy"}}]

Symmetry == Permutations(Secrets)
=============================================================================
