------------------------- MODULE MCZkRecoveryClient -------------------------
(* Instances of ZkRecoveryClient small enough for TLC.                     *)
EXTENDS ZkRecoveryClient

CONSTANTS a1, a2, s1, s2, k1, k2, d1, d2, w1, w2, w3, MaxNonce

MCKeyOf == [d \in Devices |-> IF d = d1 THEN k1 ELSE k2]

(* w1 always signs alike, w2 never does, and w3 is no SEP-53 wallet. *)
MCSignings == [w \in Sources |-> CASE w = w1 -> {<<s1, s1>>}
                                   [] w = w2 -> {<<s1, s2>>, <<s2, s1>>}
                                   [] w = w3 -> {<<s2, s2>>}]

MCRule == [id |-> 1, context_type |-> a1, signers |-> {}]
MCContextRules == {MCRule}

MCCalls == {completion_of(k) : k \in PubKeys}

(* Every statement about the account that its secrets can prove. *)
MCProofs ==
  { [action |-> x, account |-> a1, new_pubkey |-> k, nonce |-> i, timelock_secs |-> t,
     root |-> r, nullifier |-> <<a1, s>>] :
      x \in Actions, k \in PubKeys \cup {ZeroKey}, i \in 1..MaxNonce, t \in {0, delay_secs},
      r \in 0..MAX_LEAVES, s \in Secrets }
=============================================================================
