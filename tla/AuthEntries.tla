----------------------------- MODULE AuthEntries -----------------------------
(***************************************************************************)
(* Soroban authorization entries as the passkey SDK builds them (auth.ts,  *)
(* multiSigner.ts) and as the chain checks them.  The page that signs and  *)
(* the chain each derive the digest on their own, the page from the        *)
(* entry of a simulation, the chain from the entry submitted.              *)
(*                                                                         *)
(* A hash is modelled as what is hashed: two are equal when their inputs   *)
(* are.  The network is one.                                               *)
(***************************************************************************)
EXTENDS Integers, Sequences, FiniteSets

Unsigned == [context_rule_ids |-> <<>>, signers |-> {}]

(* An entry of a recording simulation: no expiration and no signature.     *)
recorded(address, nonce, invocation) ==
  [address |-> address, nonce |-> nonce, invocation |-> invocation,
   expiration |-> 0, signature |-> Unsigned]

buildAuthHashAt(entry, expiration) ==
  [nonce |-> entry.nonce, expiration |-> expiration, invocation |-> entry.invocation]

buildAuthHash(entry, ledger, offset) == buildAuthHashAt(entry, ledger + offset)

(* What a signer signs names the rules it is signed for.                   *)
computeAuthDigest(payload, contextRuleIds) == [payload |-> payload, rules |-> contextRuleIds]

(* The signers of a payload: a passkey with its assertion over a digest,   *)
(* an account whose assertion is an entry of its own.                      *)
External(key, digest) == [kind |-> "external", key |-> key, assertion |-> digest]
Delegated(address) == [kind |-> "delegated", key |-> address]

buildAuthPayload(contextRuleIds, signers) ==
  [context_rule_ids |-> contextRuleIds, signers |-> signers]

injectSignedAuthPayload(entry, signers, ledger, offset, contextRuleIds) ==
  [entry EXCEPT !.expiration = ledger + offset,
                !.signature = buildAuthPayload(contextRuleIds, signers)]

-----------------------------------------------------------------------------
(* The chain: __check_auth is given the payload of the entry submitted, and *)
(* asks of each signer that it signed the digest made of it.               *)

digest_of(entry) ==
  computeAuthDigest(buildAuthHashAt(entry, entry.expiration), entry.signature.context_rule_ids)

(* A passkey's assertion is looked at; an account is asked to require       *)
(* __check_auth of the account it signs for, with the digest.               *)
CheckAuth(account, digest) == [contract |-> account, fn |-> "__check_auth", args |-> <<digest>>]

passkeys_verify(entry, ledger) ==
  /\ ledger <= entry.expiration /\ entry.signature.signers # {}
  /\ \A s \in entry.signature.signers : s.kind = "external" /\ s.assertion = digest_of(entry)

delegate_verifies(entry, address, nested, ledger) ==
  \E n \in nested : /\ n.address = address
                    /\ n.invocation = CheckAuth(entry.address, digest_of(entry))
                    /\ passkeys_verify(n, ledger)

verifies(entry, nested, ledger) ==
  /\ ledger <= entry.expiration /\ entry.signature.signers # {}
  /\ \A s \in entry.signature.signers :
       IF s.kind = "external" THEN s.assertion = digest_of(entry)
       ELSE delegate_verifies(entry, s.key, nested, ledger)
=============================================================================
