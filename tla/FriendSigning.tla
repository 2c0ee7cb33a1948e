---------------------------- MODULE FriendSigning ----------------------------
(***************************************************************************)
(* What the owner of a recovering account and a friend tell each other     *)
(* (friendSigning.ts, recoveryActions.ts): the link with the hashes of the *)
(* transactions, which lie at Refractor, and the blob with one assertion   *)
(* for each of them.  A friend signs an entry nested in the account's: the *)
(* account's __check_auth, called with the account's own digest, which the *)
(* friend derives again from the transaction and the link.                 *)
(***************************************************************************)
EXTENDS AuthEntries

Account == "the recovering account"
RecoveryRule == 1   \* CallContract(self), with the multisig policy and the friends

(* The i-th transaction of the n-th rotation staged, as it was assembled;   *)
(* Refractor is content addressed, so its hash stands for it.              *)
assembled(n, i, call) ==
  [target |-> Account, call |-> call, auth |-> <<recorded(Account, <<n, i>>, call)>>]

validateRecoveryTxEnvelope(tx, account) ==
  tx.target = account /\ tx.auth # <<>> /\ tx.auth[1].address = account

parentAuthDigest(tx, expiration, ruleId) ==
  computeAuthDigest(buildAuthHashAt(tx.auth[1], expiration), <<ruleId>>)

(* The link.  The relay's key is the staging's.                            *)
encodeRotationHandoff(txs, expiration, relayKey) ==
  [v |-> 4, a |-> Account, r |-> RecoveryRule, tx |-> txs, exp |-> expiration, k |-> relayKey]

decodable(wire) == wire.v = 4 /\ wire.tx # <<>>

(* What a friend authorises, and what of it the friend's passkey signs.    *)
buildFriendInvocation(account, digest) == CheckAuth(account, digest)

friendSignaturePayload(account, digest, nonce, expiration) ==
  buildAuthHashAt(recorded("friend", nonce, buildFriendInvocation(account, digest)), expiration)

(* One assertion of a friend over one transaction of a link, its own nonce *)
(* and expiration beside it.                                               *)
friend_entry(wire, i, parent_expiration, nonce, expiration) ==
  LET digest == parentAuthDigest(wire.tx[i], parent_expiration, wire.r)
  IN  [nonce |-> nonce, expiration |-> expiration,
       assertion |-> computeAuthDigest(
                       friendSignaturePayload(wire.a, digest, nonce, expiration), <<0>>)]

(* A blob with one entry is written flat, as version 1 was.                 *)
encodeFriendSignature(s) ==
  IF Len(s.entries) = 1
  THEN [v |-> 1, friend |-> s.friend, nonce |-> s.entries[1].nonce,
        exp |-> s.entries[1].expiration, sig |-> s.entries[1].assertion]
  ELSE [v |-> 2, friend |-> s.friend, sigs |-> s.entries]

decodeFriendSignature(w) ==
  [friend |-> w.friend,
   entries |-> IF w.v = 1 THEN <<[nonce |-> w.nonce, expiration |-> w.exp, assertion |-> w.sig]>>
               ELSE w.sigs]

(* The friend's entry as the owner builds it again from the blob.           *)
buildFriendAuthEntry(account, friend, entry, digest) ==
  [recorded(friend, entry.nonce, buildFriendInvocation(account, digest))
     EXCEPT !.expiration = entry.expiration,
            !.signature = buildAuthPayload(<<0>>, {External(friend, entry.assertion)})]
=============================================================================
