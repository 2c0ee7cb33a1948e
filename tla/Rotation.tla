------------------------------ MODULE Rotation ------------------------------
(***************************************************************************)
(* Recovery by friends: the owner of an account who lost the passkey       *)
(* stages a rotation of the default rule (prepareRotation), friends sign   *)
(* it (signRotationAsFriend) and leave their signatures at the recovery    *)
(* relay, the owner's page collects them (collectFromRelay) and submits    *)
(* the transactions one by one (submitRotation), through the transaction   *)
(* relayer or directly.                                                    *)
(*                                                                         *)
(* The page's asynchronous functions are processes of their own: each      *)
(* await is a step boundary, and a function goes on with what it read      *)
(* before the await, whatever is in localStorage by then.                  *)
(*                                                                         *)
(* Data.  The n-th staged rotation is identified by n: its transactions'   *)
(* nonces are <<n, i>>, its relay key is n.  A friend's blob is kept as    *)
(* what it was made from; friendSignature has what is in it.               *)
(*                                                                         *)
(* A definition marked "wrong variant" is the definition after it with a   *)
(* plausible mistake, and no part of the model.                            *)
(***************************************************************************)
EXTENDS FriendSigning

CONSTANTS
  Friends,      \* the Delegated signers of the recovery rule
  Passkeys,     \* the passkeys that may sign for the account
  FirstSigners, \* those on the default rule at first
  None,
  HashAtSubmit, \* TRUE: the relayer may answer a submission with a hash
  Unreliable,   \* TRUE: waits time out, pages are reloaded
  MaxOffset,    \* bound on PARENT_EXPIRATION_OFFSET, in ledgers
  Ttl,          \* the relay's TTL, in ledgers
  Settings,     \* the settings a behaviour may have
  MaxStagings,  \* bound: rotations staged
  MaxJobs,      \* bound: submissions accepted
  MaxLedger     \* bound: the last ledger

VARIABLES
  setting,    \* chosen at first and never changed: the recovery rule's threshold,
              \* whether the default rule has the 1-of-N policy at first,
              \* relayerEnabled(), whether the answer to a submission may get lost,
              \* whether the owner may stage again during a submission,
              \* PARENT_EXPIRATION_OFFSET, and bounds on the rotations staged and
              \* on the ledgers
  ledger,     \* the current ledger
  rule,       \* the default rule: its signers, and whether it has a policy
  used,       \* the nonces <<n, i>> consumed: the transactions that landed
  handoffs,   \* handoffs[n]: what the n-th handoff link and Refractor are made from
  relay,      \* relay[n][f]: the blob of f in the bucket of n, or None
  jobs,       \* the submissions accepted by the relayer or the node
  staging,    \* the staged rotation in localStorage, or None
  removable,  \* the one old signer, as it was when the page was loaded
  preparing,  \* prepareRotation between its awaits
  collecting, \* collectFromRelay between its awaits
  submitting  \* submitRotation between its awaits

chain_vars == <<ledger, rule, used>>
page_vars == <<removable, preparing, collecting, submitting>>
vars == <<setting, chain_vars, handoffs, relay, jobs, staging, page_vars>>

ASSUME RotationAssumption ==
  /\ Settings \subseteq [threshold: 1..Cardinality(Friends), policy: BOOLEAN,
                        relayer: BOOLEAN, lost: BOOLEAN, overlap: BOOLEAN,
                        offset: 1..MaxOffset, stagings: 1..MaxStagings, ledgers: 0..MaxLedger]
  /\ FirstSigners \subseteq Passkeys /\ FirstSigners # {} /\ IsFiniteSet(FirstSigners)
  /\ IsFiniteSet(Friends) /\ None \notin Passkeys \cup Friends
  /\ {HashAtSubmit, Unreliable} \subseteq BOOLEAN
  /\ {MaxOffset, Ttl, MaxStagings, MaxJobs, MaxLedger} \subseteq Nat

Stagings == 1..MaxStagings
Ledgers == 0..MaxLedger
Expirations == 0..(MaxLedger + MaxOffset)

Calls == [method: {"add_policy"}]
         \cup [method: {"add_signer", "remove_signer"}, key: Passkeys]

(* At most one call of each kind. *)
Plans == UNION {[1..k -> Calls] : k \in 1..3}

RotationRequests == [add: Passkeys \cup {None}, remove: Passkeys \cup {None}]

(* What a friend's blob is made from: one entry per transaction of the handoff,
   each signed for that transaction's parent digest at parent_expiration. *)
FriendSignatures ==
  [friend: Friends, handoff: Stagings, entries: 1..3,
   parent_expiration: Expirations, expiration: Expirations]

StagedTxs == [call: Calls, job: (1..MaxJobs) \cup {None}, submitted: BOOLEAN]

RotationStagings ==
  [id: Stagings, txs: UNION {[1..k -> StagedTxs] : k \in 1..3}, expiration: Expirations,
   threshold: 1..Cardinality(Friends), collected: [Friends -> FriendSignatures \cup {None}]]

Jobs ==
  [id: Stagings, tx: 1..3, call: Calls, expiration: Expirations, blobs: SUBSET FriendSignatures,
   status: {"pending", "confirmed", "failed"}]

Handoffs == [calls: Plans, expiration: Expirations]

Idle == [pc |-> "idle"]

ASSUME NoneAssumption == None \notin RotationStagings \cup FriendSignatures

-----------------------------------------------------------------------------
(* What is signed.                                                         *)

(* The n-th link, with the transactions its hashes stand for. *)
link(n) ==
  encodeRotationHandoff(
    [i \in DOMAIN handoffs[n].calls |-> assembled(n, i, handoffs[n].calls[i])],
    handoffs[n].expiration, n)

(* The friend's nonces are random; the relay has the blob as it is encoded. *)
friendSignature(b) ==
  decodeFriendSignature(encodeFriendSignature(
    [friend |-> b.friend,
     entries |-> [i \in 1..b.entries |->
                    friend_entry(link(b.handoff), i, b.parent_expiration,
                                 <<b.friend, b.handoff, i, b.expiration>>, b.expiration)]]))

(* The entries of transaction i of a staged rotation, as they are submitted:
   the account's, which names the friends, and one of each friend. *)
parent_entry(n, i, call, expiration, blobs) ==
  [assembled(n, i, call).auth[1] EXCEPT
     !.expiration = expiration,
     !.signature = buildAuthPayload(<<RecoveryRule>>, {Delegated(b.friend) : b \in blobs})]

nested_entries(n, i, call, expiration, blobs) ==
  {buildFriendAuthEntry(Account, b.friend, friendSignature(b).entries[i],
                        parentAuthDigest(assembled(n, i, call), expiration, RecoveryRule)) :
     b \in blobs}

-----------------------------------------------------------------------------
(* The chain, as far as rotations touch it.                                *)

Tick ==
  /\ ledger < setting.ledgers
  /\ ledger' = ledger + 1
  /\ UNCHANGED <<rule, used, handoffs, relay, jobs, staging, page_vars>>

(* What a call does to the rule; {} when the contract refuses it. *)
results(r, call) ==
  CASE call.method = "add_policy" -> {[r EXCEPT !.policy = TRUE] : x \in {p \in {TRUE} : ~r.policy}}
    [] call.method = "add_signer" ->
         {[r EXCEPT !.signers = @ \cup {k}] : k \in {call.key} \ r.signers}
    [] OTHER ->
         {s \in {[r EXCEPT !.signers = @ \ {k}] : k \in {call.key} \cap r.signers} :
            s.signers # {} \/ s.policy}

(* The recovery rule's policy counts the friends, and the entries verify. *)
authorised(job) ==
  /\ <<job.id, job.tx>> \notin used
  /\ Cardinality(job.blobs) >= setting.threshold
  /\ verifies(parent_entry(job.id, job.tx, job.call, job.expiration, job.blobs),
              nested_entries(job.id, job.tx, job.call, job.expiration, job.blobs), ledger)

runs(job) == authorised(job) /\ results(rule, job.call) # {}

(* A job the relayer, or the node, holds is included in a ledger. *)
Land ==
  \E j \in DOMAIN jobs :
    /\ jobs[j].status = "pending"
    /\ IF runs(jobs[j])
         THEN /\ rule' \in results(rule, jobs[j].call)
              /\ used' = used \cup {<<jobs[j].id, jobs[j].tx>>}
              /\ jobs' = [jobs EXCEPT ![j].status = "confirmed"]
         ELSE /\ jobs' = [jobs EXCEPT ![j].status = "failed"]
              /\ UNCHANGED <<rule, used>>
    /\ UNCHANGED <<ledger, handoffs, relay, staging, page_vars>>

-----------------------------------------------------------------------------
(* Staging.                                                                *)

needsRepair(r) == Cardinality(r.signers) > 1 /\ ~r.policy

findRemovableOldSigner(r) ==
  IF Cardinality(r.signers) = 1 THEN CHOOSE k \in r.signers : TRUE ELSE None

(* A rule that cannot be read has no key to remove. *)
readOldSigner(r) == {findRemovableOldSigner(r), None}

ask(method, key) == IF key = None THEN <<>> ELSE <<[method |-> method, key |-> key]>>

(* The rule's counts go with the request, so that the planner can tell. *)
enrichRotationRequest(request, r) ==
  [add |-> request.add, remove |-> request.remove,
   signerCount |-> Cardinality(r.signers), policyCount |-> IF r.policy THEN 1 ELSE 0]

resultingSigners(req) ==
  req.signerCount + Len(ask("add_signer", req.add)) - Len(ask("remove_signer", req.remove))

policy_call(req) ==
  IF req.policyCount = 0 /\ resultingSigners(req) > 1 THEN <<[method |-> "add_policy"]>> ELSE <<>>

(* Wrong variant: the policy is installed last. *)
planRotation_policy_last(req) ==
  ask("add_signer", req.add) \o ask("remove_signer", req.remove) \o policy_call(req)

planRotation(req) ==
  policy_call(req) \o ask("add_signer", req.add) \o ask("remove_signer", req.remove)

(* What a page reads of the recovery rule: its friends, and the threshold of
   its policy unless that read fails. *)
findRecoveryRules ==
  [ruleId: {RecoveryRule}, friends: {Friends},
   threshold: {setting.threshold} \cup {t \in {None} : Unreliable}]

(* Without it the page takes half of the friends. *)
threshold_of(rule_info) ==
  IF rule_info.threshold = None THEN (Cardinality(rule_info.friends) + 1) \div 2
  ELSE rule_info.threshold

(* What the page asks for: a new key, with or without the removal of the old
   one, or the bare repair of a rule that needs it. *)
Requested ==
  {request \in RotationRequests :
     /\ request.remove \in {None, removable}
     /\ request.add = None => request.remove = None /\ needsRepair(rule)}

PrepareBegin ==
  /\ preparing = Idle
  /\ setting.overlap \/ submitting = Idle
  /\ Len(handoffs) < setting.stagings
  /\ \E request \in Requested, rule_info \in findRecoveryRules :
       preparing' = [pc |-> "simulate", threshold |-> threshold_of(rule_info),
                     plan |-> planRotation(enrichRotationRequest(request, rule))]
  /\ UNCHANGED <<chain_vars, handoffs, relay, jobs, staging, removable, collecting, submitting>>

(* Each operation is simulated against the rule as it is, one by one. *)
stageable(plan) == \A i \in DOMAIN plan : results(rule, plan[i]) # {}

staged(plan, threshold) ==
  [id |-> Len(handoffs) + 1, expiration |-> ledger + setting.offset, threshold |-> threshold,
   txs |-> [i \in DOMAIN plan |-> [call |-> plan[i], job |-> None, submitted |-> FALSE]],
   collected |-> [f \in Friends |-> None]]

handoff_of(st) ==
  [calls |-> [i \in DOMAIN st.txs |-> st.txs[i].call], expiration |-> st.expiration]

(* The transactions are stored at Refractor, under their hashes, and the
   staging replaces the one before it. *)
Stage ==
  /\ preparing # Idle
  /\ setting.overlap \/ submitting = Idle
  /\ stageable(preparing.plan)
  /\ staging' = staged(preparing.plan, preparing.threshold)
  /\ handoffs' = Append(handoffs, handoff_of(staging'))
  /\ preparing' = Idle
  /\ UNCHANGED <<chain_vars, relay, jobs, removable, collecting, submitting>>

StageFails ==
  /\ preparing # Idle
  /\ ~stageable(preparing.plan)
  /\ preparing' = Idle
  /\ UNCHANGED <<chain_vars, handoffs, relay, jobs, staging, removable, collecting, submitting>>

(* The page is opened again, or, after om-cancel, without the staging. *)
Reload ==
  /\ Unreliable
  /\ removable' \in readOldSigner(rule)
  /\ preparing' = Idle /\ collecting' = Idle /\ submitting' = Idle
  /\ staging' \in {staging, None}
  /\ UNCHANGED <<chain_vars, handoffs, relay, jobs>>

-----------------------------------------------------------------------------
(* The friends and the relay.                                              *)

(* Refractor has a transaction under its hash, which is computed again from
   what comes back: a link's i-th hash stands for one transaction. *)
fetched(wire, i) == wire.tx[i]

(* A friend signs what lies at Refractor under the hashes of a link, unless
   there is nothing to sign or it is not for the account of the link. *)
signable(wire) ==
  decodable(wire) /\ \A i \in DOMAIN wire.tx : validateRecoveryTxEnvelope(fetched(wire, i), wire.a)

(* Wrong variant: the parent's expiration is computed from the live ledger. *)
signed_for_live(f, n) ==
  [friend |-> f, handoff |-> n, entries |-> Len(link(n).tx),
   parent_expiration |-> ledger + setting.offset, expiration |-> ledger + setting.offset]

signed_for(f, n) ==
  [friend |-> f, handoff |-> n, entries |-> Len(link(n).tx),
   parent_expiration |-> link(n).exp, expiration |-> ledger + setting.offset]

(* requireRecoveryRule; f is a friend by the chain and not by the link. *)
listed(f, n) ==
  \E rule_info \in findRecoveryRules : rule_info.ruleId = link(n).r /\ f \in rule_info.friends

(* signRotationAsFriend and submitFriendSignatureToRelay: a friend may sign
   the same link again, and an older link. *)
FriendSigns ==
  \E f \in Friends, n \in DOMAIN handoffs :
    /\ listed(f, n) /\ signable(link(n))
    /\ relay' = [relay EXCEPT ![link(n).k][f] = signed_for(f, n)]
    /\ UNCHANGED <<chain_vars, handoffs, jobs, staging, page_vars>>

(* A blob was put setting.offset ledgers before its expiration. *)
RelayForgets ==
  \E n \in DOMAIN handoffs, f \in Friends :
    /\ relay[n][f] # None
    /\ ledger >= relay[n][f].expiration - setting.offset + Ttl
    /\ relay' = [relay EXCEPT ![n][f] = None]
    /\ UNCHANGED <<chain_vars, handoffs, jobs, staging, page_vars>>

known(st) == {f \in Friends : st.collected[f] # None}

CollectBegin ==
  /\ collecting = Idle
  /\ staging # None
  /\ collecting' = [pc |-> "list", bucket |-> staging.id, known |-> known(staging)]
  /\ UNCHANGED <<chain_vars, handoffs, relay, jobs, staging, removable, preparing, submitting>>

(* addFriendSignature looks at the friend and at the number of entries. *)
acceptable(st, blob) ==
  blob # None /\ Len(friendSignature(blob).entries) = Len(st.txs)

add_unknown(st, blobs, seen) ==
  [st EXCEPT !.collected =
     [f \in Friends |-> IF f \notin seen /\ acceptable(st, blobs[f]) THEN blobs[f] ELSE @[f]]]

CollectEnd ==
  /\ collecting # Idle
  /\ staging' = IF staging = None THEN None
                ELSE add_unknown(staging, relay[collecting.bucket], collecting.known)
  /\ collecting' = Idle
  /\ UNCHANGED <<chain_vars, handoffs, relay, jobs, removable, preparing, submitting>>

-----------------------------------------------------------------------------
(* Submission.  submitRotation works on the staging it loaded, st, and saves *)
(* that copy as a whole.                                                    *)

collectedCount(st) == Cardinality(known(st))

todo(st) == {i \in DOMAIN st.txs : ~st.txs[i].submitted}
next_tx(st) == CHOOSE i \in todo(st) : \A k \in todo(st) : i <= k

SubmitBegin ==
  /\ submitting = Idle
  /\ staging # None
  /\ collectedCount(staging) >= staging.threshold
  /\ submitting' = [pc |-> "submit", st |-> staging]
  /\ UNCHANGED <<chain_vars, handoffs, relay, jobs, staging, removable, preparing, collecting>>

ALLOWED_FUNCTIONS ==
  {"create_account", "create_account_v2", "insert_for", "initiate_recovery",
   "cancel_recovery", "burn_nullifier", "enroll_zk_recovery", "add_context_rule",
   "remove_context_rule", "add_signer", "remove_signer", "execute", "register"}

assertAllowedOrReject(call) == setting.relayer => call.method \in ALLOWED_FUNCTIONS

job_for(st, i) ==
  [id |-> st.id, tx |-> i, call |-> st.txs[i].call, expiration |-> st.expiration,
   blobs |-> {st.collected[f] : f \in known(st)}, status |-> "pending"]

with_job(st, i, j) == [st EXCEPT !.txs[i].job = j]
with_hash(st, i) == [st EXCEPT !.txs[i].submitted = TRUE]

submit_idle == submitting' = Idle /\ UNCHANGED staging

(* The relayer path: the job's id is saved before the wait. *)
saved_job(st, i, j) == IF setting.relayer THEN with_job(st, i, j) ELSE st

(* Wrong variant: a job id that was saved is not looked at. *)
unposted_again(st, i) == TRUE

unposted(st, i) == st.txs[i].job = None

Submit ==
  /\ submitting.pc = "submit" /\ todo(submitting.st) # {}
  /\ LET st == submitting.st
         i == next_tx(st)
         job == job_for(st, i)
         j == Len(jobs) + 1
     IN /\ unposted(st, i) /\ j <= MaxJobs
        /\ assertAllowedOrReject(job.call) /\ runs(job)
        /\ jobs' = Append(jobs, job)
        /\ \/ /\ staging' = IF setting.relayer THEN saved_job(st, i, j) ELSE staging
              /\ submitting' = [pc |-> "wait", st |-> saved_job(st, i, j), job |-> j]
           \/ /\ setting.relayer /\ HashAtSubmit
              /\ staging' = with_hash(saved_job(st, i, j), i)
              /\ submitting' = [pc |-> "submit", st |-> with_hash(saved_job(st, i, j), i)]
           \/ setting.lost /\ submit_idle
  /\ UNCHANGED <<chain_vars, handoffs, relay, removable, preparing, collecting>>

(* The relayer, or the enforcing simulation, refuses. *)
SubmitFails ==
  /\ submitting.pc = "submit" /\ todo(submitting.st) # {}
  /\ LET st == submitting.st
         i == next_tx(st)
     IN /\ unposted(st, i)
        /\ ~(assertAllowedOrReject(st.txs[i].call) /\ runs(job_for(st, i)))
  /\ submit_idle
  /\ UNCHANGED <<chain_vars, handoffs, relay, jobs, removable, preparing, collecting>>

Resume ==
  /\ submitting.pc = "submit" /\ todo(submitting.st) # {}
  /\ LET i == next_tx(submitting.st)
     IN /\ ~unposted(submitting.st, i)
        /\ submitting' = [pc |-> "wait", st |-> submitting.st, job |-> submitting.st.txs[i].job]
  /\ UNCHANGED <<chain_vars, handoffs, relay, jobs, staging, removable, preparing, collecting>>

(* Wrong variant: a wait that ends without a status counts as success. *)
landed_or_pending(status) == status # "failed"

landed(status) == status = "confirmed"

Confirmed ==
  /\ submitting.pc = "wait"
  /\ landed(jobs[submitting.job].status)
  /\ LET st == with_hash(submitting.st, next_tx(submitting.st))
     IN staging' = st /\ submitting' = [pc |-> "submit", st |-> st]
  /\ UNCHANGED <<chain_vars, handoffs, relay, jobs, removable, preparing, collecting>>

(* The job failed, or the polls ended before it was included. *)
WaitFails ==
  /\ submitting.pc = "wait"
  /\ jobs[submitting.job].status = "failed" \/ Unreliable
  /\ submit_idle
  /\ UNCHANGED <<chain_vars, handoffs, relay, jobs, removable, preparing, collecting>>

(* Wrong variant: what was staged is dropped once its first part is done. *)
done_in_part(st) == todo(st) # DOMAIN st.txs

done(st) == todo(st) = {}

SubmitEnd ==
  /\ submitting.pc = "submit" /\ done(submitting.st)
  /\ staging' = None
  /\ submitting' = Idle
  /\ UNCHANGED <<chain_vars, handoffs, relay, jobs, removable, preparing, collecting>>

-----------------------------------------------------------------------------
Init ==
  /\ ledger = 0
  /\ setting \in Settings
  /\ rule = [signers |-> FirstSigners, policy |-> setting.policy]
  /\ used = {}
  /\ handoffs = <<>>
  /\ relay = [n \in Stagings |-> [f \in Friends |-> None]]
  /\ jobs = <<>>
  /\ staging = None
  /\ removable = findRemovableOldSigner(rule)
  /\ preparing = Idle /\ collecting = Idle /\ submitting = Idle

Prepare == PrepareBegin \/ Stage \/ StageFails
Collect == CollectBegin \/ CollectEnd
submitRotation ==
  SubmitBegin \/ Submit \/ SubmitFails \/ Resume \/ Confirmed \/ WaitFails \/ SubmitEnd

Next ==
  /\ UNCHANGED setting
  /\ Tick \/ Land \/ Prepare \/ Reload \/ FriendSigns \/ RelayForgets \/ Collect \/ submitRotation

Spec == Init /\ [][Next]_vars

(* What was submitted is included in the end, friends sign a link they got, and
   an owner who keeps collecting and pressing "submit" is not interrupted for
   ever: the page polls every ten seconds, and a wait that ended is resumed.
   It is assumed only where RotationCompletes is claimed. *)
reliable == setting.relayer /\ ~setting.lost

Happens(A) == reliable /\ A /\ UNCHANGED setting

Fairness ==
  /\ WF_vars(Happens(Land)) /\ WF_vars(Happens(CollectBegin)) /\ SF_vars(Happens(CollectEnd))
  /\ WF_vars(Happens(SubmitBegin)) /\ SF_vars(Happens(Submit)) /\ WF_vars(Happens(SubmitFails))
  /\ SF_vars(Happens(Resume)) /\ SF_vars(Happens(Confirmed)) /\ WF_vars(Happens(SubmitEnd))
  /\ \A f \in Friends :
       WF_vars(Happens(FriendSigns /\ \E n \in DOMAIN handoffs :
                                      relay[n][f] = None /\ relay'[n][f] # None))

FairSpec == Spec /\ Fairness
-----------------------------------------------------------------------------
(* Properties.                                                             *)

TypeOK ==
  /\ setting \in Settings /\ ledger \in 0..setting.ledgers
  /\ rule \in [signers: SUBSET Passkeys, policy: BOOLEAN] /\ IsFiniteSet(rule.signers)
  /\ used \subseteq Stagings \X (1..3)
  /\ handoffs \in Seq(Handoffs)
  /\ Len(handoffs) + (IF preparing = Idle THEN 0 ELSE 1) <= setting.stagings
  /\ relay \in [Stagings -> [Friends -> FriendSignatures \cup {None}]]
  /\ jobs \in Seq(Jobs) /\ Len(jobs) <= MaxJobs
  /\ staging \in RotationStagings \cup {None}
  /\ removable \in Passkeys \cup {None}
  /\ preparing \in {Idle} \cup [pc: {"simulate"}, threshold: 1..Cardinality(Friends), plan: Plans]
  /\ collecting \in {Idle} \cup [pc: {"list"}, bucket: Stagings, known: SUBSET Friends]
  /\ submitting \in {Idle} \cup [pc: {"submit"}, st: RotationStagings]
                   \cup [pc: {"wait"}, st: RotationStagings, job: 1..MaxJobs]

collected(st) == {st.collected[f] : f \in known(st)}

(* The blobs somebody holds: the relay, the page, or the jobs. *)
blobs_at_hand ==
  ({relay[n][f] : n \in Stagings, f \in Friends} \ {None})
  \cup (IF staging = None THEN {} ELSE collected(staging))
  \cup (IF submitting = Idle THEN {} ELSE collected(submitting.st))
  \cup UNION {jobs[j].blobs : j \in DOMAIN jobs}

Recovery == INSTANCE ThresholdRecovery WITH
  InOrder <- ~HashAtSubmit, threshold <- setting.threshold,
  proposed <- [n \in DOMAIN handoffs |-> handoffs[n].calls],
  approvals <- {<<blob.friend, blob.handoff>> : blob \in blobs_at_hand},
  made <- used

(* The default rule changes only as a rotation was staged, once for each of its
   transactions, in their order, and by as many friends' signatures of that
   rotation as the threshold asks for, though anything may be signed again,
   kept, resumed or submitted twice (signRotationAsFriend, submitRotation). *)
RecoveryPromise == Recovery!Spec

one_key_signs == rule.signers # {} /\ ~needsRepair(rule)

(* An account on which one passkey can sign alone stays so, wherever a
   rotation, or several planned at different times, stops: planRotation puts
   the 1-of-N policy before the second signer, and never empties the rule. *)
NeverBricks == [][one_key_signs => one_key_signs']_vars

(* A transaction of a rotation lands only after those staged before it, though
   submitRotation may be interrupted, retried and run again from old state. *)
AppliedInOrder == \A landing \in used : landing[2] > 1 => <<landing[1], landing[2] - 1>> \in used

(* submitRotation reports success only when every transaction of the rotation it
   submitted landed; and it drops only such a rotation with its signatures,
   unless the owner staged another one meanwhile. *)
OnlyDoneIsCleared ==
  [][SubmitEnd =>
       /\ \A i \in DOMAIN submitting.st.txs : <<submitting.st.id, i>> \in used
       /\ setting.overlap \/ (staging # None /\ \A i \in DOMAIN staging.txs : <<staging.id, i>> \in used)]_vars

blob_verifies(st, blob, i) ==
  LET call == st.txs[i].call
  IN  verifies(parent_entry(st.id, i, call, st.expiration, {blob}),
               nested_entries(st.id, i, call, st.expiration, {blob}), 0)

(* The owner's page, the friend and the chain derive the same digests, of the
   account and of the entry nested in it: what a friend signed for the staged
   handoff verifies in what the page submits, until it expires, however the
   ledger moved between staging, signing and submitting. *)
DigestsAgree ==
  staging # None =>
    \A f \in known(staging) :
      staging.collected[f].handoff = staging.id =>
        \A i \in DOMAIN staging.txs : blob_verifies(staging, staging.collected[f], i)

landed_all(n) == \A i \in DOMAIN handoffs[n].calls : <<n, i>> \in used

(* Through a relayer whose answers arrive, a rotation that friends sign lands
   as a whole, through timed-out waits and reloads, unless the owner drops it. *)
RotationCompletes ==
  (reliable /\ staging # None)
    ~> ((\E n \in DOMAIN handoffs : landed_all(n)) \/ staging = None)
=============================================================================
