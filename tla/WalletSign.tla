----------------------------- MODULE WalletSign -----------------------------
(***************************************************************************)
(* The wallet's /sign/ page of one account: it finds the rule under which  *)
(* the passkey of this device signs, reads how many passkeys that rule     *)
(* asks for, collects their assertions over one digest, checks the result  *)
(* on chain and has the relayer submit it.  The account's rules may change *)
(* between any two of these reads, and each of them may fail.              *)
(*                                                                         *)
(* The page serves three requests: "tx", a transaction of a dApp (runSign, *)
(* signTransactionXdr); "own", an action of the wallet itself, signed with *)
(* one passkey and without the reads of the rule (signAndSubmit), sent     *)
(* through the relayer or, without one, to the network; and "entry", an    *)
(* authorization entry or a message, which is signed and handed back.      *)
(*                                                                         *)
(* The scan for a key is one step (RuleScan has its reads).  A definition  *)
(* marked "wrong variant" is the definition after it with a plausible      *)
(* mistake, and no part of the model.                                      *)
(***************************************************************************)
EXTENDS AuthEntries

CONSTANTS Keys, cred,     \* the user's passkeys, and the one stored on this device
          Forms,          \* what rules are: [external, delegated, policies]
          None,
          MaxChanges, MaxAttempts  \* bounds, for one request: changes of a rule,
                                   \* signatures submitted

VARIABLES rules,    \* the account's rules 0 and 1; 1 is the one a recovery installs
          changes,  \* how often they changed during this request
          page,     \* what the page shows and holds
          txs,      \* the transactions sent for this request
          lost      \* history: an answer that said a transaction is in flight
                    \* was lost, or given up

chain == <<rules, changes>>
sign_vars == <<chain, page, txs, lost>>

Rules == [external: SUBSET Keys, delegated: Nat, policies: SUBSET Nat]
Infos == [externalSigners: SUBSET Keys, delegatedCount: Nat, policyCount: Nat, threshold: Nat \cup {None}]

ASSUME SignAssumption ==
  /\ cred \in Keys /\ IsFiniteSet(Keys)
  /\ Forms \subseteq Rules /\ \A rule \in Forms : IsFiniteSet(rule.policies)
  /\ None \notin Nat \cup Rules \cup Infos
  /\ MaxChanges \in Nat /\ MaxAttempts \in Nat

Pages ==
  [step: {"closed", "no_passkey", "review", "resolve", "preflight", "simulate", "ceremony",
          "enforce", "submit", "wait", "unknown", "done", "signed"},
   request: {"tx", "own", "entry"}, rule: 0..1 \cup {None}, info: Infos \cup {None},
   required: Nat, signed: SUBSET Keys,
   outcome: {"none", "no_rule", "beyond_passkeys", "failed", "not_remaining", "refused"}]

Txs == [rule: 0..1 \cup {None}, signed: SUBSET Keys, state: {"sent", "landed", "failed"}]

NoPage == [step |-> "closed", request |-> "tx", rule |-> None, info |-> None,
           required |-> 0, signed |-> {}, outcome |-> "none"]

greater(m, n) == IF m >= n THEN m ELSE n

(* A policy is the threshold it sets, 0 for a policy that sets none.  A    *)
(* rule without policies asks for each of its signers.                     *)
satisfied(rule, signed) ==
  LET ok == signed \cap rule.external
  IN  IF rule.policies = {} THEN ok = rule.external /\ rule.delegated = 0
      ELSE ok # {} /\ \A m \in rule.policies : Cardinality(ok) >= m

(* The entry to sign, and how long it is valid; time is not modelled.      *)
authEntry == recorded("account", "nonce", "call")
expirationOffset == 1

(* What the passkeys sign names the rule it is signed for.                 *)
digest(id) == computeAuthDigest(buildAuthHash(authEntry, 0, expirationOffset), <<id>>)

signedEntry(id, signed) ==
  injectSignedAuthPayload(authEntry, { External(k, digest(id)) : k \in signed },
                          0, expirationOffset, <<id>>)

accepts(id, signed) ==
  /\ rules[id] # None /\ satisfied(rules[id], signed)
  /\ verifies(signedEntry(id, signed), {}, 0)

(* Rule 1 holds the passkey of a recovery, or is not there.                *)
recovered == [external |-> {cred}, delegated |-> 0, policies |-> {}]
RuleSets == [0..1 -> Forms \cup {recovered, None}]
PossibleRules == { r \in RuleSets : r[1] \in {recovered, None} }

Change ==
  /\ page # NoPage \/ \E i \in DOMAIN txs : txs[i].state = "sent"
  /\ changes < MaxChanges /\ changes' = changes + 1
  /\ rules' \in PossibleRules
  /\ \E id \in 0..1 : rules'[id] # rules[id] /\ rules'[1 - id] = rules[1 - id]
  /\ UNCHANGED <<page, txs, lost>>

settled(state) == [rule |-> None, signed |-> {}, state |-> state]

(* A transaction in flight is included, or it fails or expires.            *)
Lands(i) ==
  /\ txs[i].state = "sent"
  /\ \E s \in {"failed"} \cup (IF accepts(txs[i].rule, txs[i].signed) THEN {"landed"} ELSE {}) :
       txs' = [txs EXCEPT ![i] = settled(s)]
  /\ UNCHANGED <<chain, page, lost>>

-----------------------------------------------------------------------------
(* The reads before the ceremony.                                          *)

At(step) == page.step = step
Become(p) == page' = p /\ UNCHANGED <<chain, txs, lost>>

(* The page loads with a request; without a passkey of the account on this *)
(* device it only lets the user go.                                        *)
opened(request, has_passkey) ==
  [NoPage EXCEPT !.step = IF has_passkey THEN "review" ELSE "no_passkey", !.request = request]

(* An error is shown and Approve is enabled again.                         *)
retryable(outcome) == [opened(page.request, TRUE) EXCEPT !.outcome = outcome]

NewRequest(p) == page' = p /\ txs' = <<>> /\ lost' = FALSE /\ changes' = 0 /\ UNCHANGED rules

approve ==
  /\ At("review") /\ Len(txs) < MaxAttempts
  /\ Become([opened(page.request, TRUE) EXCEPT !.step = "resolve"])

resolveSignerRule == { id \in 0..1 : rules[id] # None /\ cred \in rules[id].external }

Resolve ==
  /\ At("resolve")
  /\ Become(IF resolveSignerRule = {} THEN retryable("no_rule")
            ELSE [page EXCEPT !.rule = CHOOSE id \in resolveSignerRule :
                                         \A other \in resolveSignerRule : id <= other,
                              !.required = 1,
                              !.step = IF page.request = "tx" THEN "preflight" ELSE "simulate"])

(* A message is signed for no rule.                                        *)
signMessageRaw ==
  /\ At("resolve") /\ page.request = "entry"
  /\ Become([page EXCEPT !.required = 1, !.step = "simulate"])

(* What a read of the rule tells: the threshold of a policy that sets one, *)
(* unless the reads of the policies fail.                                  *)
fetchDefaultRuleAuthInfo(rule) ==
  { [externalSigners |-> rule.external, delegatedCount |-> rule.delegated,
     policyCount |-> Cardinality(rule.policies), threshold |-> t] :
      t \in {None} \cup (rule.policies \ {0}) }

(* Wrong variant: one passkey is asked for whatever the rule says.         *)
requiredSignatureCount_one(info) == 1

requiredSignatureCount(info) ==
  IF info.policyCount > 0 THEN IF info.threshold = None THEN 1 ELSE greater(1, info.threshold)
  ELSE greater(1, Cardinality(info.externalSigners) + info.delegatedCount)

(* The rules a ceremony of passkeys cannot satisfy.                        *)
beyondPasskeys(info) ==
  LET required == requiredSignatureCount(info)
  IN  /\ required > 1
      /\ \/ info.policyCount = 0 /\ info.delegatedCount > 0
         \/ required > Cardinality(info.externalSigners)

Preflight ==
  /\ At("preflight") /\ rules[page.rule] # None
  /\ \E info \in fetchDefaultRuleAuthInfo(rules[page.rule]) :
       Become(IF beyondPasskeys(info) THEN [retryable("beyond_passkeys") EXCEPT !.info = info]
              ELSE [page EXCEPT !.info = info, !.required = requiredSignatureCount(info),
                                !.step = "simulate"])

(* An unreadable rule is signed for with one passkey.                      *)
PreflightUnread == At("preflight") /\ Become([page EXCEPT !.step = "simulate"])

(* The digest binds the rule found above.                                  *)
Simulate == At("simulate") /\ Become([page EXCEPT !.step = "ceremony"])

(* A read or a simulation fails, or the transaction is not one contract    *)
(* call; or the user dismisses the passkey prompt.                         *)
Fails == page.step \in {"resolve", "simulate", "ceremony"} /\ Become(retryable("failed"))

-----------------------------------------------------------------------------
(* The ceremony.                                                           *)

remaining == IF page.required > 1 THEN page.info.externalSigners \ page.signed ELSE {cred}

(* The passkeys the browser offers: the stored one first, then any.        *)
allowed == IF cred \in remaining THEN {cred} ELSE Keys

runAssertionCeremony ==
  /\ At("ceremony")
  /\ \E k \in allowed :
       Become(IF k \notin remaining THEN retryable("not_remaining")
              ELSE LET signed == page.signed \cup {k}
                   IN  [page EXCEPT !.signed = signed,
                                    !.step = IF Cardinality(signed) < page.required THEN "ceremony"
                                             ELSE CASE page.request = "tx" -> "enforce"
                                                    [] page.request = "own" -> "submit"
                                                    [] page.request = "entry" -> "signed"])

(* The final simulation of what a dApp asked for, in enforce mode.         *)
FinalSimulation ==
  /\ At("enforce")
  /\ Become(IF accepts(page.rule, page.signed) THEN [page EXCEPT !.step = "submit"]
            ELSE retryable("refused"))

FinalSimulationFails == At("enforce") /\ Become(retryable("failed"))

-----------------------------------------------------------------------------
(* The submission: the relayer simulates again and accepts a job, the      *)
(* network a transaction after the same simulation by the page.  What is   *)
(* signed anew has a nonce of its own, and may land beside the other.      *)

sent == Append(txs, [rule |-> page.rule, signed |-> page.signed, state |-> "sent"])

submitSorobanTransaction ==
  /\ At("submit") /\ accepts(page.rule, page.signed)
  /\ txs' = sent /\ page' = [page EXCEPT !.step = "wait"]
  /\ UNCHANGED <<chain, lost>>

(* It was accepted, and the answer does not arrive or has no id.           *)
AnswerLost ==
  /\ At("submit") /\ accepts(page.rule, page.signed)
  /\ txs' = sent /\ lost' = TRUE /\ page' = retryable("failed")
  /\ UNCHANGED chain

SubmissionRefused == At("submit") /\ Become(retryable("failed"))

(* Only the transaction this page waits for is looked at.                  *)
mine == txs[Len(txs)]

(* Wrong variant: a wait that ran out is an error like the others.         *)
timedOut_retryable == retryable("failed")

(* The transaction may yet land: Approve and Cancel stay out of reach.     *)
timedOut == [page EXCEPT !.step = "unknown"]

waitForConfirmation ==
  /\ At("wait")
  /\ \/ mine.state = "landed" /\ Become([page EXCEPT !.step = "done"])
     \/ mine.state = "failed" /\ Become(retryable("failed"))
     \/ Become(timedOut)

(* Without a relayer the page polls the network, thirty times; then it     *)
(* shows an error like the others.                                         *)
classicPollsRunOut ==
  /\ At("wait") /\ page.request = "own" /\ mine.state # "landed"
  /\ lost' = TRUE /\ page' = retryable("failed")
  /\ UNCHANGED <<chain, txs>>

SignInit ==
  /\ rules \in PossibleRules
  /\ changes = 0 /\ page = NoPage /\ txs = <<>> /\ lost = FALSE

Read == approve \/ Resolve \/ signMessageRaw \/ Preflight \/ PreflightUnread \/ Simulate \/ Fails
Sign == runAssertionCeremony \/ FinalSimulation \/ FinalSimulationFails
Submit == submitSorobanTransaction \/ AnswerLost \/ SubmissionRefused
Wait == waitForConfirmation \/ classicPollsRunOut

Chain == Change \/ \E i \in DOMAIN txs : Lands(i)

SignNext == Chain \/ Read \/ Sign \/ Submit \/ Wait

SignTypeOK ==
  /\ rules \in PossibleRules /\ changes \in 0..MaxChanges
  /\ page \in Pages /\ txs \in Seq(Txs) /\ lost \in BOOLEAN
=============================================================================
