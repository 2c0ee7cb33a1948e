--------------------------- MODULE WalletKit_proofs ---------------------------
(***************************************************************************)
(* The dApp's module, its popup and the sign page, for every set of keys,  *)
(* rule forms and accounts, and every number of attempts and rule changes. *)
(*                                                                         *)
(* What the dApp is told is true (ToldTheTruth) only because of what holds *)
(* before anything is told, so KitInv says that first:                     *)
(*   - the promise, the window, the page and the message in flight are     *)
(*     live one at a time, and of one kind;                                *)
(*   - the page offers Approve and Cancel only when all that it sent has   *)
(*     failed, except where it lost sight of a transaction (SignOK);       *)
(*   - how many passkeys the ceremony asks for is fixed by the rule that   *)
(*     was read, and its step by how many have signed (CeremonyOK);        *)
(*   - after switch-account the module remembers no address (SwitchOK).    *)
(* What the preflight computes is a matter of cardinalities: the first     *)
(* lemmas show that enough passkeys satisfy the rule, that fewer do not,   *)
(* and that a rule beyond passkeys is beyond every set of them.            *)
(***************************************************************************)
EXTENDS WalletKit, FiniteSetTheorems, TLAPS

(* A read of the rule fixes how many passkeys the ceremony asks for. *)
Asked(p) ==
  /\ p.required >= 1
  /\ p.info = None => p.required = 1
  /\ p.info # None => /\ p.required = requiredSignatureCount(p.info) /\ ~beyondPasskeys(p.info)
                      /\ p.rule \in 0..1

CeremonyOK(p) ==
  /\ p.step \in {"resolve", "preflight"} => p.info = None /\ p.signed = {} /\ p.outcome = "none"
  /\ p.step = "preflight" => p.rule \in 0..1 /\ p.required = 1
  /\ p.step \in {"simulate", "ceremony"} =>
       /\ Asked(p) /\ p.outcome = "none"
       /\ p.required = 1 => p.signed = {}
       /\ p.required > 1 => p.signed \subseteq p.info.externalSigners
       /\ Cardinality(p.signed) < p.required
  /\ p.step = "enforce" =>
       /\ Asked(p) /\ p.outcome = "none"
       /\ p.required = 1 => p.signed = {cred}
       /\ p.required > 1 => p.signed \subseteq p.info.externalSigners
       /\ Cardinality(p.signed) >= p.required

(* Unless the page lost sight of one, what it sent before has failed, and  *)
(* the last one too when it offers to approve or to cancel.                *)
Sighted(p, ts) ==
  /\ \A i \in DOMAIN ts : i # Len(ts) => ts[i].state = "failed"
  /\ p.step \notin {"closed", "wait", "unknown", "done"} => \A i \in DOMAIN ts : ts[i].state = "failed"

AllFailed == \A i \in DOMAIN txs : txs[i].state = "failed"

SignOK ==
  /\ CeremonyOK(page)
  /\ ~lost => Sighted(page, txs)
  /\ At("wait") => txs # <<>>
  /\ At("done") => landed # {}

(* An answer says what the chain bears out, and nothing happens after it.  *)
AnswerOK ==
  /\ popup # Closed \/ page # NoPage \/ message # None \/ app.promise # None => told = "none"
  /\ popup # Closed => message = None
  /\ message # None => page = NoPage
  /\ message # None /\ message.from = "sign" /\ message.result = "submitted" => landed # {}
  /\ message # None /\ message.from = "sign" /\ message.result \in {"cancelled", "switch-account"} /\ ~lost =>
       AllFailed

SwitchOK ==
  /\ switched => cache = None
  /\ popup.page = "connect" /\ popup.previous # None => ~switched
  /\ message # None /\ message.from = "connect" /\ message.result = "ok" => ~switched

KitInv ==
  TypeOK /\ SignOK /\ AnswerOK /\ SwitchOK /\ ToldTheTruth

-----------------------------------------------------------------------------
(* Data.                                                                   *)

LEMMA KeysCount ==
  \A S \in SUBSET Keys : /\ IsFiniteSet(S) /\ Cardinality(S) \in Nat /\ (Cardinality(S) = 0 <=> S = {})
                         /\ \A T \in SUBSET S : Cardinality(T) <= Cardinality(S)
<1> SUFFICES ASSUME NEW S \in SUBSET Keys
             PROVE  /\ IsFiniteSet(S) /\ Cardinality(S) \in Nat /\ (Cardinality(S) = 0 <=> S = {})
                    /\ \A T \in SUBSET S : Cardinality(T) <= Cardinality(S)
    OBVIOUS
<1>1. IsFiniteSet(S)
      BY SignAssumption, FS_Subset DEF SignAssumption
<1>2. Cardinality(S) \in Nat
      BY <1>1, FS_CardinalityType
<1>3. Cardinality(S) = 0 <=> S = {}
      BY <1>1, FS_EmptySet
<1>4. \A T \in SUBSET S : Cardinality(T) <= Cardinality(S)
      BY <1>1, FS_Subset
<1> QED BY <1>1, <1>2, <1>3, <1>4

LEMMA OneKey == cred \in Keys /\ {cred} \in SUBSET Keys /\ Cardinality({cred}) = 1
BY SignAssumption, FS_Singleton DEF SignAssumption

LEMMA RequiredIsPositive ==
  ASSUME NEW info \in Infos PROVE requiredSignatureCount(info) \in Nat /\ requiredSignatureCount(info) >= 1
<1>1. /\ info.externalSigners \in SUBSET Keys /\ info.delegatedCount \in Nat /\ info.policyCount \in Nat
      /\ info.threshold \in Nat \cup {None}
      BY DEF Infos
<1>2. Cardinality(info.externalSigners) \in Nat
      BY <1>1, KeysCount
<1> QED BY <1>1, <1>2 DEF requiredSignatureCount, greater

LEMMA RuleIsTyped ==
  ASSUME rules \in PossibleRules, NEW id \in 0..1, rules[id] # None
  PROVE  rules[id] \in Rules /\ IsFiniteSet(rules[id].policies)
<1>1. rules[id] \in Forms \cup {recovered}
      BY DEF PossibleRules, RuleSets
<1>2. CASE rules[id] \in Forms
      BY <1>2, SignAssumption DEF SignAssumption
<1>3. CASE rules[id] = recovered
      BY <1>3, OneKey, FS_EmptySet DEF recovered, Rules
<1> QED BY <1>1, <1>2, <1>3

LEMMA ReadIsTyped ==
  ASSUME NEW rule \in Rules, IsFiniteSet(rule.policies), NEW info \in fetchDefaultRuleAuthInfo(rule)
  PROVE  /\ info \in Infos /\ info # None
         /\ info.externalSigners = rule.external /\ info.delegatedCount = rule.delegated
         /\ info.policyCount = Cardinality(rule.policies)
         /\ info.threshold \in {None} \cup (rule.policies \ {0})
<1>1. Cardinality(rule.policies) \in Nat
      BY FS_CardinalityType
<1>2. PICK t \in {None} \cup (rule.policies \ {0}) :
        info = [externalSigners |-> rule.external, delegatedCount |-> rule.delegated,
                policyCount |-> Cardinality(rule.policies), threshold |-> t]
      BY DEF fetchDefaultRuleAuthInfo
<1>3. info \in Infos
      BY <1>1, <1>2 DEF Rules, Infos
<1> QED BY <1>2, <1>3, SignAssumption DEF SignAssumption

(* The digest the passkeys sign is the one the chain derives. *)
LEMMA SignedVerifies ==
  ASSUME NEW id, NEW signed, signed # {}
  PROVE  verifies(signedEntry(id, signed), {}, 0)
<1> DEFINE signers == {External(k, digest(id)) : k \in signed}
           entry == signedEntry(id, signed)
<1>1. /\ entry.address = "account" /\ entry.nonce = "nonce" /\ entry.invocation = "call"
      /\ entry.expiration = 1
      /\ entry.signature = [context_rule_ids |-> <<id>>, signers |-> signers]
      BY DEF signedEntry, injectSignedAuthPayload, buildAuthPayload, authEntry, recorded, expirationOffset
<1>2. digest_of(entry) = digest(id)
  <2>1. entry.signature.context_rule_ids = <<id>>
        BY <1>1
  <2> HIDE DEF entry
  <2> QED BY <1>1, <2>1 DEF digest_of, digest, computeAuthDigest, buildAuthHashAt, buildAuthHash, authEntry, recorded,
             expirationOffset
<1>3. entry.signature.signers = signers /\ signers # {}
      BY <1>1
<1>4. \A s \in signers : s.kind = "external" /\ s.assertion = digest(id)
      BY DEF External
<1> HIDE DEF entry, signers
<1>5. 0 <= entry.expiration
      BY <1>1
<1> QED BY <1>2, <1>3, <1>4, <1>5 DEF verifies, entry

-----------------------------------------------------------------------------
(* What a rule asks for.                                                   *)

LEMMA EmptyPolicies ==
  ASSUME NEW S, IsFiniteSet(S) PROVE Cardinality(S) \in Nat /\ (Cardinality(S) = 0 <=> S = {})
BY FS_CardinalityType, FS_EmptySet

(* The passkeys collected for a rule that is still as it was read do. *)
LEMMA EnoughAreSigned ==
  ASSUME NEW rule \in Rules, IsFiniteSet(rule.policies), NEW p \in Pages, CeremonyOK(p),
         p.step = "enforce", p.info # None, read_of(p.info, rule)
  PROVE  satisfied(rule, p.signed) /\ p.signed # {}
<1> DEFINE info == p.info
           ext == rule.external
           signed == p.signed
           ok == signed \cap ext
<1>1. /\ info \in Infos /\ signed \in SUBSET Keys /\ ext \in SUBSET Keys /\ rule.delegated \in Nat
      /\ rule.policies \in SUBSET Nat
      BY DEF Pages, Rules
<1>2. /\ info.externalSigners = ext /\ info.delegatedCount = rule.delegated /\ cred \in ext
      /\ info.policyCount = Cardinality(rule.policies)
      /\ \A m \in rule.policies \ {0} : info.threshold = m
      BY DEF read_of
<1>3. /\ p.required = requiredSignatureCount(info) /\ ~beyondPasskeys(info) /\ p.required >= 1
      /\ p.required = 1 => signed = {cred}
      /\ p.required > 1 => signed \subseteq ext
      /\ Cardinality(signed) >= p.required
      BY <1>2 DEF CeremonyOK, Asked
<1>4. p.required \in Nat /\ Cardinality(signed) \in Nat /\ Cardinality(ext) \in Nat
      BY <1>1, KeysCount DEF Pages
<1>5. Cardinality(rule.policies) \in Nat /\ (Cardinality(rule.policies) = 0 <=> rule.policies = {})
      BY EmptyPolicies
<1>6. signed # {}
      BY <1>1, <1>3, <1>4, KeysCount
<1>7. ok = signed
  <2>1. CASE p.required = 1
        BY <1>2, <1>3, <2>1
  <2>2. CASE p.required # 1
        BY <1>3, <1>4, <2>2
  <2> QED BY <2>1, <2>2
<1>8. info.threshold \in Nat \cup {None}
      BY <1>1 DEF Infos
<1> HIDE DEF info, signed
<1>9. CASE rule.policies = {}
  <2>1. p.required = greater(1, Cardinality(ext) + rule.delegated)
        BY <1>2, <1>3, <1>5, <1>9 DEF requiredSignatureCount
  <2>2. Cardinality(ext) >= 1
        BY <1>1, <1>2, <1>4, KeysCount
  <2>3. p.required = Cardinality(ext) + rule.delegated
        BY <1>1, <1>4, <2>1, <2>2 DEF greater
  <2>4. rule.delegated = 0
    <3>1. CASE p.required > 1
          BY <1>1, <1>2, <1>3, <1>5, <1>9, <3>1 DEF beyondPasskeys
    <3>2. CASE p.required = 1
          BY <1>1, <1>4, <2>2, <2>3, <3>2
    <3> QED BY <1>3, <1>4, <3>1, <3>2
  <2>5. signed = ext
    <3>1. IsFiniteSet(ext) /\ signed \subseteq ext /\ Cardinality(signed) >= Cardinality(ext)
          BY <1>1, <1>3, <1>4, <1>7, <2>3, <2>4, KeysCount
    <3>2. Cardinality(signed) <= Cardinality(ext) /\ (Cardinality(signed) = Cardinality(ext) => signed = ext)
          BY <3>1, FS_Subset
    <3> QED BY <1>4, <3>1, <3>2
  <2> QED BY <1>6, <1>9, <2>4, <2>5 DEF satisfied, signed
<1>10. CASE rule.policies # {}
  <2>1. ASSUME NEW m \in rule.policies PROVE Cardinality(ok) >= m
    <3>0. Cardinality(ok) = Cardinality(signed) /\ Cardinality(signed) \in Nat
          BY <1>4, <1>7
    <3> HIDE DEF ok
    <3>1. CASE m = 0
          BY <3>0, <3>1
    <3>2. CASE m # 0
      <4>1. info.threshold = m /\ m \in Nat /\ info.threshold # None
            BY <1>1, <1>2, <2>1, <3>2, SignAssumption DEF SignAssumption
      <4>2. p.required = greater(1, m)
            BY <1>2, <1>3, <1>5, <1>10, <4>1 DEF requiredSignatureCount
      <4> QED BY <1>3, <3>0, <4>1, <4>2 DEF greater
    <3> QED BY <3>1, <3>2
  <2> QED BY <1>6, <1>7, <1>10, <2>1 DEF satisfied, signed
<1> QED BY <1>9, <1>10

(* What is turned down before the ceremony no passkeys could satisfy. *)
LEMMA BeyondIsBeyond ==
  ASSUME NEW rule \in Rules, IsFiniteSet(rule.policies), NEW info \in fetchDefaultRuleAuthInfo(rule),
         beyondPasskeys(info), NEW S \in SUBSET rule.external
  PROVE  ~satisfied(rule, S)
<1> DEFINE ext == rule.external
           required == requiredSignatureCount(info)
           ok == S \cap ext
<1>1. /\ info \in Infos /\ info # None
      /\ info.externalSigners = rule.external /\ info.delegatedCount = rule.delegated
      /\ info.policyCount = Cardinality(rule.policies)
      /\ info.threshold \in {None} \cup (rule.policies \ {0})
      BY ReadIsTyped
<1>2. /\ ext \in SUBSET Keys /\ rule.delegated \in Nat /\ rule.policies \in SUBSET Nat /\ ok \in SUBSET ext
      BY DEF Rules
<1>3. /\ Cardinality(ext) \in Nat /\ Cardinality(ok) \in Nat /\ Cardinality(ok) <= Cardinality(ext)
      BY <1>2, KeysCount
<1>4. Cardinality(rule.policies) \in Nat /\ (Cardinality(rule.policies) = 0 <=> rule.policies = {})
      BY EmptyPolicies
<1>5. /\ required > 1
      /\ \/ info.policyCount = 0 /\ info.delegatedCount > 0
         \/ required > Cardinality(ext)
      BY <1>1 DEF beyondPasskeys
<1>6. CASE rule.policies = {}
  <2>1. required = greater(1, Cardinality(ext) + rule.delegated)
        BY <1>1, <1>4, <1>6 DEF requiredSignatureCount
  <2> HIDE DEF required
  <2>2. rule.delegated # 0
        BY <1>1, <1>2, <1>3, <1>5, <2>1 DEF greater
  <2> QED BY <1>6, <2>2 DEF satisfied
<1>7. CASE rule.policies # {}
  <2>1. required = IF info.threshold = None THEN 1 ELSE greater(1, info.threshold)
        BY <1>1, <1>4, <1>7 DEF requiredSignatureCount
  <2> HIDE DEF required
  <2>2. info.threshold \in rule.policies /\ info.threshold \in Nat /\ required = info.threshold
        BY <1>1, <1>2, <1>5, <2>1 DEF greater
  <2>3. info.threshold > Cardinality(ext)
        BY <1>1, <1>4, <1>5, <1>7, <2>2
  <2>4. ~(Cardinality(ok) >= info.threshold)
        BY <1>3, <2>2, <2>3
  <2> QED BY <1>7, <2>2, <2>4 DEF satisfied
<1> QED BY <1>6, <1>7

(* A ceremony asks for no more passkeys than the rule needs. *)
LEMMA NoneIsTooMany ==
  ASSUME NEW rule \in Rules, IsFiniteSet(rule.policies), NEW info \in fetchDefaultRuleAuthInfo(rule),
         cred \in rule.external
  PROVE  no_fewer(rule, requiredSignatureCount(info))
<1> SUFFICES ASSUME NEW S \in SUBSET rule.external, satisfied(rule, S)
             PROVE  Cardinality(S) >= requiredSignatureCount(info)
    BY DEF no_fewer
<1> DEFINE ext == rule.external
           required == requiredSignatureCount(info)
<1>1. /\ info \in Infos /\ info # None
      /\ info.externalSigners = rule.external /\ info.delegatedCount = rule.delegated
      /\ info.policyCount = Cardinality(rule.policies)
      /\ info.threshold \in {None} \cup (rule.policies \ {0})
      BY ReadIsTyped
<1>2. /\ ext \in SUBSET Keys /\ rule.delegated \in Nat /\ rule.policies \in SUBSET Nat /\ S \cap ext = S
      /\ S \in SUBSET Keys
      BY DEF Rules
<1>3. /\ Cardinality(ext) \in Nat /\ Cardinality(S) \in Nat /\ (Cardinality(S) = 0 <=> S = {})
      /\ (Cardinality(ext) = 0 <=> ext = {})
      BY <1>2, KeysCount
<1>4. Cardinality(rule.policies) \in Nat /\ (Cardinality(rule.policies) = 0 <=> rule.policies = {})
      BY EmptyPolicies
<1>5. CASE rule.policies = {}
  <2>1. required = greater(1, Cardinality(ext) + rule.delegated)
        BY <1>1, <1>4, <1>5 DEF requiredSignatureCount
  <2> HIDE DEF required
  <2>2. S = ext /\ rule.delegated = 0
        BY <1>2, <1>5 DEF satisfied
  <2>3. Cardinality(S) >= required
        BY <1>2, <1>3, <2>1, <2>2 DEF greater
  <2> QED BY <2>3 DEF required
<1>6. CASE rule.policies # {}
  <2>1. required = IF info.threshold = None THEN 1 ELSE greater(1, info.threshold)
        BY <1>1, <1>4, <1>6 DEF requiredSignatureCount
  <2> HIDE DEF required
  <2>2. S # {} /\ \A m \in rule.policies : Cardinality(S) >= m
        BY <1>2, <1>6 DEF satisfied
  <2>3. Cardinality(S) >= required
        BY <1>1, <1>2, <1>3, <2>1, <2>2 DEF greater
  <2> QED BY <2>3 DEF required
<1> QED BY <1>5, <1>6

-----------------------------------------------------------------------------
(* The sign page.                                                          *)

Unsent == {"no_passkey", "review", "resolve", "preflight", "simulate", "ceremony", "enforce", "submit", "signed"}

LEMMA OpenedOK ==
  ASSUME NEW request \in {"tx", "own", "entry"}, NEW b \in BOOLEAN
  PROVE  /\ opened(request, b) \in Pages /\ CeremonyOK(opened(request, b))
         /\ opened(request, b).step \in {"review", "no_passkey"}
         /\ opened(request, b).info = None /\ opened(request, b).outcome = "none"
         /\ opened(request, b).signed = {} /\ opened(request, b).required = 0
         /\ opened(request, b).request = request /\ opened(request, b).rule = None
         /\ b => opened(request, b).step = "review"
<1> DEFINE p == [NoPage EXCEPT !.step = IF b THEN "review" ELSE "no_passkey", !.request = request]
<1>1. p \in Pages
      BY DEF NoPage, Pages
<1>2. /\ p.step = IF b THEN "review" ELSE "no_passkey"
      /\ p.info = None /\ p.outcome = "none" /\ p.signed = {} /\ p.required = 0
      /\ p.request = request /\ p.rule = None
      BY DEF NoPage
<1>3. opened(request, b) = p
      BY DEF opened
<1> HIDE DEF p
<1> QED BY <1>1, <1>2, <1>3 DEF CeremonyOK

LEMMA NoPageOK == NoPage \in Pages /\ CeremonyOK(NoPage) /\ NoPage.step = "closed" /\ NoPage.outcome = "none"
                  /\ NoPage.info = None
BY DEF NoPage, Pages, CeremonyOK

LEMMA RetryableOK ==
  ASSUME page \in Pages,
         NEW outcome \in {"no_rule", "beyond_passkeys", "failed", "not_remaining", "refused"}
  PROVE  /\ retryable(outcome) \in Pages /\ CeremonyOK(retryable(outcome))
         /\ retryable(outcome).step = "review" /\ retryable(outcome).info = None
         /\ retryable(outcome).outcome = outcome
<1> DEFINE p == opened(page.request, TRUE)
<1>1. p \in Pages /\ p.step = "review" /\ p.info = None
      BY OpenedOK DEF Pages
<1>2. retryable(outcome) = [p EXCEPT !.outcome = outcome]
      BY DEF retryable
<1> HIDE DEF p
<1>3. /\ retryable(outcome) \in Pages /\ retryable(outcome).step = "review"
      /\ retryable(outcome).info = None /\ retryable(outcome).outcome = outcome
      BY <1>1, <1>2 DEF Pages
<1> QED BY <1>3 DEF CeremonyOK

(* The page goes on before anything of this request is under way. *)
LEMMA PageMoves ==
  ASSUME SignTypeOK, SignOK, NEW p \in Pages, CeremonyOK(p), Become(p),
         page.step \in Unsent, p.step \in Unsent
  PROVE  SignTypeOK' /\ SignOK'
<1>1. page' = p /\ rules' = rules /\ changes' = changes /\ txs' = txs /\ lost' = lost
      BY DEF Become, chain
<1>2. SignTypeOK'
      BY <1>1 DEF SignTypeOK
<1>3. ~lost => Sighted(p, txs)
  <2>1. ~lost => Sighted(page, txs)
        BY DEF SignOK
  <2> QED BY <2>1 DEF Sighted, Unsent
<1> QED BY <1>1, <1>2, <1>3 DEF SignOK, At, Unsent

LEMMA ReadKeeps ==
  ASSUME SignTypeOK, SignOK, Read
  PROVE  SignTypeOK' /\ SignOK'
<1>0. page \in Pages /\ CeremonyOK(page) /\ rules \in PossibleRules
      BY DEF SignTypeOK, SignOK
<1>1. CASE approve
  <2> DEFINE o == opened(page.request, TRUE)
             p == [o EXCEPT !.step = "resolve"]
  <2>1. Become(p) /\ page.step = "review"
        BY <1>1 DEF approve, At
  <2>2. o \in Pages /\ o.info = None /\ o.outcome = "none" /\ o.signed = {}
        BY <1>0, OpenedOK DEF Pages
  <2> HIDE DEF o
  <2>3. p \in Pages /\ p.step = "resolve" /\ p.info = None /\ p.outcome = "none" /\ p.signed = {}
        BY <2>2 DEF Pages
  <2> HIDE DEF p
  <2>4. CeremonyOK(p)
        BY <2>3 DEF CeremonyOK
  <2> QED BY <2>1, <2>3, <2>4, PageMoves DEF Unsent
<1>2. CASE Resolve \/ signMessageRaw
  <2>1. page.step = "resolve" /\ page.info = None /\ page.signed = {} /\ page.outcome = "none"
        BY <1>0, <1>2 DEF Resolve, signMessageRaw, At, CeremonyOK
  <2>2. ASSUME NEW id \in 0..1 \cup {None}, NEW step \in {"preflight", "simulate"},
               step = "preflight" => id \in 0..1
        PROVE  /\ [page EXCEPT !.rule = id, !.required = 1, !.step = step] \in Pages
               /\ [page EXCEPT !.rule = id, !.required = 1, !.step = step].step \in Unsent
               /\ CeremonyOK([page EXCEPT !.rule = id, !.required = 1, !.step = step])
    <3> DEFINE p == [page EXCEPT !.rule = id, !.required = 1, !.step = step]
    <3>1. /\ p \in Pages /\ p.step = step /\ p.rule = id /\ p.required = 1
          /\ p.info = None /\ p.signed = {} /\ p.outcome = "none"
          BY <1>0, <2>1 DEF Pages
    <3> HIDE DEF p
    <3>2. Cardinality({}) = 0
          BY FS_EmptySet
    <3>3. CeremonyOK(p)
          BY <2>2, <3>1, <3>2 DEF CeremonyOK, Asked
    <3> QED BY <3>1, <3>3 DEF p, Unsent
  <2>3. CASE signMessageRaw
    <3> DEFINE p == [page EXCEPT !.rule = page.rule, !.required = 1, !.step = "simulate"]
    <3>1. p = [page EXCEPT !.required = 1, !.step = "simulate"]
          BY <1>0 DEF Pages
    <3>2. Become(p)
          BY <2>3, <3>1 DEF signMessageRaw
    <3>3. p \in Pages /\ p.step \in Unsent /\ CeremonyOK(p)
      <4>1. page.rule \in 0..1 \cup {None}
            BY <1>0 DEF Pages
      <4> QED BY <2>2, <4>1
    <3> HIDE DEF p
    <3> QED BY <2>1, <3>2, <3>3, PageMoves DEF Unsent
  <2>4. CASE Resolve /\ resolveSignerRule = {}
    <3>1. Become(retryable("no_rule"))
          BY <2>4 DEF Resolve
    <3> QED BY <1>0, <2>1, <3>1, RetryableOK, PageMoves DEF Unsent
  <2>5. CASE Resolve /\ resolveSignerRule # {}
    <3> DEFINE id == CHOOSE id \in resolveSignerRule : \A other \in resolveSignerRule : id <= other
               step == IF page.request = "tx" THEN "preflight" ELSE "simulate"
               p == [page EXCEPT !.rule = id, !.required = 1, !.step = step]
    <3>1. Become(p)
          BY <2>5 DEF Resolve
    <3>2. id \in 0..1
      <4>1. resolveSignerRule \subseteq 0..1
            BY DEF resolveSignerRule
      <4>2. \E i \in resolveSignerRule : \A other \in resolveSignerRule : i <= other
        <5>1. \A i \in resolveSignerRule : i = 0 \/ i = 1
              BY <4>1
        <5>2. CASE 0 \in resolveSignerRule
              BY <5>1, <5>2
        <5>3. CASE 0 \notin resolveSignerRule
              BY <2>5, <5>1, <5>3
        <5> QED BY <5>2, <5>3
      <4>3. id \in resolveSignerRule
            BY <4>2
      <4> QED BY <4>1, <4>3
    <3> HIDE DEF id
    <3>3. p \in Pages /\ p.step \in Unsent /\ CeremonyOK(p)
          BY <2>2, <3>2
    <3> HIDE DEF p
    <3> QED BY <2>1, <3>1, <3>3, PageMoves DEF Unsent
  <2> QED BY <1>2, <2>3, <2>4, <2>5
<1>3. CASE Preflight
  <2>1. /\ page.step = "preflight" /\ rules[page.rule] # None
        /\ page.info = None /\ page.signed = {} /\ page.outcome = "none" /\ page.rule \in 0..1
        BY <1>0, <1>3 DEF Preflight, At, CeremonyOK
  <2>2. PICK info \in fetchDefaultRuleAuthInfo(rules[page.rule]) :
          Become(IF beyondPasskeys(info) THEN [retryable("beyond_passkeys") EXCEPT !.info = info]
                 ELSE [page EXCEPT !.info = info, !.required = requiredSignatureCount(info),
                                   !.step = "simulate"])
        BY <1>3 DEF Preflight
  <2>3. info \in Infos /\ info # None
        BY <1>0, <2>1, RuleIsTyped, ReadIsTyped
  <2>4. CASE beyondPasskeys(info)
    <3> DEFINE r == retryable("beyond_passkeys")
               p == [r EXCEPT !.info = info]
    <3>1. Become(p)
          BY <2>2, <2>4
    <3>2. r \in Pages /\ r.step = "review"
          BY <1>0, RetryableOK
    <3> HIDE DEF r
    <3>3. p \in Pages /\ p.step = "review"
          BY <2>3, <3>2 DEF Pages
    <3> HIDE DEF p
    <3>4. CeremonyOK(p)
          BY <3>3 DEF CeremonyOK
    <3> QED BY <2>1, <3>1, <3>3, <3>4, PageMoves DEF Unsent
  <2>5. CASE ~beyondPasskeys(info)
    <3> DEFINE n == requiredSignatureCount(info)
               p == [page EXCEPT !.info = info, !.required = n, !.step = "simulate"]
    <3>1. Become(p)
          BY <2>2, <2>5
    <3>2. n \in Nat /\ n >= 1 /\ n = requiredSignatureCount(info)
          BY <2>3, RequiredIsPositive
    <3> HIDE DEF n
    <3>3. /\ p \in Pages /\ p.step = "simulate" /\ p.info = info /\ p.required = n
          /\ p.rule \in 0..1 /\ p.signed = {} /\ p.outcome = "none"
          BY <1>0, <2>1, <2>3, <3>2 DEF Pages
    <3> HIDE DEF p
    <3>4. CeremonyOK(p)
      <4>1. Cardinality({}) = 0
            BY FS_EmptySet
      <4> QED BY <2>3, <2>5, <3>2, <3>3, <4>1 DEF CeremonyOK, Asked
    <3> QED BY <2>1, <3>1, <3>3, <3>4, PageMoves DEF Unsent
  <2> QED BY <2>4, <2>5
<1>4. CASE PreflightUnread
  <2> DEFINE p == [page EXCEPT !.step = "simulate"]
  <2>1. /\ page.step = "preflight" /\ Become(p)
        /\ page.info = None /\ page.signed = {} /\ page.outcome = "none" /\ page.required = 1
        BY <1>0, <1>4 DEF PreflightUnread, At, CeremonyOK
  <2>2. /\ p \in Pages /\ p.step = "simulate" /\ p.info = None /\ p.signed = {} /\ p.outcome = "none"
        /\ p.required = 1
        BY <1>0, <2>1 DEF Pages
  <2> HIDE DEF p
  <2>3. CeremonyOK(p)
    <3>1. Cardinality({}) = 0
          BY FS_EmptySet
    <3> QED BY <2>2, <3>1 DEF CeremonyOK, Asked
  <2> QED BY <2>1, <2>2, <2>3, PageMoves DEF Unsent
<1>5. CASE Simulate
  <2> DEFINE p == [page EXCEPT !.step = "ceremony"]
  <2>1. page.step = "simulate" /\ Become(p)
        BY <1>5 DEF Simulate, At
  <2>2. /\ p \in Pages /\ p.step = "ceremony" /\ p.info = page.info /\ p.signed = page.signed
        /\ p.outcome = page.outcome /\ p.required = page.required /\ p.rule = page.rule
        BY <1>0 DEF Pages
  <2> HIDE DEF p
  <2>3. CeremonyOK(p)
        BY <1>0, <2>1, <2>2 DEF CeremonyOK, Asked
  <2> QED BY <2>1, <2>2, <2>3, PageMoves DEF Unsent
<1>6. CASE Fails
  <2>1. page.step \in {"resolve", "simulate", "ceremony"} /\ Become(retryable("failed"))
        BY <1>6 DEF Fails
  <2> QED BY <1>0, <2>1, RetryableOK, PageMoves DEF Unsent
<1> QED BY <1>1, <1>2, <1>3, <1>4, <1>5, <1>6 DEF Read

LEMMA CeremonyKeeps ==
  ASSUME SignTypeOK, SignOK, Sign
  PROVE  SignTypeOK' /\ SignOK'
<1>0. page \in Pages /\ CeremonyOK(page)
      BY DEF SignTypeOK, SignOK
<1>1. CASE runAssertionCeremony
  <2>1. /\ page.step = "ceremony" /\ Asked(page) /\ page.outcome = "none"
        /\ page.required = 1 => page.signed = {}
        /\ page.required > 1 => page.signed \subseteq page.info.externalSigners
        /\ Cardinality(page.signed) < page.required
        BY <1>0, <1>1 DEF runAssertionCeremony, At, CeremonyOK
  <2>2. page.required \in Nat /\ page.signed \in SUBSET Keys /\ page.request \in {"tx", "own", "entry"}
        /\ page.info \in Infos \cup {None}
        BY <1>0 DEF Pages
  <2>3. ASSUME NEW k \in allowed, k \notin remaining, Become(retryable("not_remaining"))
        PROVE  SignTypeOK' /\ SignOK'
        BY <1>0, <2>1, <2>3, RetryableOK, PageMoves DEF Unsent
  <2>4. ASSUME NEW k \in remaining,
               Become(LET signed == page.signed \cup {k}
                      IN  [page EXCEPT !.signed = signed,
                                    !.step = IF Cardinality(signed) < page.required THEN "ceremony"
                                             ELSE CASE page.request = "tx" -> "enforce"
                                                    [] page.request = "own" -> "submit"
                                                    [] page.request = "entry" -> "signed"])
        PROVE  SignTypeOK' /\ SignOK'
    <3> DEFINE signed == page.signed \cup {k}
               step == IF Cardinality(signed) < page.required THEN "ceremony"
                       ELSE CASE page.request = "tx" -> "enforce"
                              [] page.request = "own" -> "submit"
                              [] page.request = "entry" -> "signed"
               p == [page EXCEPT !.signed = signed, !.step = step]
    <3>1. Become(p)
          BY <2>4
    <3>2. k \in Keys
      <4>1. CASE page.required > 1
        <5>1. page.info # None
              BY <2>1, <4>1 DEF Asked
        <5>2. page.info.externalSigners \subseteq Keys
              BY <2>2, <5>1 DEF Infos
        <5> QED BY <2>4, <4>1, <5>2 DEF remaining
      <4>2. CASE ~(page.required > 1)
            BY <2>4, <4>2, OneKey DEF remaining
      <4> QED BY <4>1, <4>2
    <3>3. signed \in SUBSET Keys /\ Cardinality(signed) \in Nat
          BY <2>2, <3>2, KeysCount
    <3>4. /\ step \in {"ceremony", "enforce", "submit", "signed"}
          /\ step = "ceremony" => Cardinality(signed) < page.required
          /\ step = "enforce" => ~(Cardinality(signed) < page.required)
          BY <2>2
    <3>5. page.required = 1 => signed = {cred}
          BY <2>1, <2>4 DEF remaining
    <3>6. page.required > 1 => signed \subseteq page.info.externalSigners
          BY <2>1, <2>4 DEF remaining
    <3> HIDE DEF signed, step
    <3>7. /\ p \in Pages /\ p.step = step /\ p.signed = signed /\ p.outcome = "none"
          /\ p.required = page.required /\ p.info = page.info /\ p.rule = page.rule
          BY <1>0, <2>1, <3>3, <3>4 DEF Pages
    <3>8. page.required = 1 => Cardinality(signed) = 1
          BY <3>5, OneKey
    <3> HIDE DEF p
    <3>9. Asked(p)
          BY <2>1, <3>7 DEF Asked
    <3>10. CeremonyOK(p)
      <4>1. CASE step = "ceremony"
            BY <2>2, <3>3, <3>4, <3>6, <3>7, <3>8, <3>9, <4>1 DEF CeremonyOK
      <4>2. CASE step = "enforce"
            BY <2>2, <3>3, <3>4, <3>5, <3>6, <3>7, <3>9, <4>2 DEF CeremonyOK
      <4>3. CASE step \in {"submit", "signed"}
            BY <3>7, <4>3 DEF CeremonyOK
      <4> QED BY <3>4, <4>1, <4>2, <4>3
    <3> QED BY <2>1, <3>1, <3>4, <3>7, <3>10, PageMoves DEF Unsent
  <2>5. PICK k \in allowed :
          Become(IF k \notin remaining THEN retryable("not_remaining")
                 ELSE LET signed == page.signed \cup {k}
                      IN  [page EXCEPT !.signed = signed,
                                       !.step = IF Cardinality(signed) < page.required THEN "ceremony"
                                                ELSE CASE page.request = "tx" -> "enforce"
                                                       [] page.request = "own" -> "submit"
                                                       [] page.request = "entry" -> "signed"])
        BY <1>1 DEF runAssertionCeremony
  <2>6. CASE k \notin remaining
        BY <2>3, <2>5, <2>6
  <2>7. CASE k \in remaining
        BY <2>4, <2>5, <2>7
  <2> QED BY <2>6, <2>7
<1>2. CASE FinalSimulation \/ FinalSimulationFails
  <2>1. page.step = "enforce"
        BY <1>2 DEF FinalSimulation, FinalSimulationFails, At
  <2> DEFINE p == [page EXCEPT !.step = "submit"]
  <2>2. Become(p) \/ Become(retryable("refused")) \/ Become(retryable("failed"))
        BY <1>2 DEF FinalSimulation, FinalSimulationFails
  <2>3. p \in Pages /\ p.step = "submit"
        BY <1>0 DEF Pages
  <2> HIDE DEF p
  <2>4. CeremonyOK(p)
        BY <2>3 DEF CeremonyOK
  <2>5. CASE Become(p)
        BY <2>1, <2>3, <2>4, <2>5, PageMoves DEF Unsent
  <2>6. CASE Become(retryable("refused")) \/ Become(retryable("failed"))
        BY <1>0, <2>1, <2>6, RetryableOK, PageMoves DEF Unsent
  <2> QED BY <2>2, <2>5, <2>6
<1> QED BY <1>1, <1>2 DEF Sign

(* The submissions of a request, in order: one more, which is under way. *)
LEMMA SentIsLast ==
  ASSUME SignTypeOK
  PROVE  /\ page.rule \in 0..1 \cup {None} => sent \in Seq(Txs)
         /\ Len(sent) = Len(txs) + 1 /\ sent # <<>> /\ DOMAIN sent = DOMAIN txs \cup {Len(sent)}
         /\ \A i \in DOMAIN txs : sent[i] = txs[i] /\ i # Len(sent)
<1> DEFINE tx == [rule |-> page.rule, signed |-> page.signed, state |-> "sent"]
<1>1. txs \in Seq(Txs) /\ page \in Pages
      BY DEF SignTypeOK
<1>2. sent = Append(txs, tx) /\ tx \in Txs
      BY <1>1 DEF sent, Txs, Pages
<1> HIDE DEF tx
<1> QED BY <1>1, <1>2

LEMMA SubmitKeeps ==
  ASSUME SignTypeOK, SignOK, Submit
  PROVE  SignTypeOK' /\ SignOK'
<1>0. /\ page \in Pages /\ rules \in PossibleRules /\ changes \in 0..MaxChanges /\ lost \in BOOLEAN
      /\ page.rule \in 0..1 \cup {None} /\ page.step = "submit"
      /\ ~lost => \A i \in DOMAIN txs : txs[i].state = "failed"
      BY DEF SignTypeOK, SignOK, Sighted, Pages, Submit, submitSorobanTransaction, AnswerLost,
             SubmissionRefused, At
<1>1. CASE submitSorobanTransaction
  <2> DEFINE p == [page EXCEPT !.step = "wait"]
  <2>1. txs' = sent /\ page' = p /\ UNCHANGED <<rules, changes, lost>>
        BY <1>1 DEF submitSorobanTransaction, chain
  <2>2. p \in Pages /\ p.step = "wait"
        BY <1>0 DEF Pages
  <2> HIDE DEF p
  <2>3. SignTypeOK'
        BY <1>0, <2>1, <2>2, SentIsLast DEF SignTypeOK
  <2>4. ~lost' => Sighted(page', txs')
        BY <1>0, <2>1, <2>2, SentIsLast DEF Sighted
  <2>5. CeremonyOK(page') /\ txs' # <<>>
        BY <2>1, <2>2, SentIsLast DEF CeremonyOK
  <2> QED BY <2>1, <2>2, <2>3, <2>4, <2>5 DEF SignOK, At
<1>2. CASE AnswerLost
  <2>1. txs' = sent /\ page' = retryable("failed") /\ lost' = TRUE /\ UNCHANGED <<rules, changes>>
        BY <1>2 DEF AnswerLost, chain
  <2>2. /\ retryable("failed") \in Pages /\ CeremonyOK(retryable("failed"))
        /\ retryable("failed").step = "review"
        BY <1>0, RetryableOK
  <2>3. SignTypeOK'
        BY <1>0, <2>1, <2>2, SentIsLast DEF SignTypeOK
  <2> QED BY <2>1, <2>2, <2>3 DEF SignOK, At
<1>3. CASE SubmissionRefused
      BY <1>0, <1>3, RetryableOK, PageMoves DEF SubmissionRefused, Unsent
<1> QED BY <1>1, <1>2, <1>3 DEF Submit

LEMMA WaitKeeps ==
  ASSUME SignTypeOK, SignOK, Wait
  PROVE  SignTypeOK' /\ SignOK'
<1>0. /\ page \in Pages /\ rules \in PossibleRules /\ changes \in 0..MaxChanges /\ lost \in BOOLEAN
      /\ txs \in Seq(Txs) /\ page.step = "wait" /\ txs # <<>>
      /\ ~lost => \A i \in DOMAIN txs : i # Len(txs) => txs[i].state = "failed"
      BY DEF SignTypeOK, SignOK, Sighted, Wait, waitForConfirmation, classicPollsRunOut, At
<1>1. /\ retryable("failed") \in Pages /\ CeremonyOK(retryable("failed"))
      /\ retryable("failed").step = "review"
      BY <1>0, RetryableOK
<1>2. Len(txs) \in DOMAIN txs /\ mine = txs[Len(txs)]
      BY <1>0 DEF mine
<1>3. ASSUME mine.state = "landed", Become([page EXCEPT !.step = "done"])
      PROVE  SignTypeOK' /\ SignOK'
  <2> DEFINE p == [page EXCEPT !.step = "done"]
  <2>1. page' = p /\ UNCHANGED <<rules, changes, txs, lost>>
        BY <1>3 DEF Become, chain
  <2>2. p \in Pages /\ p.step = "done"
        BY <1>0 DEF Pages
  <2> HIDE DEF p
  <2>3. Len(txs) \in landed'
        BY <1>2, <1>3, <2>1 DEF landed
  <2>4. SignTypeOK' /\ CeremonyOK(page')
        BY <1>0, <2>1, <2>2 DEF SignTypeOK, CeremonyOK
  <2> QED BY <1>0, <2>1, <2>2, <2>3, <2>4 DEF SignOK, Sighted, At
<1>4. ASSUME mine.state = "failed", Become(retryable("failed"))
      PROVE  SignTypeOK' /\ SignOK'
  <2>1. page' = retryable("failed") /\ UNCHANGED <<rules, changes, txs, lost>>
        BY <1>4 DEF Become, chain
  <2>2. ~lost => \A i \in DOMAIN txs : txs[i].state = "failed"
        BY <1>0, <1>2, <1>4
  <2>3. SignTypeOK'
        BY <1>0, <1>1, <2>1 DEF SignTypeOK
  <2> QED BY <1>1, <2>1, <2>2, <2>3 DEF SignOK, Sighted, At
<1>5. ASSUME Become(timedOut)
      PROVE  SignTypeOK' /\ SignOK'
  <2> DEFINE p == [page EXCEPT !.step = "unknown"]
  <2>1. page' = p /\ UNCHANGED <<rules, changes, txs, lost>>
        BY <1>5 DEF Become, chain, timedOut
  <2>2. p \in Pages /\ p.step = "unknown"
        BY <1>0 DEF Pages
  <2> HIDE DEF p
  <2>3. SignTypeOK' /\ CeremonyOK(page')
        BY <1>0, <2>1, <2>2 DEF SignTypeOK, CeremonyOK
  <2> QED BY <1>0, <2>1, <2>2, <2>3 DEF SignOK, Sighted, At
<1>6. CASE classicPollsRunOut
  <2>1. page' = retryable("failed") /\ lost' = TRUE /\ UNCHANGED <<rules, changes, txs>>
        BY <1>6 DEF classicPollsRunOut, chain
  <2>2. SignTypeOK'
        BY <1>0, <1>1, <2>1 DEF SignTypeOK
  <2> QED BY <1>1, <2>1, <2>2 DEF SignOK, At
<1> QED BY <1>3, <1>4, <1>5, <1>6 DEF Wait, waitForConfirmation

(* What failed or landed stays so. *)
LEMMA ChainKeeps ==
  ASSUME SignTypeOK, SignOK, Chain
  PROVE  /\ SignTypeOK' /\ SignOK' /\ page' = page /\ lost' = lost /\ landed \subseteq landed'
         /\ AllFailed => AllFailed'
<1>0. /\ page \in Pages /\ rules \in PossibleRules /\ changes \in 0..MaxChanges /\ lost \in BOOLEAN
      /\ txs \in Seq(Txs) /\ CeremonyOK(page) /\ MaxChanges \in Nat
      BY SignAssumption DEF SignTypeOK, SignOK, SignAssumption
<1>1. CASE Change
  <2>1. /\ UNCHANGED <<page, txs, lost>> /\ rules' \in PossibleRules /\ changes' = changes + 1
        /\ changes < MaxChanges
        BY <1>1 DEF Change
  <2>2. SignTypeOK'
        BY <1>0, <2>1 DEF SignTypeOK
  <2> QED BY <2>1, <2>2 DEF SignOK, At, landed, AllFailed, Sighted
<1>2. ASSUME NEW i \in DOMAIN txs, Lands(i)
      PROVE  /\ SignTypeOK' /\ SignOK' /\ page' = page /\ lost' = lost /\ landed \subseteq landed'
             /\ AllFailed => AllFailed'
  <2>1. PICK s \in {"failed", "landed"} : txs' = [txs EXCEPT ![i] = settled(s)]
        BY <1>2 DEF Lands
  <2>2. txs[i].state = "sent" /\ UNCHANGED <<rules, changes, page, lost>>
        BY <1>2 DEF Lands, chain
  <2>3. settled(s) \in Txs /\ settled(s).state = s
        BY DEF settled, Txs
  <2>4. /\ txs' \in Seq(Txs) /\ Len(txs') = Len(txs) /\ DOMAIN txs' = DOMAIN txs
        /\ \A n \in DOMAIN txs : n # i => txs'[n] = txs[n]
        /\ Len(txs) = 0 <=> txs = <<>>
        /\ Len(txs') = 0 <=> txs' = <<>>
        BY <1>0, <2>1, <2>3
  <2>5. SignTypeOK'
        BY <1>0, <2>2, <2>4 DEF SignTypeOK
  <2>6. landed \subseteq landed' /\ ~AllFailed
        BY <2>2, <2>4 DEF landed, AllFailed
  <2>7. ~lost => Sighted(page, txs')
    <3>1. ~lost => Sighted(page, txs)
          BY DEF SignOK
    <3> QED BY <2>2, <2>4, <3>1 DEF Sighted
  <2> QED BY <1>0, <2>2, <2>4, <2>5, <2>6, <2>7 DEF SignOK, At
<1> QED BY <1>1, <1>2 DEF Chain

LEMMA SignStep ==
  ASSUME SignTypeOK, SignOK, Read \/ Sign \/ Submit \/ Wait
  PROVE  SignTypeOK' /\ SignOK' /\ page # NoPage
<1>1. page.step # "closed"
      BY DEF Read, Sign, Submit, Wait, approve, Resolve, signMessageRaw, Preflight, PreflightUnread,
             Simulate, Fails, runAssertionCeremony, FinalSimulation, FinalSimulationFails,
             submitSorobanTransaction, AnswerLost, SubmissionRefused, waitForConfirmation,
             classicPollsRunOut, At
<1> QED BY <1>1, ReadKeeps, CeremonyKeeps, SubmitKeeps, WaitKeeps, NoPageOK

-----------------------------------------------------------------------------
(* The kit.                                                                *)

LEMMA LandedOnce ==
  ASSUME SignTypeOK, SignOK, ~lost
  PROVE  Cardinality(landed) <= 1
<1>1. landed \subseteq {Len(txs)}
      BY DEF landed, SignOK, Sighted
<1>2. Cardinality({Len(txs)}) = 1 /\ IsFiniteSet({Len(txs)})
      BY FS_Singleton
<1>3. Cardinality(landed) <= Cardinality({Len(txs)})
      BY <1>1, <1>2, FS_Subset
<1> QED BY <1>2, <1>3

LEMMA LandedCount == SignTypeOK /\ SignOK /\ ~lost => Cardinality(landed) <= 1
BY LandedOnce

LEMMA QuietIsTrue ==
  SignTypeOK /\ SignOK /\ told \notin {"submitted", "cancelled", "switch-account"} => ToldTheTruth
BY LandedOnce DEF ToldTheTruth, SignOK

LEMMA QuietStaysTrue ==
  SignTypeOK' /\ SignOK' /\ told' \notin {"submitted", "cancelled", "switch-account"} => ToldTheTruth'
<1>1. (SignTypeOK /\ SignOK /\ told \notin {"submitted", "cancelled", "switch-account"} => ToldTheTruth)'
      BY QuietIsTrue, PTL
<1> QED BY <1>1

LEMMA NewRequestKeeps ==
  ASSUME SignTypeOK, NEW p \in Pages, CeremonyOK(p), p.step \in {"closed", "review", "no_passkey"},
         NewRequest(p)
  PROVE  SignTypeOK' /\ SignOK' /\ page' = p
<1>1. page' = p /\ txs' = <<>> /\ lost' = FALSE /\ changes' = 0 /\ rules' = rules
      BY DEF NewRequest
<1>2. SignTypeOK'
  <2>1. MaxChanges \in Nat /\ 0 \in 0..MaxChanges
        BY SignAssumption DEF SignAssumption
  <2>2. <<>> \in Seq(Txs) /\ FALSE \in BOOLEAN
        OBVIOUS
  <2> QED BY <1>1, <2>1, <2>2 DEF SignTypeOK
<1>3. SignOK'
  <2>1. txs' = <<>> /\ DOMAIN txs' = {}
        BY <1>1
  <2>2. Sighted(p, txs')
        BY <2>1 DEF Sighted
  <2>3. p.step # "wait" /\ p.step # "done"
        OBVIOUS
  <2> QED BY <1>1, <2>2, <2>3 DEF SignOK, At
<1> QED BY <1>1, <1>2, <1>3

(* The session moves, beside the wallet's window. *)
LEMMA SessionMoves ==
  ASSUME KitInv, TypeOK', UNCHANGED <<sign_vars, popup, message, told, switched>>,
         app'.promise \in {app.promise, None}, cache' \in {cache, None}
  PROVE  KitInv'
<1>1. UNCHANGED <<page, txs, lost, rules>>
      BY DEF sign_vars, chain
<1>2. SignOK'
      BY <1>1 DEF KitInv, SignOK, Sighted, At, landed
<1>3. AnswerOK'
      BY <1>1 DEF KitInv, AnswerOK, landed, AllFailed
<1>4. SwitchOK'
      BY DEF KitInv, SwitchOK
<1>5. ToldTheTruth'
      BY <1>1 DEF KitInv, ToldTheTruth, landed, At
<1> QED BY <1>2, <1>3, <1>4, <1>5 DEF KitInv

LEMMA PollKeeps ==
  ASSUME KitInv, Poll \/ Reload \/ connectExtension \/ Disconnect
  PROVE  KitInv'
<1>0. /\ stored \in [id: Wallets, address: Accounts \cup {Extension, None}, network: BOOLEAN]
      /\ app \in [address: Accounts \cup {Extension, None}, selected: Wallets,
                  poll: {"extension", None}, promise: {"connect", "sign", None}]
      /\ cache \in Accounts \cup {None}
      BY DEF KitInv, TypeOK
<1>1. ASSUME stored' \in [id: Wallets, address: Accounts \cup {Extension, None}, network: BOOLEAN],
             app' \in [address: Accounts \cup {Extension, None}, selected: Wallets,
                       poll: {"extension", None}, promise: {"connect", "sign", None}],
             cache' \in {cache, None}, wanted' \in BOOLEAN, app'.promise \in {app.promise, None},
             UNCHANGED <<sign_vars, device, kit, switched>>
      PROVE  KitInv'
  <2>1. TypeOK'
        BY <1>0, <1>1 DEF KitInv, TypeOK, SignTypeOK, sign_vars, chain, kit
  <2> QED BY <1>1, <2>1, SessionMoves DEF kit
<1>2. SignedOut \in [id: Wallets, address: Accounts \cup {Extension, None}, network: BOOLEAN]
      BY DEF SignedOut, Wallets
<1>3. ASSUME PollBegin \/ PollEnd PROVE KitInv'
  <2>1. UNCHANGED <<sign_vars, device, cache, kit, wanted, switched>>
        BY <1>3 DEF PollBegin, PollEnd, history
  <2>2. stored' \in [id: Wallets, address: Accounts \cup {Extension, None}, network: BOOLEAN]
    <3>1. stored' \in {stored, [stored EXCEPT !.network = TRUE], SignedOut, refreshed, [stored EXCEPT !.id = None]}
          BY <1>3 DEF PollBegin, PollEnd, PollNido, PollExtension, nullify
    <3> QED BY <1>0, <1>2, <3>1 DEF refreshed, Wallets
  <2>3. /\ app' \in [address: Accounts \cup {Extension, None}, selected: Wallets,
                     poll: {"extension", None}, promise: {"connect", "sign", None}]
        /\ app'.promise = app.promise
        BY <1>0, <1>3 DEF PollBegin, PollEnd, PollNido, PollExtension, nullify, Wallets
  <2> QED BY <1>1, <2>1, <2>2, <2>3, <1>0 DEF KitInv, TypeOK
<1>4. ASSUME Reload PROVE KitInv'
  <2>1. app' = Fresh /\ UNCHANGED <<sign_vars, device, stored, cache, kit, wanted, switched>>
        BY <1>4 DEF Reload, session, history
  <2> QED BY <1>0, <1>1, <2>1 DEF Fresh, Wallets, KitInv, TypeOK
<1>5. ASSUME connectExtension PROVE KitInv'
  <2>1. /\ stored' = [stored EXCEPT !.id = "extension", !.address = Extension] /\ wanted' = TRUE
        /\ app' = [app EXCEPT !.selected = "extension"]
        /\ UNCHANGED <<sign_vars, device, cache, kit, switched>>
        BY <1>5 DEF connectExtension, connected
  <2> QED BY <1>0, <1>1, <2>1 DEF Wallets
<1>6. ASSUME Disconnect PROVE KitInv'
  <2>1. /\ stored' = [id |-> None, address |-> None, network |-> FALSE] /\ wanted' = FALSE
        /\ cache' \in {cache, None} /\ UNCHANGED <<sign_vars, device, app, kit, switched>>
        BY <1>6 DEF Disconnect, disconnectWallet
  <2> QED BY <1>0, <1>1, <2>1 DEF Wallets
<1> QED BY <1>3, <1>4, <1>5, <1>6 DEF Poll

(* A new ceremony: the window and its page begin again. *)
LEMMA OpeningKeeps ==
  ASSUME KitInv, getAddress \/ (\E r \in {"tx", "entry"} : signTransaction(r)) \/ OwnAction
  PROVE  KitInv'
<1>0. /\ TypeOK /\ SignTypeOK /\ SwitchOK /\ cache \in Accounts \cup {None}
      /\ app \in [address: Accounts \cup {Extension, None}, selected: Wallets,
                  poll: {"extension", None}, promise: {"connect", "sign", None}]
      BY DEF KitInv, TypeOK
<1>1. ASSUME NEW p \in [page: {"closed", "picker", "sign"}] \cup [page: {"connect"}, previous: Accounts \cup {None}],
             NEW s \in Pages, CeremonyOK(s), s.step \in {"closed", "review", "no_passkey"},
             p.page = "connect" => p.previous = cache,
             popup' = p, message' = None, NewRequest(s), told' = "none",
             app' \in [address: Accounts \cup {Extension, None}, selected: Wallets,
                       poll: {"extension", None}, promise: {"connect", "sign", None}],
             UNCHANGED <<session, history>>
      PROVE  KitInv'
  <2>1. SignTypeOK' /\ SignOK'
        BY <1>0, <1>1, NewRequestKeeps
  <2>2. TypeOK'
        BY <1>0, <1>1, <2>1 DEF TypeOK, session, history
  <2>3. AnswerOK'
        BY <1>1 DEF AnswerOK
  <2>4. SwitchOK'
        BY <1>0, <1>1 DEF SwitchOK, session, history
  <2>5. ToldTheTruth'
        BY <1>1, <2>1, QuietStaysTrue
  <2> QED BY <2>1, <2>2, <2>3, <2>4, <2>5 DEF KitInv
<1>2. ASSUME NEW p \in [page: {"closed", "picker", "sign"}] \cup [page: {"connect"}, previous: Accounts \cup {None}],
             NEW s \in Pages, CeremonyOK(s), s.step \in {"closed", "review", "no_passkey"},
             p.page = "connect" => p.previous = cache, NEW wait \in {"connect", "sign"},
             openCeremonyPopup(p, wait, s), UNCHANGED <<session, history>>
      PROVE  KitInv'
  <2>1. app' = [app EXCEPT !.promise = wait, !.selected = "nido"]
        BY <1>2 DEF openCeremonyPopup
  <2>2. app' \in [address: Accounts \cup {Extension, None}, selected: Wallets,
                  poll: {"extension", None}, promise: {"connect", "sign", None}]
        BY <1>0, <2>1 DEF Wallets
  <2> QED BY <1>1, <1>2, <2>2 DEF openCeremonyPopup
<1>3. ASSUME getAddress PROVE KitInv'
  <2> DEFINE p == [page |-> "connect", previous |-> cache]
  <2>1. p \in [page: {"connect"}, previous: Accounts \cup {None}] /\ p.page = "connect" /\ p.previous = cache
        BY <1>0
  <2>2. openCeremonyPopup(p, "connect", NoPage) /\ UNCHANGED <<session, history>>
        BY <1>3 DEF getAddress
  <2> HIDE DEF p
  <2> QED BY <1>2, <2>1, <2>2, NoPageOK
<1>4. ASSUME NEW r \in {"tx", "entry"}, signTransaction(r) PROVE KitInv'
  <2> DEFINE p == [page |-> "sign"]
             s == opened(r, app.address \in Registered)
  <2>1. p \in [page: {"closed", "picker", "sign"}] /\ p.page # "connect"
        OBVIOUS
  <2>2. s \in Pages /\ CeremonyOK(s) /\ s.step \in {"review", "no_passkey"}
    <3>1. (app.address \in Registered) \in BOOLEAN
          OBVIOUS
    <3> QED BY <3>1, OpenedOK
  <2>3. openCeremonyPopup(p, "sign", s) /\ UNCHANGED <<session, history>>
        BY <1>4 DEF signTransaction
  <2> HIDE DEF p, s
  <2> QED BY <1>2, <2>1, <2>2, <2>3
<1>5. ASSUME OwnAction PROVE KitInv'
  <2> DEFINE s == opened("own", TRUE)
  <2>1. s \in Pages /\ CeremonyOK(s) /\ s.step \in {"review", "no_passkey"}
        BY OpenedOK
  <2>2. /\ popup' = Closed /\ message' = None /\ NewRequest(s) /\ told' = "none" /\ app' = app
        /\ UNCHANGED <<session, history>>
        BY <1>5 DEF OwnAction
  <2>3. Closed \in [page: {"closed", "picker", "sign"}] /\ Closed.page # "connect"
        BY DEF Closed
  <2> HIDE DEF s
  <2> QED BY <1>0, <1>1, <2>1, <2>2, <2>3
<1> QED BY <1>3, <1>4, <1>5

(* The window closes with an answer, for which nothing was told yet. *)
LEMMA PostKeeps ==
  ASSUME KitInv, NEW m \in Answers, post(m), popup # Closed, device' = device, wanted' = wanted, switched' \in BOOLEAN,
         m.from = "sign" /\ m.result = "submitted" => landed # {},
         m.from = "sign" /\ m.result \in {"cancelled", "switch-account"} /\ ~lost => AllFailed,
         m.from = "connect" /\ m.result = "ok" => ~switched',
         switched' => switched
  PROVE  KitInv'
<1>0. /\ TypeOK /\ SignOK /\ AnswerOK /\ SwitchOK /\ told = "none" /\ lost \in BOOLEAN
      BY DEF KitInv, AnswerOK, TypeOK, SignTypeOK
<1>1. /\ message' = m /\ popup' = Closed /\ page' = NoPage
      /\ UNCHANGED <<rules, changes, txs, lost, stored, cache, app, told>>
      BY DEF post, chain, session
<1>2. SignTypeOK'
      BY <1>0, <1>1, NoPageOK DEF TypeOK, SignTypeOK
<1>3. SignOK'
      BY <1>0, <1>1, NoPageOK DEF SignOK, Sighted, At
<1>4. TypeOK'
  <2>1. Closed \in [page: {"closed", "picker", "sign"}]
        BY DEF Closed
  <2> QED BY <1>0, <1>1, <1>2, <2>1 DEF TypeOK
<1>5. AnswerOK'
      BY <1>0, <1>1 DEF AnswerOK, landed, AllFailed
<1>6. SwitchOK'
      BY <1>0, <1>1 DEF SwitchOK, Closed
<1>7. ToldTheTruth'
      BY <1>0, <1>1, <1>2, <1>3, QuietStaysTrue
<1> QED BY <1>3, <1>4, <1>5, <1>6, <1>7 DEF KitInv

LEMMA PickerKeeps ==
  ASSUME KitInv, PickerLoads \/ PickerAnswers
  PROVE  KitInv' /\ (popup.page = "connect" /\ popup'.page = "closed" => ~switched)
<1>0. /\ TypeOK /\ AnswerOK /\ SwitchOK /\ device \subseteq Accounts /\ switched \in BOOLEAN
      BY DEF KitInv, TypeOK
<1>1. ASSUME NEW a \in Accounts \cup {None}, NEW result \in {"ok", "cancelled"}
      PROVE  /\ Answer("connect", result, a) \in Answers /\ Answer("connect", result, a).from = "connect"
             /\ Answer("connect", result, a).result = result
      BY DEF Answer, Answers
<1>2. ASSUME PickerLoads, fastPath
      PROVE  KitInv' /\ ~switched
  <2> DEFINE m == Answer("connect", "ok", popup.previous)
  <2>1. post(m) /\ UNCHANGED <<wanted, switched>> /\ popup.page = "connect"
        BY <1>2 DEF PickerLoads, history
  <2>2. popup.previous # None /\ device = {popup.previous}
        BY <1>2 DEF fastPath
  <2>3. device' = device
        BY <1>2, <2>1 DEF PickerLoads, post, session
  <2>4. ~switched /\ popup # Closed
        BY <1>0, <2>1, <2>2 DEF SwitchOK, Closed
  <2>5. m \in Answers /\ m.from = "connect"
        BY <1>0, <1>1, <2>2
  <2> HIDE DEF m
  <2> QED BY <1>0, <2>1, <2>3, <2>4, <2>5, PostKeeps
<1>3. ASSUME PickerLoads, ~fastPath
      PROVE  KitInv' /\ popup'.page # "closed"
  <2>1. /\ popup' = [page |-> "picker"] /\ popup.page = "connect"
        /\ UNCHANGED <<sign_vars, session, app, message, told, history>>
        BY <1>3 DEF PickerLoads
  <2>2. UNCHANGED <<rules, changes, page, txs, lost, device, stored, cache, app, message, told, wanted, switched>>
        BY <2>1 DEF sign_vars, chain, session, history
  <2>3. TypeOK'
        BY <1>0, <2>1, <2>2 DEF TypeOK, SignTypeOK
  <2>4. SignOK' /\ ToldTheTruth'
        BY <2>2 DEF KitInv, SignOK, Sighted, At, landed, ToldTheTruth
  <2>5. AnswerOK'
    <3>1. popup # Closed
          BY <2>1 DEF Closed
    <3> QED BY <1>0, <2>2, <3>1 DEF AnswerOK, landed, AllFailed
  <2>6. SwitchOK'
        BY <1>0, <2>1, <2>2 DEF SwitchOK
  <2> QED BY <2>1, <2>3, <2>4, <2>5, <2>6 DEF KitInv
<1>4. ASSUME PickerAnswers
      PROVE  KitInv' /\ popup.page # "connect"
  <2>1. popup.page = "picker" /\ wanted' = wanted /\ popup # Closed
        BY <1>4 DEF PickerAnswers, Closed
  <2>2. ASSUME NEW a \in device, post(Answer("connect", "ok", a)), switched' = FALSE
        PROVE  KitInv'
    <3> DEFINE m == Answer("connect", "ok", a)
    <3>1. m \in Answers /\ m.from = "connect" /\ post(m)
          BY <1>0, <1>1, <2>2
    <3>2. device' = device
          BY <3>1 DEF post, session
    <3> HIDE DEF m
    <3> QED BY <2>1, <2>2, <3>1, <3>2, PostKeeps
  <2>3. ASSUME post(Answer("connect", "cancelled", None)), UNCHANGED switched
        PROVE  KitInv'
    <3> DEFINE m == Answer("connect", "cancelled", None)
    <3>1. m \in Answers /\ m.from = "connect" /\ m.result = "cancelled" /\ post(m)
          BY <1>0, <1>1, <2>3
    <3>2. device' = device
          BY <3>1 DEF post, session
    <3> HIDE DEF m
    <3> QED BY <1>0, <2>1, <2>3, <3>1, <3>2, PostKeeps
  <2> QED BY <1>4, <2>1, <2>2, <2>3 DEF PickerAnswers
<1> QED BY <1>2, <1>3, <1>4

LEMMA SignAnswersKeeps ==
  ASSUME KitInv, SignAnswers
  PROVE  KitInv' /\ popup.page # "connect"
<1>0. SignOK /\ switched \in BOOLEAN /\ page \in Pages /\ SwitchOK
      BY DEF KitInv, TypeOK, SignTypeOK
<1>1. PICK result \in {"submitted", "signed", "cancelled", "switch-account"} :
        /\ finish(result)
        /\ result = "submitted" => At("done")
        /\ result \in {"cancelled", "switch-account"} => page.step \in {"review", "no_passkey"}
      BY DEF SignAnswers
<1> DEFINE m == Answer("sign", result, None)
<1>2. popup.page = "sign" /\ popup # Closed /\ post(m) /\ UNCHANGED <<wanted, switched>>
      BY <1>1 DEF finish, Closed, history
<1>3. m \in Answers /\ m.from = "sign" /\ m.result = result
      BY DEF Answer, Answers
<1>4. device' = device
      BY <1>2 DEF post, session
<1> HIDE DEF m
<1>5. result = "submitted" => landed # {}
      BY <1>0, <1>1 DEF SignOK
<1>6. result \in {"cancelled", "switch-account"} /\ ~lost => AllFailed
      BY <1>0, <1>1 DEF SignOK, Sighted, AllFailed
<1> QED BY <1>0, <1>2, <1>3, <1>4, <1>5, <1>6, PostKeeps

(* What is told is what the answer says, which the chain bears out. *)
LEMMA ReceiveKeeps ==
  ASSUME KitInv, Receive
  PROVE  KitInv'
<1>0. /\ TypeOK /\ SignTypeOK /\ SignOK /\ AnswerOK /\ SwitchOK /\ lost \in BOOLEAN
      /\ message \in Answers /\ message # None /\ page = NoPage /\ popup = Closed /\ told = "none"
      /\ cache \in Accounts \cup {None} /\ wanted \in BOOLEAN /\ switched \in BOOLEAN
      /\ stored \in [id: Wallets, address: Accounts \cup {Extension, None}, network: BOOLEAN]
      /\ app \in [address: Accounts \cup {Extension, None}, selected: Wallets,
                  poll: {"extension", None}, promise: {"connect", "sign", None}]
  <2>1. message # None
        BY DEF Receive
  <2>2. TypeOK /\ SignTypeOK /\ SignOK /\ AnswerOK /\ SwitchOK /\ message \in Answers
        BY <2>1 DEF KitInv, TypeOK
  <2>3. page = NoPage /\ popup = Closed /\ told = "none"
        BY <2>1, <2>2 DEF AnswerOK
  <2>4. lost \in BOOLEAN
        BY <2>2 DEF SignTypeOK
  <2> QED BY <2>1, <2>2, <2>3, <2>4 DEF TypeOK
<1>1. message' = None /\ UNCHANGED <<rules, changes, page, txs, lost, device, popup>>
      BY DEF Receive, sign_vars, chain
<1>2. SignTypeOK' /\ SignOK'
      BY <1>0, <1>1 DEF SignTypeOK, SignOK, Sighted, At, landed
<1>3. ~lost => Cardinality(landed) <= 1
      BY <1>0, LandedOnce
<1>4. ~At("done")
      BY <1>0, NoPageOK DEF At
<1> DEFINE apps == [address: Accounts \cup {Extension, None}, selected: Wallets,
                    poll: {"extension", None}, promise: {"connect", "sign", None}]
           sessions == [id: Wallets, address: Accounts \cup {Extension, None}, network: BOOLEAN]
(* Whatever becomes of the answer, this is what is left to show. *)
<1>5. ASSUME app' \in apps, stored' \in sessions, cache' \in Accounts \cup {None},
             wanted' \in BOOLEAN, switched' \in BOOLEAN,
             told' \in {"none", "submitted", "signed", "cancelled", "switch-account"},
             told' # "none" => app'.promise = None,
             told' = "submitted" => landed # {},
             told' \in {"cancelled", "switch-account"} /\ ~lost => AllFailed,
             switched' => cache' = None
      PROVE  KitInv'
  <2>1. TypeOK'
        BY <1>0, <1>1, <1>2, <1>5 DEF TypeOK
  <2>2. AnswerOK'
        BY <1>0, <1>1, <1>5 DEF AnswerOK
  <2>3. SwitchOK'
        BY <1>0, <1>1, <1>5 DEF SwitchOK, Closed
  <2>4. ToldTheTruth'
    <3>1. landed' = landed /\ ~At("done")' /\ (AllFailed' <=> AllFailed)
          BY <1>0, <1>1, <1>4 DEF landed, At, AllFailed
    <3>2. ToldTheTruth' <=>
            /\ told' = "submitted" \/ At("done")' => landed' # {}
            /\ told' \in {"cancelled", "switch-account"} /\ ~lost' => AllFailed'
            /\ Cardinality(landed') <= 1 \/ lost'
          BY DEF ToldTheTruth, AllFailed
    <3> QED BY <1>0, <1>1, <1>3, <1>5, <3>1, <3>2
  <2> QED BY <1>2, <2>1, <2>2, <2>3, <2>4 DEF KitInv
<1>6. CASE app.promise # message.from
  <2>1. UNCHANGED <<app, stored, cache, told, wanted, switched>>
        BY <1>6 DEF Receive, history
  <2> QED BY <1>0, <1>5, <2>1 DEF SwitchOK
<1>7. CASE app.promise = message.from
  <2>1. app' = [app EXCEPT !.promise = None]
        BY <1>7 DEF Receive
  <2>2. app' \in apps /\ app'.promise = None
        BY <1>0, <2>1
  <2>3. /\ message.result \in {"ok", "cancelled", "switch-account", "submitted", "signed"}
        /\ message.account \in Accounts \cup {None} /\ message.from \in {"connect", "sign"}
        BY <1>0 DEF Answers
  <2>4. CASE message.from = "sign"
    <3>1. parseSignReturn(message.result)
          BY <1>7, <2>4 DEF Receive
    <3>2. told' = message.result
          BY <3>1 DEF parseSignReturn
    <3>3. /\ told' = "submitted" => landed # {}
          /\ told' \in {"cancelled", "switch-account"} /\ ~lost => AllFailed
          BY <1>0, <2>4, <3>2 DEF AnswerOK
    <3>4. CASE message.result = "switch-account"
      <4>1. /\ cache' = None /\ switched' = TRUE /\ wanted' = FALSE
            /\ stored' = [id |-> None, address |-> None, network |-> FALSE]
            BY <3>1, <3>4 DEF parseSignReturn, disconnectWallet, switch_account
      <4>2. stored' \in sessions
            BY <4>1 DEF Wallets
      <4> QED BY <1>5, <2>2, <2>3, <3>2, <3>3, <3>4, <4>1, <4>2
    <3>5. CASE message.result # "switch-account"
      <4>1. UNCHANGED <<stored, cache, wanted, switched>>
            BY <3>1, <3>5 DEF parseSignReturn, history
      <4>2. message.result # "ok"
            BY <1>0, <2>4 DEF Answers
      <4> QED BY <1>0, <1>5, <2>2, <2>3, <3>2, <3>3, <4>1, <4>2 DEF SwitchOK
    <3> QED BY <3>4, <3>5
  <2>5. CASE message.from = "connect"
    <3>1. parseConnectReturn(message)
          BY <1>7, <2>5 DEF Receive
    <3>2. UNCHANGED <<told, switched>>
          BY <3>1 DEF parseConnectReturn
    <3>3. CASE message.result = "ok"
      <4>1. /\ cache' = message.account /\ wanted' = TRUE /\ ~switched
            /\ stored' = [stored EXCEPT !.id = "nido", !.address = message.account]
            BY <1>0, <2>5, <3>1, <3>3 DEF parseConnectReturn, connected, SwitchOK
      <4>2. stored' \in sessions
            BY <1>0, <2>3, <4>1 DEF Wallets
      <4> QED BY <1>0, <1>5, <2>2, <2>3, <3>2, <4>1, <4>2
    <3>4. CASE message.result # "ok"
      <4>1. UNCHANGED <<stored, cache, wanted>>
            BY <3>1, <3>4 DEF parseConnectReturn
      <4> QED BY <1>0, <1>5, <2>2, <3>2, <4>1 DEF SwitchOK
    <3> QED BY <3>3, <3>4
  <2> QED BY <2>3, <2>4, <2>5
<1> QED BY <1>6, <1>7

(* The request ends without an answer, or the page begins again. *)
LEMMA EndKeeps ==
  ASSUME KitInv, GiveUp \/ Leave \/ Reopen
  PROVE  KitInv' /\ (popup'.page = "closed" /\ popup # popup' => message' = None)
<1>0. /\ TypeOK /\ SignTypeOK /\ SignOK /\ AnswerOK /\ SwitchOK /\ told = "none"
      BY DEF KitInv, TypeOK, AnswerOK, GiveUp, Leave, Reopen
<1>1. Closed \in [page: {"closed", "picker", "sign"}] /\ Closed.page # "connect"
      BY DEF Closed
<1>2. ASSUME GiveUp \/ Leave PROVE KitInv' /\ message' = None
  <2>1. NewRequest(NoPage) /\ popup' = Closed /\ UNCHANGED <<device, stored, cache, wanted, switched>>
        BY <1>2 DEF GiveUp, Leave, session, history
  <2>2. SignTypeOK' /\ SignOK' /\ page' = NoPage
        BY <1>0, <2>1, NewRequestKeeps, NoPageOK
  <2>3. message' = None
        BY <1>0, <1>2 DEF GiveUp, Leave, AnswerOK
  <2>4. told' \in {"none", "no_answer"} /\ (app'.promise # None => told' = "none")
    <3>1. CASE GiveUp
      <4>1. app'.promise = None
            BY <1>0, <3>1 DEF GiveUp, TypeOK
      <4> QED BY <1>0, <3>1, <4>1 DEF GiveUp
    <3>2. CASE Leave
          BY <1>0, <3>2 DEF Leave
    <3> QED BY <1>2, <3>1, <3>2
  <2>5. app' \in [address: Accounts \cup {Extension, None}, selected: Wallets,
                  poll: {"extension", None}, promise: {"connect", "sign", None}]
        BY <1>0, <1>2 DEF GiveUp, Leave, TypeOK
  <2>6. TypeOK'
        BY <1>0, <1>1, <2>1, <2>2, <2>3, <2>4, <2>5 DEF TypeOK
  <2>7. AnswerOK' /\ SwitchOK'
        BY <1>0, <1>1, <2>1, <2>2, <2>3, <2>4 DEF AnswerOK, SwitchOK
  <2>8. ToldTheTruth'
        BY <2>2, <2>4, QuietStaysTrue
  <2> QED BY <2>2, <2>3, <2>6, <2>7, <2>8 DEF KitInv
<1>3. ASSUME Reopen PROVE KitInv' /\ popup' = popup
  <2> DEFINE p == opened(page.request, TRUE)
  <2>1. /\ page' = p /\ lost' = TRUE /\ page # NoPage
        /\ UNCHANGED <<rules, changes, txs, device, stored, cache, app, popup, message, told, wanted, switched>>
        BY <1>3 DEF Reopen, chain, session, kit, history
  <2>2. p \in Pages /\ CeremonyOK(p) /\ p.step \in {"review", "no_passkey"}
    <3>1. page.request \in {"tx", "own", "entry"}
          BY <1>0 DEF SignTypeOK, Pages
    <3> QED BY <3>1, OpenedOK
  <2> HIDE DEF p
  <2>3. SignTypeOK' /\ SignOK'
        BY <1>0, <2>1, <2>2 DEF SignTypeOK, SignOK, At
  <2>4. TypeOK'
        BY <1>0, <2>1, <2>3 DEF TypeOK
  <2>5. message = None
        BY <1>0, <2>1 DEF AnswerOK
  <2>6. AnswerOK' /\ SwitchOK'
        BY <1>0, <2>1, <2>5 DEF AnswerOK, SwitchOK
  <2>7. ToldTheTruth'
        BY <1>0, <2>1, <2>3, QuietStaysTrue
  <2> QED BY <2>1, <2>3, <2>4, <2>6, <2>7 DEF KitInv
<1> QED BY <1>2, <1>3

(* While the page works nothing was told; what was told stays true. *)
LEMMA SigningKeeps ==
  ASSUME KitInv, SignNext, UNCHANGED <<session, app, kit, history>>
  PROVE  KitInv'
<1>0. /\ TypeOK /\ SignTypeOK /\ SignOK /\ AnswerOK /\ SwitchOK /\ ToldTheTruth
      /\ UNCHANGED <<device, stored, cache, app, popup, message, told, wanted, switched>>
      BY DEF KitInv, TypeOK, session, kit, history
<1>1. SwitchOK'
      BY <1>0 DEF SwitchOK
<1>2. CASE Read \/ Sign \/ Submit \/ Wait
  <2>1. SignTypeOK' /\ SignOK' /\ page # NoPage
        BY <1>0, <1>2, SignStep
  <2>2. told = "none" /\ message = None
        BY <1>0, <2>1 DEF AnswerOK
  <2>3. TypeOK'
        BY <1>0, <2>1 DEF TypeOK
  <2>4. AnswerOK'
        BY <1>0, <2>2 DEF AnswerOK
  <2>5. ToldTheTruth'
        BY <1>0, <2>1, <2>2, QuietStaysTrue
  <2> QED BY <1>1, <2>1, <2>3, <2>4, <2>5 DEF KitInv
<1>3. CASE Chain
  <2>1. /\ SignTypeOK' /\ SignOK' /\ page' = page /\ lost' = lost /\ landed \subseteq landed'
        /\ AllFailed => AllFailed'
        BY <1>0, <1>3, ChainKeeps
  <2>2. TypeOK'
        BY <1>0, <2>1 DEF TypeOK
  <2>3. AnswerOK'
        BY <1>0, <2>1 DEF AnswerOK
  <2>4. ToldTheTruth'
    <3>1. ~lost' => Cardinality(landed') <= 1
      <4>1. (SignTypeOK /\ SignOK /\ ~lost => Cardinality(landed) <= 1)'
            BY LandedCount, PTL
      <4> QED BY <2>1, <4>1
    <3>2. ToldTheTruth <=>
            /\ told = "submitted" \/ At("done") => landed # {}
            /\ told \in {"cancelled", "switch-account"} /\ ~lost => AllFailed
            /\ Cardinality(landed) <= 1 \/ lost
          BY DEF ToldTheTruth, AllFailed
    <3>3. ToldTheTruth' <=>
            /\ told' = "submitted" \/ At("done")' => landed' # {}
            /\ told' \in {"cancelled", "switch-account"} /\ ~lost' => AllFailed'
            /\ Cardinality(landed') <= 1 \/ lost'
          BY DEF ToldTheTruth, AllFailed
    <3>4. At("done")' = At("done")
          BY <2>1 DEF At
    <3> QED BY <1>0, <2>1, <3>1, <3>2, <3>3, <3>4
  <2> QED BY <1>1, <2>1, <2>2, <2>3, <2>4 DEF KitInv
<1> QED BY <1>2, <1>3 DEF SignNext

-----------------------------------------------------------------------------
LEMMA KitStarts == Init => KitInv
<1> SUFFICES ASSUME Init PROVE KitInv
    OBVIOUS
<1>1. /\ rules \in PossibleRules /\ changes = 0 /\ page = NoPage /\ txs = <<>> /\ lost = FALSE
      /\ stored = [id |-> None, address |-> None, network |-> FALSE]
      /\ cache = None /\ app = Fresh /\ popup = Closed /\ message = None /\ told = "none"
      /\ wanted = FALSE /\ switched = FALSE /\ device \subseteq Accounts
      BY DEF Init, SignInit
<1>2. SignTypeOK
  <2>1. 0 \in 0..MaxChanges
        BY SignAssumption DEF SignAssumption
  <2>2. <<>> \in Seq(Txs)
        OBVIOUS
  <2> QED BY <1>1, <2>1, <2>2, NoPageOK DEF SignTypeOK
<1>3. SignOK
  <2>1. DOMAIN txs = {}
        BY <1>1
  <2> QED BY <1>1, <2>1, NoPageOK DEF SignOK, Sighted, At
<1>4. TypeOK
      BY <1>1, <1>2 DEF TypeOK, Wallets, Fresh, Closed
<1>5. AnswerOK /\ SwitchOK
      BY <1>1 DEF AnswerOK, SwitchOK, Closed, Fresh
<1> QED BY <1>1, <1>2, <1>3, <1>4, <1>5, QuietIsTrue DEF KitInv

LEMMA KitStep == KitInv /\ [Next]_vars => KitInv'
<1> SUFFICES ASSUME KitInv, [Next]_vars PROVE KitInv'
    OBVIOUS
<1>1. CASE UNCHANGED vars
  <2>1. UNCHANGED <<sign_vars, popup, message, told, switched, app, cache, wanted, stored, device>>
        BY <1>1 DEF vars, session, kit, history
  <2>2. TypeOK'
        BY <2>1 DEF KitInv, TypeOK, SignTypeOK, sign_vars, chain
  <2> QED BY <2>1, <2>2, SessionMoves
<1>2. CASE Poll \/ Session
      BY <1>2, PollKeeps, OpeningKeeps DEF Session
<1>3. CASE Popup
      BY <1>3, PickerKeeps, ReceiveKeeps, EndKeeps DEF Popup
<1>4. CASE Signing
      BY <1>4, SigningKeeps, OpeningKeeps, SignAnswersKeeps, EndKeeps DEF Signing
<1> QED BY <1>1, <1>2, <1>3, <1>4 DEF Next

LEMMA AlwaysKitInv == Init /\ [][Next]_vars => []KitInv
BY KitStarts, KitStep, PTL

(* What else than the page's own steps becomes of it. *)
LEMMA PageSteps ==
  ASSUME KitInv, [Next]_vars
  PROVE  \/ page' = page
         \/ page'.info = None /\ page'.outcome = "none"
         \/ Read \/ Sign \/ Submit \/ Wait
<1>0. page \in Pages
      BY DEF KitInv, TypeOK, SignTypeOK
<1>1. CASE UNCHANGED vars
      BY <1>1 DEF vars, sign_vars
<1>2. CASE Poll \/ Reload \/ connectExtension \/ Disconnect \/ Receive
  <2>1. UNCHANGED sign_vars
        BY <1>2 DEF Poll, PollBegin, PollEnd, Reload, connectExtension, Disconnect, Receive
  <2> QED BY <2>1 DEF sign_vars
<1>3. CASE getAddress \/ GiveUp \/ Leave
  <2>1. page' = NoPage
        BY <1>3 DEF getAddress, openCeremonyPopup, GiveUp, Leave, NewRequest
  <2> QED BY <2>1, NoPageOK
<1>4. CASE PickerLoads \/ PickerAnswers \/ SignAnswers
  <2>1. page' = NoPage \/ page' = page
        BY <1>4 DEF PickerLoads, PickerAnswers, SignAnswers, finish, post, sign_vars
  <2> QED BY <2>1, NoPageOK
<1>5. ASSUME NEW r \in {"tx", "entry"}, signTransaction(r)
      PROVE  page'.info = None /\ page'.outcome = "none"
  <2>1. page' = opened(r, app.address \in Registered) /\ (app.address \in Registered) \in BOOLEAN
        BY <1>5 DEF signTransaction, openCeremonyPopup, NewRequest
  <2> QED BY <2>1, OpenedOK
<1>6. CASE OwnAction \/ Reopen
  <2>1. page' = opened("own", TRUE) \/ page' = opened(page.request, TRUE)
        BY <1>6 DEF OwnAction, Reopen, NewRequest
  <2>2. page.request \in {"tx", "own", "entry"}
        BY <1>0 DEF Pages
  <2>3. /\ opened("own", TRUE).info = None /\ opened("own", TRUE).outcome = "none"
        /\ opened(page.request, TRUE).info = None /\ opened(page.request, TRUE).outcome = "none"
        BY <2>2, OpenedOK
  <2> HIDE DEF opened
  <2> QED BY <2>1, <2>3
<1>7. CASE SignNext /\ UNCHANGED <<session, app, kit, history>>
  <2>1. Chain => page' = page
        BY DEF Chain, Change, Lands
  <2> QED BY <1>7, <2>1 DEF SignNext
<1> QED BY <1>1, <1>2, <1>3, <1>4, <1>5, <1>6, <1>7 DEF Next, Session, Popup, Signing

LEMMA RefusedWasChanged ==
  ASSUME KitInv, [Next]_vars, At("enforce"), page'.outcome = "refused"
  PROVE  ~read_of(page.info, rules[page.rule])
<1>0. /\ page \in Pages /\ CeremonyOK(page) /\ rules \in PossibleRules /\ page.step = "enforce"
      /\ Asked(page) /\ page.outcome = "none"
      BY DEF KitInv, TypeOK, SignTypeOK, SignOK, At, CeremonyOK
<1>1. Sign
      BY <1>0, PageSteps DEF Read, Submit, Wait, approve, Resolve, signMessageRaw, Preflight,
         PreflightUnread, Simulate, Fails, submitSorobanTransaction, AnswerLost, SubmissionRefused,
         waitForConfirmation, classicPollsRunOut, At
<1>2. FinalSimulation
  <2>1. ~FinalSimulationFails
    <3>1. retryable("failed").outcome = "failed"
          BY <1>0, RetryableOK
    <3> QED BY <3>1 DEF FinalSimulationFails, Become
  <2> QED BY <1>0, <1>1, <2>1 DEF Sign, runAssertionCeremony, At
<1>3. ~accepts(page.rule, page.signed)
  <2>1. [page EXCEPT !.step = "submit"].outcome = "none"
        BY <1>0 DEF Pages
  <2> QED BY <1>2, <2>1 DEF FinalSimulation, Become
<1>4. SUFFICES ASSUME read_of(page.info, rules[page.rule]) PROVE FALSE
      OBVIOUS
<1>5. page.info # None /\ rules[page.rule] # None /\ page.rule \in 0..1
      BY <1>0, <1>4 DEF read_of, Asked
<1>6. rules[page.rule] \in Rules /\ IsFiniteSet(rules[page.rule].policies)
      BY <1>0, <1>5, RuleIsTyped
<1>7. satisfied(rules[page.rule], page.signed) /\ page.signed # {}
      BY <1>0, <1>4, <1>5, <1>6, EnoughAreSigned
<1>8. accepts(page.rule, page.signed)
      BY <1>5, <1>7, SignedVerifies DEF accepts
<1> QED BY <1>3, <1>8

LEMMA AskedIsExact ==
  ASSUME KitInv, [Next]_vars, At("preflight"), page'.info # None,
         read_of(page'.info, rules[page.rule])
  PROVE  IF page'.outcome = "beyond_passkeys"
         THEN \A S \in SUBSET rules[page.rule].external : ~satisfied(rules[page.rule], S)
         ELSE no_fewer(rules[page.rule], page'.required)
<1>0. /\ page \in Pages /\ rules \in PossibleRules /\ page.step = "preflight"
      /\ page.info = None /\ page.outcome = "none" /\ page.rule \in 0..1
      BY DEF KitInv, TypeOK, SignTypeOK, SignOK, At, CeremonyOK
<1>1. Read
      BY <1>0, PageSteps DEF Sign, Submit, Wait, runAssertionCeremony, FinalSimulation, FinalSimulationFails,
         submitSorobanTransaction, AnswerLost, SubmissionRefused, waitForConfirmation, classicPollsRunOut, At
<1>2. Preflight
  <2>1. ~PreflightUnread
    <3>1. [page EXCEPT !.step = "simulate"].info = None
          BY <1>0 DEF Pages
    <3> QED BY <3>1 DEF PreflightUnread, Become
  <2> QED BY <1>0, <1>1, <2>1 DEF Read, approve, Resolve, signMessageRaw, Simulate, Fails, At
<1> DEFINE rule == rules[page.rule]
<1>3. rule # None /\ cred \in rule.external
      BY DEF read_of
<1>4. rule \in Rules /\ IsFiniteSet(rule.policies)
      BY <1>0, <1>3, RuleIsTyped
<1>5. PICK info \in fetchDefaultRuleAuthInfo(rule) :
        Become(IF beyondPasskeys(info) THEN [retryable("beyond_passkeys") EXCEPT !.info = info]
               ELSE [page EXCEPT !.info = info, !.required = requiredSignatureCount(info),
                                 !.step = "simulate"])
      BY <1>2 DEF Preflight
<1> HIDE DEF rule
<1>6. CASE beyondPasskeys(info)
  <2>1. page' = [retryable("beyond_passkeys") EXCEPT !.info = info]
        BY <1>5, <1>6 DEF Become
  <2>2. retryable("beyond_passkeys") \in Pages /\ retryable("beyond_passkeys").outcome = "beyond_passkeys"
        BY <1>0, RetryableOK
  <2>3. page'.outcome = "beyond_passkeys"
        BY <2>1, <2>2 DEF Pages
  <2>4. \A S \in SUBSET rule.external : ~satisfied(rule, S)
        BY <1>4, <1>6, BeyondIsBeyond
  <2> QED BY <2>3, <2>4 DEF rule
<1>7. CASE ~beyondPasskeys(info)
  <2>1. page' = [page EXCEPT !.info = info, !.required = requiredSignatureCount(info), !.step = "simulate"]
        BY <1>5, <1>7 DEF Become
  <2>2. page'.outcome = "none" /\ page'.required = requiredSignatureCount(info)
        BY <1>0, <2>1 DEF Pages
  <2>3. no_fewer(rule, requiredSignatureCount(info))
        BY <1>3, <1>4, NoneIsTooMany DEF rule
  <2> QED BY <2>2, <2>3 DEF rule
<1> QED BY <1>6, <1>7

LEMMA PickersAsk ==
  ASSUME KitInv, [Next]_vars, popup.page = "connect", popup'.page = "closed", message' # None
  PROVE  ~switched
<1>0. popup # Closed /\ message = None /\ popup' # popup
      BY DEF KitInv, AnswerOK, Closed
<1>1. CASE UNCHANGED vars
      BY <1>0, <1>1 DEF vars, kit
<1>2. CASE Poll \/ Session
  <2>1. popup' = popup \/ message' = None
        BY <1>2 DEF Poll, PollBegin, PollEnd, Session, Reload, getAddress, openCeremonyPopup, connectExtension,
           Disconnect, kit
  <2> QED BY <1>0, <2>1
<1>3. CASE PickerLoads \/ PickerAnswers
      BY <1>3, PickerKeeps
<1>4. CASE Receive
      BY <1>0, <1>4 DEF Receive
<1>5. CASE GiveUp \/ Leave \/ Reopen
      BY <1>0, <1>5, EndKeeps
<1>6. CASE SignAnswers
      BY <1>6, SignAnswersKeeps
<1>7. CASE OwnAction \/ \E r \in {"tx", "entry"} : signTransaction(r)
      BY <1>7 DEF OwnAction, signTransaction, openCeremonyPopup
<1>8. CASE UNCHANGED <<session, app, kit, history>>
      BY <1>0, <1>8 DEF kit
<1> QED BY <1>1, <1>2, <1>3, <1>4, <1>5, <1>6, <1>7, <1>8 DEF Next, Popup, Signing

-----------------------------------------------------------------------------
(***************************************************************************)
(* The session, the kit's module, the popup and the sign page keep their   *)
(* shape.                                                                  *)
(***************************************************************************)
THEOREM WalletTypeCorrect == Spec => []TypeOK
<1>1. KitInv => TypeOK
      BY DEF KitInv
<1> QED BY <1>1, AlwaysKitInv, PTL DEF Spec

(***************************************************************************)
(* What the dApp is told of its request is true of the chain, and one      *)
(* request lands once, unless the page lost sight of a transaction it had  *)
(* sent: the sign page offers Approve and Cancel only when all it sent has *)
(* failed, and an answer in flight stays true until it is taken.           *)
(***************************************************************************)
THEOREM AlwaysToldTheTruth == Spec => []ToldTheTruth
<1>1. KitInv => ToldTheTruth
      BY DEF KitInv
<1> QED BY <1>1, AlwaysKitInv, PTL DEF Spec

(***************************************************************************)
(* A ceremony asks for the passkeys the rule needs, whatever the rule: of  *)
(* a rule that is as it was read, a signature is not refused at the end    *)
(* (FinalSimulation), no smaller set of passkeys would have done, and what *)
(* is turned down before the ceremony no passkeys could satisfy.           *)
(***************************************************************************)
THEOREM PreflightsAreExact == Spec => PreflightIsExact
<1> DEFINE Exact ==
      /\ At("enforce") /\ page'.outcome = "refused" => ~read_of(page.info, rules[page.rule])
      /\ At("preflight") /\ page'.info # None /\ read_of(page'.info, rules[page.rule]) =>
           IF page'.outcome = "beyond_passkeys"
           THEN \A S \in SUBSET rules[page.rule].external : ~satisfied(rules[page.rule], S)
           ELSE no_fewer(rules[page.rule], page'.required)
<1>1. KitInv /\ [Next]_vars => [Exact]_vars
      BY RefusedWasChanged, AskedIsExact
<1> QED BY <1>1, AlwaysKitInv, PTL DEF Spec, PreflightIsExact

(***************************************************************************)
(* After switch-account no picker answers for the user: the module forgot  *)
(* the address that would let /connect/ take its fast path, and remembers  *)
(* one only after the user has picked it.                                  *)
(***************************************************************************)
THEOREM SwitchesAreHonoured == Spec => SwitchIsHonoured
<1> DEFINE Honoured == popup.page = "connect" /\ popup'.page = "closed" /\ message' # None => ~switched
<1>1. KitInv /\ [Next]_vars => [Honoured]_vars
      BY PickersAsk
<1> QED BY <1>1, AlwaysKitInv, PTL DEF Spec, SwitchIsHonoured

-----------------------------------------------------------------------------
(* The safety half of SignOutSticks: who left stays out until they choose  *)
(* to be connected again.  That the polls go on is left to fairness.       *)

LeftMeansOut == ~wanted => stored.id = None

SettledOut == stored.id = None /\ app.poll = None /\ app.address = None

(* Only a poll that began before may still run, and once it has ended the  *)
(* next one clears what the page shows.                                    *)
Settles ==
  ~wanted /\ ~wanted' =>
    /\ app.poll = None => app'.poll = None
    /\ app.poll = None /\ PollBegin => SettledOut'
    /\ PollEnd => app'.poll = None

LEMMA LeavingIsOut == LeftMeansOut /\ TypeOK /\ [Next]_vars => LeftMeansOut'
<1> SUFFICES ASSUME LeftMeansOut, TypeOK, [Next]_vars, ~wanted' PROVE stored'.id = None
    BY DEF LeftMeansOut
<1>0. stored \in [id: Wallets, address: Accounts \cup {Extension, None}, network: BOOLEAN]
      BY DEF TypeOK
<1>1. CASE PollBegin
  <2>1. UNCHANGED wanted
        BY <1>1 DEF PollBegin, history
  <2> QED BY <1>0, <1>1, <2>1 DEF PollBegin, PollNido, PollExtension, nullify, SignedOut, LeftMeansOut
<1>2. CASE PollEnd
  <2>1. UNCHANGED wanted
        BY <1>2 DEF PollEnd, history
  <2>2. stored.id = None
        BY <2>1 DEF LeftMeansOut
  <2>3. stored' \in {refreshed, [stored EXCEPT !.id = None], SignedOut}
        BY <1>2 DEF PollEnd, nullify
  <2>4. refreshed.id = stored.id /\ [stored EXCEPT !.id = None].id = None /\ SignedOut.id = None
        BY <1>0 DEF refreshed, SignedOut
  <2> QED BY <2>2, <2>3, <2>4
<1>3. CASE connectExtension
      BY <1>3 DEF connectExtension, connected
<1>4. CASE Disconnect
      BY <1>4 DEF Disconnect, disconnectWallet
<1>5. CASE Receive
  <2>1. CASE UNCHANGED <<stored, wanted>>
        BY <2>1 DEF LeftMeansOut
  <2>2. CASE ~UNCHANGED <<stored, wanted>>
    <3>1. \/ disconnectWallet(switch_account(cache))
          \/ connected("nido", message.account)
          BY <1>5, <2>2 DEF Receive, parseSignReturn, parseConnectReturn, history
    <3> QED BY <3>1 DEF disconnectWallet, connected
  <2> QED BY <2>1, <2>2
<1>6. CASE Reload \/ getAddress \/ PickerLoads \/ GiveUp \/ OwnAction
      BY <1>6 DEF Reload, getAddress, PickerLoads, post, GiveUp, OwnAction, session, history,
                  LeftMeansOut
<1>7. CASE PickerAnswers
      BY <1>7 DEF PickerAnswers, post, session, LeftMeansOut
<1>8. CASE (\E r \in {"tx", "entry"} : signTransaction(r)) \/ SignAnswers \/ Leave \/ Reopen
      BY <1>8 DEF signTransaction, SignAnswers, finish, post, Leave, Reopen, session, history,
                  LeftMeansOut
<1>9. CASE UNCHANGED <<session, app, kit, history>> \/ UNCHANGED vars
      BY <1>9 DEF session, history, vars, LeftMeansOut
<1> QED BY <1>1, <1>2, <1>3, <1>4, <1>5, <1>6, <1>7, <1>8, <1>9
        DEF Next, Poll, Session, Popup, Signing

(* What a step other than the poll's does to the session and the page.     *)
LEMMA NoPollKeeps ==
  ASSUME TypeOK, [Next]_vars, ~PollBegin, ~PollEnd
  PROVE  /\ app'.poll \in {app.poll, None}
         /\ app'.address \in {app.address, None}
         /\ stored'.id \in {stored.id, None} \/ wanted'
<1>0. /\ app \in [address: Accounts \cup {Extension, None}, selected: Wallets,
                  poll: {"extension", None}, promise: {"connect", "sign", None}]
      BY DEF TypeOK
<1>1. CASE Reload
      BY <1>1 DEF Reload, Fresh, session
<1>2. CASE connectExtension
      BY <1>0, <1>2 DEF connectExtension, connected
<1>3. CASE Disconnect
      BY <1>3 DEF Disconnect, disconnectWallet
<1>4. CASE Receive
  <2>1. app'.poll = app.poll /\ app'.address = app.address
        BY <1>0, <1>4 DEF Receive
  <2>2. \/ UNCHANGED stored
        \/ disconnectWallet(switch_account(cache))
        \/ connected("nido", message.account)
        BY <1>4 DEF Receive, parseSignReturn, parseConnectReturn
  <2> QED BY <2>1, <2>2 DEF disconnectWallet, connected
<1>5. CASE getAddress \/ GiveUp \/ \E r \in {"tx", "entry"} : signTransaction(r)
      BY <1>0, <1>5 DEF getAddress, openCeremonyPopup, GiveUp, signTransaction, session
<1>6. CASE PickerLoads \/ PickerAnswers \/ OwnAction \/ SignAnswers \/ Leave \/ Reopen
      BY <1>6 DEF PickerLoads, PickerAnswers, OwnAction, SignAnswers, finish, post, Leave, Reopen,
                  session
<1>7. CASE UNCHANGED <<session, app, kit, history>> \/ UNCHANGED vars
      BY <1>7 DEF session, vars
<1> QED BY <1>1, <1>2, <1>3, <1>4, <1>5, <1>6, <1>7 DEF Next, Poll, Session, Popup, Signing

LEMMA OutStays == TypeOK /\ [Next]_vars => [SettledOut => SettledOut' \/ wanted']_vars
<1> SUFFICES ASSUME TypeOK, [Next]_vars, SettledOut PROVE SettledOut' \/ wanted'
    OBVIOUS
<1>0. /\ app \in [address: Accounts \cup {Extension, None}, selected: Wallets,
                  poll: {"extension", None}, promise: {"connect", "sign", None}]
      BY DEF TypeOK
<1>1. CASE PollBegin
  <2>1. CASE app.poll = None /\ stored.id = None /\ nullify
        BY <1>0, <2>1 DEF nullify, SignedOut, SettledOut
  <2> QED BY <1>1, <2>1, KitAssumption DEF PollBegin, PollNido, PollExtension, SettledOut
<1>2. CASE PollEnd
      BY <1>2 DEF PollEnd, SettledOut
<1>3. CASE ~PollBegin /\ ~PollEnd
      BY <1>3, NoPollKeeps DEF SettledOut
<1> QED BY <1>1, <1>2, <1>3

LEMMA LeavingSettles == LeftMeansOut /\ TypeOK /\ [Next]_vars => [Settles]_vars
<1> SUFFICES ASSUME LeftMeansOut, TypeOK, [Next]_vars, ~wanted, ~wanted'
             PROVE  /\ app.poll = None => app'.poll = None
                    /\ app.poll = None /\ PollBegin => SettledOut'
                    /\ PollEnd => app'.poll = None
    BY DEF Settles
<1>0. /\ app \in [address: Accounts \cup {Extension, None}, selected: Wallets,
                  poll: {"extension", None}, promise: {"connect", "sign", None}]
      BY DEF TypeOK
<1>1. ASSUME PollBegin PROVE SettledOut'
  <2>1. app.poll = None /\ stored.id = None /\ nullify
        BY <1>1, KitAssumption DEF PollBegin, PollNido, PollExtension, LeftMeansOut
  <2> QED BY <1>0, <2>1 DEF nullify, SignedOut, SettledOut
<1>2. ASSUME PollEnd PROVE app'.poll = None
      BY <1>0, <1>2 DEF PollEnd, nullify
<1>3. CASE ~PollBegin /\ ~PollEnd
      BY <1>3, NoPollKeeps
<1> QED BY <1>1, <1>2, <1>3 DEF SettledOut

(***************************************************************************)
(* A dApp that the user left names no wallet, whatever poll, window or     *)
(* answer was under way; the poll that was running ends, the next one      *)
(* clears the page, and it stays clear until the user chooses to connect   *)
(* again (wallet.ts; WalletProvider.tsx).                                  *)
(***************************************************************************)
THEOREM SignedOutStaysOut ==
  Spec => []LeftMeansOut /\ [][Settles]_vars /\ [][SettledOut => SettledOut' \/ wanted']_vars
<1>1. Init => LeftMeansOut
      BY DEF Init, LeftMeansOut
<1>2. KitInv => TypeOK
      BY DEF KitInv
<1>3. LeftMeansOut /\ TypeOK /\ [Next]_vars => LeftMeansOut'
      BY LeavingIsOut
<1>4. LeftMeansOut /\ TypeOK /\ [Next]_vars => [Settles]_vars
      BY LeavingSettles
<1>5. TypeOK /\ [Next]_vars => [SettledOut => SettledOut' \/ wanted']_vars
      BY OutStays
<1> QED BY <1>1, <1>2, <1>3, <1>4, <1>5, AlwaysKitInv, PTL DEF Spec
=============================================================================
