------------------------------ MODULE RuleScan ------------------------------
(***************************************************************************)
(* How a page reads an account's context rules.  The chain has no call     *)
(* that lists them: a scan reads get_context_rules_count, the number of    *)
(* live rules, then get_context_rule for one id after the other, while     *)
(* rules are added and removed.  Ids grow and are never used again, so a   *)
(* removed rule leaves a gap, which the scan skips.                        *)
(*                                                                         *)
(* One page is modelled: it scans for every rule (fetchAllChainRules) or   *)
(* for the rule of one key (resolveSignerRule, and findRuleForPubkey of    *)
(* the dApp).  A list it then classifies, with reads of the policies'      *)
(* state that may fail, into the cards of the security page, from which a  *)
(* rule is revoked.                                                        *)
(*                                                                         *)
(* A definition marked "wrong variant" is the definition after it with a   *)
(* plausible mistake, and no part of the model.                            *)
(***************************************************************************)
EXTENDS Naturals, FiniteSets, Sequences

CONSTANTS Forms,        \* what rules are installed: [context, signers, policies]
          Contracts,    \* the contexts of the form CallContract
          Keys,         \* public keys of passkeys
          MultisigPolicies, LimitPolicies, \* policy contracts
          Every,        \* what a scan for all rules looks for
          Slack,        \* how far past the count a scan goes (100 in the code)
          MaxRules      \* bound: rules ever added

ASSUME SlackAssumption == Slack \in Nat
ASSUME BoundAssumption == MaxRules \in Nat
ASSUME FormsAssumption ==
  /\ MultisigPolicies \cap LimitPolicies = {}
  /\ \A f \in Forms : f.policies \in Seq(MultisigPolicies \cup LimitPolicies)

VARIABLES rules,        \* the live rules, by id
          next_id,      \* the id of the next rule (NextId of the account)
          scan,         \* the page's scan
          limit_policy, \* the page's answer of the registry, kept: {} before it
          blocks,       \* the cards shown
          start, held   \* history: the ids live at the start of the scan, and
                        \* those whose rule was wanted ever since

chain == <<rules, next_id>>
page  == <<limit_policy, blocks>>
vars  == <<chain, scan, page, start, held>>

(* A signer is <<"External", verifier, key>> or <<"Delegated", address>>.  *)
KeyOn(rule, k)     == \E s \in rule.signers : s[1] = "External" /\ s[3] = k
Wanted(rule, want) == want = Every \/ KeyOn(rule, want)

NoScan == [pc |-> "idle", want |-> Every, count |-> 0, id |-> 0, found |-> {}, hit |-> {}]
ids_found == { e.ruleId : e \in scan.found }

-----------------------------------------------------------------------------
(* The chain, changed by anyone who may sign for the account.              *)

ChainInit == rules \in [{0} -> Forms] /\ next_id = 1

still_held == { i \in held : i \in DOMAIN rules' /\ Wanted(rules'[i], scan.want) }

add_context_rule(f) ==
  /\ next_id < MaxRules
  /\ rules' = [i \in DOMAIN rules \cup {next_id} |-> IF i = next_id THEN f ELSE rules[i]]
  /\ next_id' = next_id + 1
  /\ held' = still_held
  /\ UNCHANGED <<scan, page, start>>

removed(id) == [i \in DOMAIN rules \ {id} |-> rules[i]]

remove_context_rule(id) ==
  /\ id \in DOMAIN rules
  /\ rules' = removed(id)
  /\ held' = still_held
  /\ UNCHANGED <<next_id, scan, page, start>>

(* add_signer and remove_signer of a live rule.                            *)
change_signers(id, f) ==
  /\ id \in DOMAIN rules
  /\ f.context = rules[id].context /\ f.policies = rules[id].policies
  /\ rules' = [rules EXCEPT ![id] = f]
  /\ held' = still_held
  /\ UNCHANGED <<next_id, scan, page, start>>

Chain == \/ \E f \in Forms : add_context_rule(f)
         \/ \E i \in DOMAIN rules : remove_context_rule(i)
         \/ \E i \in DOMAIN rules, f \in Forms : change_signers(i, f)

-----------------------------------------------------------------------------
(* The scan.                                                               *)

StartScan(want) ==
  /\ scan.pc \in {"idle", "done", "failed", "exhausted", "shown"}
  /\ scan' = [NoScan EXCEPT !.pc = "scanning", !.want = want,
                            !.count = Cardinality(DOMAIN rules)]
  /\ start' = DOMAIN rules
  /\ held' = { i \in DOMAIN rules : Wanted(rules[i], want) }
  /\ blocks' = {}
  /\ UNCHANGED <<chain, limit_policy>>

more == Cardinality(scan.found) < scan.count /\ scan.id < scan.count + Slack

(* What the page keeps of a rule it read.                                  *)
parseRule(id) == [ruleId |-> id, rule |-> rules[id]]

(* A gap is skipped; a key that is looked for ends the scan.               *)
Read ==
  /\ scan.pc = "scanning" /\ more
  /\ scan' =
       IF scan.id \notin DOMAIN rules THEN [scan EXCEPT !.id = @ + 1]
       ELSE LET e   == parseRule(scan.id)
                hit == scan.want # Every /\ KeyOn(e.rule, scan.want)
            IN [scan EXCEPT !.id = @ + 1, !.found = @ \cup {e},
                            !.hit = IF hit THEN {e} ELSE {},
                            !.pc = IF hit THEN "done" ELSE @]
  /\ UNCHANGED <<chain, page, start, held>>

ReadFails ==
  /\ scan.pc = "scanning" /\ more
  /\ scan' = [scan EXCEPT !.pc = "failed"]
  /\ UNCHANGED <<chain, page, start, held>>

(* Wrong variant: a scan that reached its bound returns what it found.     *)
outcome_silent == "done"

(* A scan that found fewer rules than the count throws.                    *)
outcome == IF Cardinality(scan.found) < scan.count THEN "exhausted" ELSE "done"

EndScan ==
  /\ scan.pc = "scanning" /\ ~more
  /\ scan' = [scan EXCEPT !.pc = outcome]
  /\ UNCHANGED <<chain, page, start, held>>

-----------------------------------------------------------------------------
(* From rules to cards.                                                    *)

(* The registry is asked once for the page; a failure is kept as well.     *)
AskRegistry ==
  /\ scan.pc = "done" /\ scan.want = Every
  /\ limit_policy = {}
  /\ \E a \in { {p} : p \in LimitPolicies } \cup { {"none"} } : limit_policy' = a
  /\ UNCHANGED <<chain, scan, blocks, start, held>>

(* The state of a policy, as far as the reads succeed: get_threshold is    *)
(* answered by a multisig policy only.                                     *)
fetchPolicyState(p) ==
  IF p \in limit_policy THEN {"limit", "unreadable"}
  ELSE IF p \in MultisigPolicies THEN {"threshold", "empty"} ELSE {"empty"}

call_contract(rule) == rule.context \in Contracts

multisig_fromChain(rule, state) ==
  rule.policies # <<>> /\ call_contract(rule) /\ state[1] = "threshold"

one_passkey(rule) == Cardinality(rule.signers) = 1 /\ \A s \in rule.signers : s[1] = "External"

(* Wrong variant: a rule whose limit cannot be read is not shown.          *)
session_fromChain_readable(rule, state) ==
  /\ call_contract(rule) /\ one_passkey(rule)
  /\ Len(rule.policies) <= 1
  /\ \A i \in DOMAIN rule.policies : state[i] = "limit"

session_fromChain(rule, state) ==
  /\ call_contract(rule) /\ one_passkey(rule)
  /\ Len(rule.policies) <= 1
  /\ \A i \in DOMAIN rule.policies : state[i] # "threshold"

PolicyStates(rule) ==
  { s \in [DOMAIN rule.policies -> {"limit", "unreadable", "threshold", "empty"}] :
      \A i \in DOMAIN s : s[i] \in fetchPolicyState(rule.policies[i]) }

loadBlock(e, state) ==
  IF multisig_fromChain(e.rule, state)
  THEN {[kind |-> "multisig-recovery", ruleId |-> e.ruleId, rule |-> e.rule]}
  ELSE IF session_fromChain(e.rule, state)
  THEN {[kind |-> "scoped-session-key", ruleId |-> e.ruleId, rule |-> e.rule]}
  ELSE {}

(* The registered modules are tried on each rule in turn.                  *)
LoadBlocks ==
  /\ scan.pc = "done" /\ scan.want = Every /\ limit_policy # {}
  /\ \E state \in [scan.found -> UNION { PolicyStates(e.rule) : e \in scan.found }] :
       /\ \A e \in scan.found : state[e] \in PolicyStates(e.rule)
       /\ blocks' = UNION { loadBlock(e, state[e]) : e \in scan.found }
  /\ scan' = [scan EXCEPT !.pc = "shown"]
  /\ UNCHANGED <<chain, limit_policy, start, held>>

(* The owner revokes a card's rule, which may be gone already: the         *)
(* simulation then fails and nothing is sent.                              *)
buildRevoke(b) ==
  /\ scan.pc = "shown" /\ b.ruleId \in DOMAIN rules
  /\ rules' = removed(b.ruleId)
  /\ held' = still_held
  /\ blocks' = blocks \ {b}
  /\ UNCHANGED <<next_id, scan, limit_policy, start>>

Revoke == \E b \in blocks : buildRevoke(b)

(* The page is opened anew.                                                *)
Reload ==
  /\ scan' = NoScan /\ limit_policy' = {} /\ blocks' = {}
  /\ start' = {} /\ held' = {}
  /\ UNCHANGED chain

Init == ChainInit /\ scan = NoScan /\ limit_policy = {} /\ blocks = {} /\ start = {} /\ held = {}

Scan == (\E w \in Keys \cup {Every} : StartScan(w)) \/ Read \/ ReadFails \/ EndScan

Next == Chain \/ Scan \/ AskRegistry \/ LoadBlocks \/ Revoke \/ Reload

Spec == Init /\ [][Next]_vars

-----------------------------------------------------------------------------
(* Rules have the ids given out, and a scan the fields of one.             *)
Entries == [ruleId : Nat, rule : Forms]

TypeOK ==
  /\ next_id \in Nat /\ DOMAIN rules \subseteq 0..(next_id - 1)
  /\ rules \in [DOMAIN rules -> Forms]
  /\ scan \in [pc : {"idle", "scanning", "done", "failed", "exhausted", "shown"},
               want : Keys \cup {Every}, count : Nat, id : Nat,
               found : SUBSET Entries, hit : SUBSET Entries]
  /\ held \subseteq start /\ start \subseteq Nat

(* A scan that ends without an error has met every rule that was there     *)
(* from its start to its end, whatever was added and removed meanwhile: a  *)
(* key reported absent was on no rule throughout, and a list lacks none.   *)
ScanSound ==
  scan.pc \in {"done", "shown"} /\ scan.hit = {} =>
    IF scan.want = Every THEN held \subseteq ids_found ELSE held = {}

(* Every session key that could sign throughout the loading has a card,    *)
(* and with it the only way to revoke it, whatever reads failed.           *)
SessionKeysAreShown ==
  scan.pc = "shown" =>
    \A e \in scan.found :
      /\ e.ruleId \in held
      /\ call_contract(e.rule) /\ one_passkey(e.rule) /\ Len(e.rule.policies) <= 1
      /\ \A i \in DOMAIN e.rule.policies : e.rule.policies[i] \in LimitPolicies
      => \E b \in blocks : b.kind = "scoped-session-key" /\ b.ruleId = e.ruleId
=============================================================================
