------------------------ MODULE SmartAccount_proofs ------------------------
(***************************************************************************)
(* The recovery rule of an account, for every set of keys, policies and    *)
(* contracts, every delay and every answer of a controller.                *)
(*                                                                         *)
(* RecoveryRuleIntact is not inductive: a rule added at the next id could  *)
(* take the place of the recovery rule.  TypeOK excludes that, for ids     *)
(* with a rule are below the next one.  EnrolmentOutlastsDelay rests on    *)
(* AnnouncementIsLater: an announcement belongs to the enrolment there is, *)
(* and nothing but the removal it is for takes that enrolment away.        *)
(***************************************************************************)
EXTENDS SmartAccount, TLAPS

(* The entries of an enrolment come and go together, and an announcement is
   due a delay after it at least. *)
AnnouncementIsLater ==
  /\ recovery_rule_id = None => recovery_removal_at = None
  /\ recovery_rule_id # None =>
       enrolled_at \in Nat /\ enrolled_at <= now /\ recovery_controller \in Policies
  /\ recovery_removal_at # None =>
       recovery_removal_at >= enrolled_at + RECOVERY_REMOVAL_DELAY_SECS

IInv == TypeOK /\ RecoveryRuleIntact /\ AnnouncementIsLater

-----------------------------------------------------------------------------
(* What may happen to the rules while the recovery entries stay.           *)

(* A rule at the next id is no rule that was there. *)
LEMMA RuleAdded ==
  ASSUME IInv, NEW rule \in Rules, rule.signers # {} \/ rule.policies # {},
         next_rule_id \in Ids,
         rules' = [rules EXCEPT ![next_rule_id] = rule], next_rule_id' = next_rule_id + 1,
         UNCHANGED <<now, recovery_state>>
  PROVE  IInv'
<1> USE AccountAssumption DEF IInv, recovery_state
<1>1. \A id \in Ids : rules'[id] = IF id = next_rule_id THEN rule ELSE rules[id]
      BY DEF TypeOK
<1>2. TypeOK'
      BY <1>1 DEF TypeOK, Ids
<1>3. RecoveryRuleIntact'
      BY <1>1 DEF TypeOK, RecoveryRuleIntact, exists, Ids
<1> QED BY <1>2, <1>3 DEF AnnouncementIsLater

(* A rule other than the recovery rule is replaced or removed, or only the
   signers of the recovery rule change. *)
LEMMA RuleChanged ==
  ASSUME IInv, NEW id \in Ids, rules[id] # None, NEW rule \in Rules \cup {None},
         rule # None => rule.signers # {} \/ rule.policies # {},
         id = recovery_rule_id =>
           /\ rule # None
           /\ rule.context_type = rules[id].context_type
           /\ rule.valid_until = rules[id].valid_until
           /\ rule.policies = rules[id].policies,
         rules' = [rules EXCEPT ![id] = rule],
         UNCHANGED <<now, next_rule_id, recovery_state>>
  PROVE  IInv'
<1> USE AccountAssumption DEF IInv, recovery_state
<1>1. \A i \in Ids : rules'[i] = IF i = id THEN rule ELSE rules[i]
      BY DEF TypeOK
<1>2. TypeOK'
      BY <1>1 DEF TypeOK
<1>3. RecoveryRuleIntact'
      BY <1>1 DEF TypeOK, RecoveryRuleIntact, exists
<1> QED BY <1>2, <1>3 DEF AnnouncementIsLater

(* An account without recovery is given one. *)
LEMMA RecoveryInstalled ==
  ASSUME IInv, recovery_rule_id = None, NEW controller \in Policies,
         install_recovery_rule(controller), UNCHANGED now
  PROVE  IInv'
<1> USE AccountAssumption DEF IInv, install_recovery_rule
<1>1. RecoveryRule(controller) \in Rules
      BY DEF RecoveryRule, Rules, ContextTypes
<1>2. \A id \in Ids : rules'[id] = IF id = next_rule_id THEN RecoveryRule(controller) ELSE rules[id]
      BY DEF TypeOK
<1>3. RecoveryRule(controller) # None
      BY <1>1
<1>4. TypeOK'
      BY <1>1, <1>2, <1>3 DEF TypeOK, Ids, RecoveryRule
<1>5. RecoveryRuleIntact'
      BY <1>2, <1>3 DEF TypeOK, RecoveryRuleIntact, exists, Ids, RecoveryRule
<1> QED BY <1>4, <1>5 DEF AnnouncementIsLater, TypeOK

-----------------------------------------------------------------------------
(* The entry points.                                                       *)

LEMMA InitInductive == Init => IInv
BY AccountAssumption
DEF Init, IInv, TypeOK, RecoveryRuleIntact, AnnouncementIsLater, Ids

LEMMA NotDeployed ==
  ASSUME IInv, ~deployed
  PROVE  /\ next_rule_id = 0 /\ recovery_rule_id = None
         /\ recovery_controller = None /\ recovery_removal_at = None
         /\ \A id \in Ids : rules[id] = None
<1>1. next_rule_id \in Nat /\ ~(next_rule_id > 0)
      BY DEF deployed, IInv, TypeOK
<1>2. next_rule_id = 0
      BY <1>1
<1>3. \A id \in Ids : id \in Nat /\ ~(id < 0)
      BY AccountAssumption DEF Ids
<1>4. recovery_rule_id = None /\ \A id \in Ids : rules[id] = None
      BY <1>2, <1>3 DEF IInv, TypeOK
<1> QED BY <1>2, <1>4 DEF IInv, RecoveryRuleIntact, AnnouncementIsLater

LEMMA DeployInductive == IInv /\ Deploy => IInv'
<1> SUFFICES ASSUME IInv, NEW key \in Keys,
                    \/ constructor_without_recovery({key})
                    \/ \E controller \in Policies : constructor({key}, controller)
             PROVE  IInv'
    BY DEF Deploy
<1> USE AccountAssumption
<1> DEFINE rule == DefaultRule({key})
<1>1. rule \in Rules /\ rule # None /\ rule.signers # {}
      BY DEF DefaultRule, Rules, ContextTypes
<1>2. 0 \in Ids /\ 1 \in Ids
      BY DEF Ids
<1>3. CASE constructor_without_recovery({key})
  <2>1. rules' = [rules EXCEPT ![next_rule_id] = rule] /\ next_rule_id' = next_rule_id + 1
        BY <1>3, NotDeployed DEF constructor_without_recovery
  <2> QED BY <1>1, <1>2, <1>3, <2>1, RuleAdded, NotDeployed DEF constructor_without_recovery
<1>4. ASSUME NEW controller \in Policies, constructor({key}, controller)
      PROVE  IInv'
  <2>1. RecoveryRule(controller) \in Rules /\ RecoveryRule(controller) # None
        BY DEF RecoveryRule, Rules, ContextTypes
  <2>2. \A id \in Ids : rules'[id] = IF id = 0 THEN rule ELSE IF id = 1 THEN RecoveryRule(controller)
                                     ELSE rules[id]
        BY <1>4 DEF constructor, IInv, TypeOK
  <2>3. /\ next_rule_id' = 2 /\ recovery_rule_id' = 1 /\ recovery_controller' = controller
        /\ enrolled_at' = now /\ now' = now /\ now \in Nat /\ recovery_removal_at' = None
        BY <1>4, NotDeployed DEF constructor, IInv, TypeOK
  <2>4. rules' \in [Ids -> Rules \cup {None}]
        BY <1>1, <1>4, <2>1 DEF constructor, IInv, TypeOK
  <2>5. \A id \in Ids : rules'[id] # None =>
          id < 2 /\ (rules'[id].signers # {} \/ rules'[id].policies # {})
    <3>1. controller \in RecoveryRule(controller).policies
          BY DEF RecoveryRule
    <3>2. ASSUME NEW id \in Ids, rules'[id] # None
          PROVE  \/ id = 0 /\ rules'[id] = rule
                 \/ id = 1 /\ rules'[id] = RecoveryRule(controller)
          BY <2>2, <3>2, <1>4, NotDeployed DEF constructor
    <3> HIDE DEF rule
    <3> QED BY <1>1, <3>1, <3>2
  <2>6. TypeOK'
        BY <1>2, <2>3, <2>4, <2>5 DEF TypeOK
  <2>7. rules'[1] = RecoveryRule(controller)
        BY <1>2, <2>2
  <2>8. RecoveryRuleIntact'
        BY <1>2, <2>1, <2>3, <2>7, AccountAssumption DEF RecoveryRule, RecoveryRuleIntact, exists
  <2>9. AnnouncementIsLater'
        BY <2>3, AccountAssumption DEF AnnouncementIsLater
  <2> QED BY <2>6, <2>8, <2>9 DEF IInv
<1> QED BY <1>3, <1>4

LEMMA AddInductive ==
  ASSUME IInv, NEW type \in ContextTypes, NEW valid_until \in Expiries \cup {None},
         NEW signers \in SUBSET Keys, NEW policies \in SUBSET Policies,
         add_context_rule(type, valid_until, signers, policies)
  PROVE  IInv'
<1> DEFINE rule == [context_type |-> type, valid_until |-> valid_until,
                    signers |-> signers, policies |-> policies]
<1>1. rule \in Rules
      BY DEF Rules
<1> QED BY <1>1, RuleAdded DEF add_context_rule, oz_add_context_rule, well_formed

LEMMA SetSigners ==
  ASSUME IInv, NEW id \in Ids, exists(id), NEW signers \in SUBSET Keys,
         oz_set_signers(id, signers), UNCHANGED <<now, recovery_state>>
  PROVE  IInv'
<1> DEFINE rule == [rules[id] EXCEPT !.signers = signers]
<1>1. rules[id] \in Rules
      BY DEF exists, IInv, TypeOK
<1>2. rule \in Rules /\ rule # None
      BY <1>1, AccountAssumption DEF Rules
<1>3. rules' = [rules EXCEPT ![id] = rule]
      BY DEF oz_set_signers
<1> QED BY <1>1, <1>2, <1>3, RuleChanged DEF oz_set_signers, well_formed, exists, Rules

LEMMA SetPolicies ==
  ASSUME IInv, NEW id \in Ids, exists(id), NEW policies \in SUBSET Policies,
         id # recovery_rule_id,
         oz_set_policies(id, policies), UNCHANGED <<now, recovery_state>>
  PROVE  IInv'
<1> DEFINE rule == [rules[id] EXCEPT !.policies = policies]
<1>1. rules[id] \in Rules
      BY DEF exists, IInv, TypeOK
<1>2. rule \in Rules /\ rule # None
      BY <1>1, AccountAssumption DEF Rules
<1>3. rules' = [rules EXCEPT ![id] = rule]
      BY DEF oz_set_policies
<1> QED BY <1>1, <1>2, <1>3, RuleChanged DEF oz_set_policies, well_formed, exists, Rules

LEMMA SetExpiry ==
  ASSUME IInv, NEW id \in Ids, NEW valid_until \in Expiries \cup {None}, NEW live \in BOOLEAN,
         update_context_rule_valid_until(id, valid_until, live)
  PROVE  IInv'
<1> USE DEF update_context_rule_valid_until
<1> DEFINE rule == [rules[id] EXCEPT !.valid_until = valid_until]
<1>1. rules[id] \in Rules
      BY DEF exists, IInv, TypeOK
<1>2. rule \in Rules /\ rule # None
      BY <1>1, AccountAssumption DEF Rules
<1>3. rule.signers # {} \/ rule.policies # {}
      BY <1>1 DEF exists, Rules, IInv, TypeOK
<1> QED BY <1>2, <1>3, RuleChanged DEF exists, not_protected

(* The removal takes the rule, the controller and the announcement at once. *)
LEMMA RemovalInductive ==
  ASSUME IInv, NEW live \in BOOLEAN, execute_recovery_rule_removal(live)
  PROVE  IInv'
<1> USE AccountAssumption
    DEF execute_recovery_rule_removal, oz_remove_context_rule, forget_recovery, IInv
<1>1. TypeOK'
      BY DEF TypeOK
<1> QED BY <1>1 DEF RecoveryRuleIntact, AnnouncementIsLater

LEMMA AnnounceInductive ==
  ASSUME IInv, NEW live \in BOOLEAN, initiate_recovery_rule_removal(live)
  PROVE  IInv'
<1> USE AccountAssumption DEF initiate_recovery_rule_removal, IInv
<1>1. TypeOK'
      BY DEF TypeOK
<1>2. recovery_rule_id # None
      BY DEF RecoveryRuleIntact
<1>3. RecoveryRuleIntact'
      BY DEF RecoveryRuleIntact, exists
<1> QED BY <1>1, <1>2, <1>3 DEF AnnouncementIsLater, TypeOK

LEMMA GuardedInductive ==
  ASSUME IInv, NEW live \in BOOLEAN, Guarded(live)
  PROVE  IInv'
<1>1. ASSUME NEW id \in Ids, remove_context_rule(id, live)
      PROVE  IInv'
      BY <1>1, RuleChanged DEF remove_context_rule, oz_remove_context_rule, not_protected, exists
<1>2. ASSUME NEW id \in Ids, NEW key \in Keys, remove_signer(id, key, live)
      PROVE  IInv'
  <2>1. rules[id].signers \ {key} \in SUBSET Keys
        BY <1>2 DEF remove_signer, exists, IInv, TypeOK, Rules
  <2> QED BY <1>2, <2>1, SetSigners DEF remove_signer
<1>3. ASSUME NEW id \in Ids, NEW policy \in Policies, remove_policy(id, policy, live)
      PROVE  IInv'
  <2>1. rules[id].policies \ {policy} \in SUBSET Policies
        BY <1>3 DEF remove_policy, exists, IInv, TypeOK, Rules
  <2> QED BY <1>3, <2>1, SetPolicies DEF remove_policy, not_protected
<1> QED BY <1>1, <1>2, <1>3, SetExpiry, AnnounceInductive, RemovalInductive DEF Guarded

LEMMA NextInductive == IInv /\ [Next]_vars => IInv'
<1> SUFFICES ASSUME IInv, [Next]_vars PROVE IInv'
    OBVIOUS
<1>1. CASE AddContextRule
      BY <1>1, AddInductive DEF AddContextRule
<1>2. CASE AddMultisigRecovery
  <2>1. self \in ContextTypes
        BY AccountAssumption DEF ContextTypes
  <2>2. \A policy \in Policies : {policy} \in SUBSET Policies
        OBVIOUS
  <2> QED BY <1>2, <2>1, <2>2, AddInductive DEF AddMultisigRecovery, add_multisig_recovery
<1>3. ASSUME NEW id \in Ids, NEW key \in Keys, add_signer(id, key)
      PROVE  IInv'
  <2>1. rules[id].signers \cup {key} \in SUBSET Keys
        BY <1>3 DEF add_signer, exists, IInv, TypeOK, Rules
  <2> QED BY <1>3, <2>1, SetSigners DEF add_signer
<1>4. ASSUME NEW controller \in Policies, enroll_zk_recovery(controller)
      PROVE  IInv'
      BY <1>4, RecoveryInstalled DEF enroll_zk_recovery
<1>5. ASSUME NEW live \in BOOLEAN, NEW id \in Ids, NEW policy \in Policies,
             add_policy(id, policy, live)
      PROVE  IInv'
  <2>1. rules[id].policies \cup {policy} \in SUBSET Policies
        BY <1>5 DEF add_policy, exists, IInv, TypeOK, Rules
  <2> QED BY <1>5, <2>1, SetPolicies DEF add_policy, not_protected
<1>6. CASE Tick
  <2> USE <1>6 DEF Tick, account_vars, recovery_state, IInv
  <2>1. TypeOK'
        BY DEF TypeOK
  <2> QED BY <2>1 DEF RecoveryRuleIntact, exists, AnnouncementIsLater, TypeOK
<1>7. CASE UNCHANGED vars
      BY <1>7 DEF vars, account_vars, recovery_state, IInv, TypeOK, RecoveryRuleIntact, exists,
                  AnnouncementIsLater
<1> QED BY <1>1, <1>2, <1>3, <1>4, <1>5, <1>6, <1>7, DeployInductive, GuardedInductive
        DEF Next, AddSigner, Enroll, AddPolicy

-----------------------------------------------------------------------------
(* The theorems.                                                           *)

(* The entries of the account's storage have their types, no id that was not
   handed out has a rule, and an announcement is of the enrolment there is. *)
THEOREM AlwaysInductive == Spec => []IInv
BY InitInductive, NextInductive, PTL DEF Spec

(* No sequence of authorised calls removes the recovery rule, expires it, or
   adds or strips a policy, but for the announced removal (contract.rs,
   guard of the context-rule entry points). *)
THEOREM RecoveryRuleStaysIntact == Spec => []RecoveryRuleIntact
<1>1. IInv => RecoveryRuleIntact
      BY DEF IInv
<1> QED BY <1>1, AlwaysInductive, PTL

(* An enrolment is never taken away sooner than the removal delay, by whatever
   announcements were made before it (contract.rs, execute_recovery_rule_removal). *)
THEOREM EnrolmentsLast == Spec => EnrolmentOutlastsDelay
<1> DEFINE A == recovery_rule_id # None /\ recovery_rule_id' # recovery_rule_id =>
                  now >= enrolled_at + RECOVERY_REMOVAL_DELAY_SECS
<1>1. ASSUME IInv, [Next]_vars PROVE [A]_vars
  <2> SUFFICES ASSUME Next, recovery_rule_id # None, recovery_rule_id' # recovery_rule_id
               PROVE  now >= enrolled_at + RECOVERY_REMOVAL_DELAY_SECS
      BY <1>1
  <2>1. ~Deploy
        BY <1>1, NotDeployed DEF Deploy, constructor, constructor_without_recovery
  <2>2. \E live \in BOOLEAN : execute_recovery_rule_removal(live)
        BY <2>1
        DEF Next, AddContextRule, AddMultisigRecovery, add_multisig_recovery, add_context_rule,
            AddSigner, add_signer, Enroll, enroll_zk_recovery, Tick, Guarded, remove_context_rule,
            update_context_rule_valid_until, remove_signer, remove_policy, AddPolicy, add_policy,
            initiate_recovery_rule_removal, account_vars, recovery_state
  <2>3. recovery_removal_at \in Nat /\ now >= recovery_removal_at
        BY <1>1, <2>2 DEF execute_recovery_rule_removal, removal_announced, IInv, TypeOK
  <2> QED BY <1>1, <2>3, AccountAssumption DEF IInv, TypeOK, AnnouncementIsLater
<1> QED BY <1>1, AlwaysInductive, PTL DEF Spec, EnrolmentOutlastsDelay
=============================================================================
