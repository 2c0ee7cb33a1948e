---------------------------- MODULE SmartAccount ----------------------------
(***************************************************************************)
(* One Nido smart account (src/contracts/smart-account): its context rules *)
(* and the guard that protects its recovery rule.                          *)
(*                                                                         *)
(* Storage and validation of context rules are those of OpenZeppelin's     *)
(* stellar-accounts library; the oz_ operators model them from the way     *)
(* this repository uses and tests them.  The name of a rule is left out,   *)
(* and with it update_context_rule_name, and so are the library's size     *)
(* limits and the ids of signers and policies within a rule.               *)
(*                                                                         *)
(* The account trusts no policy here: whether a policy accepts an install  *)
(* or authorises a call is free, and `live' is the answer of the recovery  *)
(* controller's has_pending, which may be anything.  RecoverySystem puts   *)
(* the real controller in.                                                 *)
(***************************************************************************)
EXTENDS Naturals

CONSTANTS
  self,                        \* this account's address
  Keys,                        \* the signers' keys
  Policies,                    \* policy contracts; any may be a recovery controller
  Default,                     \* the Default context type; the other context
  Contracts,                   \* types are the contracts calls may go to, self included
  None,                        \* an absent entry; as a valid_until, "never expires"
  Expiries,                    \* the valid_until arguments tried
  RECOVERY_REMOVAL_DELAY_SECS,
  MaxRules,                    \* bound: rule ids are 0..MaxRules
  MaxTime                      \* bound: the clock stops here

VARIABLES
  now,                  \* ledger timestamp; also stands for the ledger sequence
  rules,                \* rules[id]: the context rule with this id, or None
  next_rule_id,         \* ids are handed out in order and never reused
  recovery_rule_id,     \* RCVR_ID, or None
  recovery_controller,  \* RCVR_CTRL, or None
  recovery_removal_at,  \* RCVR_RM, or None
  enrolled_at           \* history: when the current recovery rule was installed

recovery_state == <<recovery_rule_id, recovery_controller, recovery_removal_at, enrolled_at>>
account_vars == <<rules, next_rule_id, recovery_state>>
vars == <<now, account_vars>>

Ids == 0..MaxRules
ContextTypes == Contracts \cup {Default}
Rules ==
  [context_type: ContextTypes, valid_until: Expiries \cup {None},
   signers: SUBSET Keys, policies: SUBSET Policies]

ASSUME AccountAssumption ==
  /\ self \in Contracts /\ Default \notin Contracts
  /\ None \notin Rules /\ None \notin Nat /\ None \notin Policies
  /\ Expiries \subseteq Nat /\ MaxRules \in Nat \ {0} /\ MaxTime \in Nat
  /\ RECOVERY_REMOVAL_DELAY_SECS \in Nat

-----------------------------------------------------------------------------
(* The library.                                                            *)

exists(id) == id \in Ids /\ rules[id] # None

unexpired(id) == rules[id].valid_until # None => now <= rules[id].valid_until

(* Some rule covers calls to this contract.  A rule without policies is
   satisfied by its signers, a rule with policies by all its policies. *)
covers(id, contract) ==
  exists(id) /\ unexpired(id) /\ rules[id].context_type \in {Default, contract}

require_auth == \E id \in Ids : covers(id, self)

(* A rule needs a signer or a policy. *)
well_formed(signers, policies) == signers # {} \/ policies # {}

not_past(valid_until) == valid_until # None => valid_until >= now

oz_add_context_rule(context_type, valid_until, signers, policies) ==
  /\ next_rule_id \in Ids
  /\ well_formed(signers, policies)
  /\ not_past(valid_until)
  /\ rules' = [rules EXCEPT ![next_rule_id] =
       [context_type |-> context_type, valid_until |-> valid_until,
        signers |-> signers, policies |-> policies]]
  /\ next_rule_id' = next_rule_id + 1

oz_remove_context_rule(id) ==
  /\ exists(id)
  /\ rules' = [rules EXCEPT ![id] = None]
  /\ UNCHANGED next_rule_id

oz_set_signers(id, signers) ==
  /\ well_formed(signers, rules[id].policies)
  /\ rules' = [rules EXCEPT ![id].signers = signers]
  /\ UNCHANGED next_rule_id

oz_set_policies(id, policies) ==
  /\ well_formed(rules[id].signers, policies)
  /\ rules' = [rules EXCEPT ![id].policies = policies]
  /\ UNCHANGED next_rule_id

-----------------------------------------------------------------------------
(* The guard.                                                              *)

(* Wrong variant: the recovery rule is found by its controller's live answer. *)
not_protected_when_idle(id, live) == live => id # recovery_rule_id

(* The recovery rule may not be changed or removed through the OZ entry points,
   pending or not. *)
not_protected(id, live) == id # recovery_rule_id

(* A no-op on an account without recovery. *)
guard_no_pending(live) == recovery_controller # None => ~live

(* Called where the account is known to have a controller. *)
guard_live_pending(live) == ~live

-----------------------------------------------------------------------------
(* The SmartAccount entry points.                                          *)

add_context_rule(context_type, valid_until, signers, policies) ==
  /\ require_auth
  /\ oz_add_context_rule(context_type, valid_until, signers, policies)
  /\ UNCHANGED <<now, recovery_state>>

update_context_rule_valid_until(id, valid_until, live) ==
  /\ require_auth
  /\ exists(id)
  /\ not_protected(id, live)
  /\ guard_no_pending(live)
  /\ not_past(valid_until)
  /\ rules' = [rules EXCEPT ![id].valid_until = valid_until]
  /\ UNCHANGED <<now, next_rule_id, recovery_state>>

remove_context_rule(id, live) ==
  /\ require_auth
  /\ not_protected(id, live)
  /\ guard_no_pending(live)
  /\ oz_remove_context_rule(id)
  /\ UNCHANGED <<now, recovery_state>>

(* Deliberately unguarded, the recovery rule included. *)
add_signer(id, signer) ==
  /\ require_auth
  /\ exists(id)
  /\ signer \notin rules[id].signers
  /\ oz_set_signers(id, rules[id].signers \cup {signer})
  /\ UNCHANGED <<now, recovery_state>>

remove_signer(id, signer, live) ==
  /\ require_auth
  /\ exists(id)
  /\ guard_no_pending(live)
  /\ signer \in rules[id].signers
  /\ oz_set_signers(id, rules[id].signers \ {signer})
  /\ UNCHANGED <<now, recovery_state>>

add_policy(id, policy, live) ==
  /\ require_auth
  /\ exists(id)
  /\ not_protected(id, live)
  /\ guard_no_pending(live)
  /\ policy \notin rules[id].policies
  /\ oz_set_policies(id, rules[id].policies \cup {policy})
  /\ UNCHANGED <<now, recovery_state>>

remove_policy(id, policy, live) ==
  /\ require_auth
  /\ exists(id)
  /\ not_protected(id, live)
  /\ guard_no_pending(live)
  /\ policy \in rules[id].policies
  /\ oz_set_policies(id, rules[id].policies \ {policy})
  /\ UNCHANGED <<now, recovery_state>>

-----------------------------------------------------------------------------
(* Nido's own entry points.                                                *)

DefaultRule(signers) ==
  [context_type |-> Default, valid_until |-> None, signers |-> signers, policies |-> {}]

(* A zero-signer rule for calls to the account itself, decided by the
   controller alone. *)
RecoveryRule(controller) ==
  [context_type |-> self, valid_until |-> None, signers |-> {}, policies |-> {controller}]

(* __constructor, as the factory calls it: a Default rule for the passkey, and
   the recovery rule when a controller is given. *)
deployed == next_rule_id > 0

constructor_without_recovery(signers) ==
  /\ ~deployed
  /\ signers # {}
  /\ rules' = [rules EXCEPT ![0] = DefaultRule(signers)]
  /\ next_rule_id' = 1
  /\ UNCHANGED <<now, recovery_state>>

constructor(signers, controller) ==
  /\ ~deployed
  /\ signers # {}
  /\ rules' = [rules EXCEPT ![0] = DefaultRule(signers), ![1] = RecoveryRule(controller)]
  /\ next_rule_id' = 2
  /\ recovery_rule_id' = 1
  /\ recovery_controller' = controller
  /\ enrolled_at' = now
  /\ UNCHANGED <<now, recovery_removal_at>>

install_recovery_rule(controller) ==
  /\ next_rule_id \in Ids
  /\ rules' = [rules EXCEPT ![next_rule_id] = RecoveryRule(controller)]
  /\ next_rule_id' = next_rule_id + 1
  /\ recovery_rule_id' = next_rule_id
  /\ recovery_controller' = controller
  /\ enrolled_at' = now
  /\ UNCHANGED recovery_removal_at

enroll_zk_recovery(controller) ==
  /\ require_auth
  /\ recovery_rule_id = None
  /\ install_recovery_rule(controller)
  /\ UNCHANGED now

initiate_recovery_rule_removal(live) ==
  /\ require_auth
  /\ recovery_controller # None
  /\ guard_live_pending(live)
  /\ recovery_removal_at' = now + RECOVERY_REMOVAL_DELAY_SECS
  /\ UNCHANGED <<now, rules, next_rule_id, recovery_rule_id, recovery_controller, enrolled_at>>

removal_announced == recovery_removal_at # None /\ now >= recovery_removal_at

(* Wrong variant: the announcement survives the removal it was made for. *)
forget_recovery_but_announcement ==
  /\ recovery_rule_id' = None
  /\ recovery_controller' = None
  /\ enrolled_at' = None
  /\ UNCHANGED recovery_removal_at

forget_recovery ==
  /\ recovery_rule_id' = None
  /\ recovery_controller' = None
  /\ recovery_removal_at' = None
  /\ enrolled_at' = None

execute_recovery_rule_removal(live) ==
  /\ require_auth
  /\ removal_announced
  /\ recovery_controller # None
  /\ guard_live_pending(live)
  /\ oz_remove_context_rule(recovery_rule_id)
  /\ forget_recovery
  /\ UNCHANGED now

(* A typed add_context_rule for calls to the account itself, with friends as
   signers and a threshold policy that decides. *)
add_multisig_recovery(valid_until, friends, multisig_policy) ==
  add_context_rule(self, valid_until, friends, {multisig_policy})

-----------------------------------------------------------------------------

Init ==
  /\ now = 0
  /\ rules = [id \in Ids |-> None]
  /\ next_rule_id = 0
  /\ recovery_rule_id = None
  /\ recovery_controller = None
  /\ recovery_removal_at = None
  /\ enrolled_at = None

(* A ledger closes.  Bounded by MaxTime. *)
Tick == now < MaxTime /\ now' = now + 1 /\ UNCHANGED account_vars

AddContextRule ==
  \E type \in ContextTypes, valid_until \in Expiries \cup {None},
     signers \in SUBSET Keys, policies \in SUBSET Policies :
    add_context_rule(type, valid_until, signers, policies)

AddMultisigRecovery ==
  \E valid_until \in Expiries \cup {None}, friends \in SUBSET Keys, policy \in Policies :
    add_multisig_recovery(valid_until, friends, policy)

(* The entry points that ask the controller whether a recovery is pending. *)
Guarded(live) ==
  \/ \E id \in Ids :
       \/ remove_context_rule(id, live)
       \/ \E valid_until \in Expiries \cup {None} :
            update_context_rule_valid_until(id, valid_until, live)
       \/ \E key \in Keys : remove_signer(id, key, live)
       \/ \E policy \in Policies : remove_policy(id, policy, live)
  \/ initiate_recovery_rule_removal(live)
  \/ execute_recovery_rule_removal(live)

AddSigner == \E id \in Ids, key \in Keys : add_signer(id, key)
AddPolicy(live) == \E id \in Ids, policy \in Policies : add_policy(id, policy, live)
Enroll == \E controller \in Policies : enroll_zk_recovery(controller)

Deploy ==
  \E key \in Keys :
    \/ constructor_without_recovery({key})
    \/ \E controller \in Policies : constructor({key}, controller)

Next ==
  \/ Deploy \/ AddContextRule \/ AddMultisigRecovery \/ AddSigner \/ Enroll \/ Tick
  \/ \E live \in BOOLEAN : Guarded(live) \/ AddPolicy(live)

Spec == Init /\ [][Next]_vars

-----------------------------------------------------------------------------
(* Properties.                                                             *)

(* Every variable has its type, a rule has a signer or a policy, and no id
   that was not handed out has a rule (the storage of the account). *)
TypeOK ==
  /\ now \in Nat
  /\ rules \in [Ids -> Rules \cup {None}]
  /\ next_rule_id \in Nat
  /\ recovery_rule_id \in Ids \cup {None}
  /\ recovery_controller \in Policies \cup {None}
  /\ recovery_removal_at \in Nat \cup {None}
  /\ enrolled_at \in Nat \cup {None}
  /\ recovery_rule_id # None => recovery_rule_id < next_rule_id
  /\ \A id \in Ids : rules[id] # None =>
       id < next_rule_id /\ (rules[id].signers # {} \/ rules[id].policies # {})

(* While the account says it has a recovery rule, the rule is there, covers
   exactly the account's own calls, never expires, and is decided by the
   recorded controller alone: no sequence of authorised calls to the account
   removes it, expires it, or adds or strips a policy. *)
RecoveryRuleIntact ==
  IF recovery_rule_id = None
    THEN recovery_controller = None
    ELSE /\ exists(recovery_rule_id)
         /\ rules[recovery_rule_id].context_type = self
         /\ rules[recovery_rule_id].valid_until = None
         /\ rules[recovery_rule_id].policies = {recovery_controller}

(* An enrolment lasts at least the removal delay: an announcement is of use
   only for the enrolment it was made for, never for a later one. *)
EnrolmentOutlastsDelay ==
  [][recovery_rule_id # None /\ recovery_rule_id' # recovery_rule_id =>
       now >= enrolled_at + RECOVERY_REMOVAL_DELAY_SECS]_vars
=============================================================================
