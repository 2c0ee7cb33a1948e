--------------------------- MODULE RecoverySystem ---------------------------
(***************************************************************************)
(* A smart account and the zk-recovery controller together: the account    *)
(* asks the controller whether a recovery is pending, the controller       *)
(* decides what the account's recovery rule authorises, and both change in *)
(* one transaction, which fails as a whole.                                *)
(*                                                                         *)
(* Whoever holds keys of the account, owner or not, may have the account   *)
(* authorise any call its rules cover: calls of the account's own entry    *)
(* points, and calls of the controller (directly or through `execute'),    *)
(* with arguments that need not describe anything real.                    *)
(***************************************************************************)
EXTENDS ZkRecovery

CONSTANTS
  Self,         \* the account, one of Accounts
  Controller,   \* the zk-recovery contract, as a policy
  OtherPolicy,  \* any other policy: it accepts every install and every call
  Default,      \* the Default context type
  Expiries,     \* the valid_until arguments tried
  RECOVERY_REMOVAL_DELAY_SECS,
  MaxRules      \* bound: rule ids are 0..MaxRules, the last kept for a completion

VARIABLES
  rules, next_rule_id, recovery_rule_id, recovery_controller, recovery_removal_at,
  enrolled_at

Wallet == INSTANCE SmartAccount WITH
  self <- Self, Keys <- PubKeys, Policies <- {Controller, OtherPolicy},
  Contracts <- {Self, Controller}

account_vars == <<rules, next_rule_id, recovery_rule_id, recovery_controller,
                  recovery_removal_at, enrolled_at>>
zk_vars == <<Leaves, Nullifier, Pending, Installed, completed, account_state>>
system_vars == <<vars, account_vars>>

ASSUME SystemAssumption ==
  /\ Self \in Accounts /\ Controller # OtherPolicy
  /\ None \notin Wallet!Rules \cup {Controller, OtherPolicy}
  /\ MaxRules \in Nat \ {0}
  /\ Wallet!Ids \subseteq RuleIds

ContextTypes == {Self, Controller, Default}
ValidUntils  == Expiries \cup {None}

-----------------------------------------------------------------------------
(* Authorisation.                                                          *)

(* The rule covers the call, and its policies let it pass.  The effects of the
   controller's enforce are those of a completion. *)
authorise(id, call) ==
  /\ Wallet!covers(id, call.contract)
  /\ IF Controller \in rules[id].policies
       THEN enforce(Self, id, call)
       ELSE UNCHANGED zk_vars

(* Some rule the controller has no say in covers calls to the contract.  The
   controller refuses every call that installs it and every call to itself. *)
authorised(contract) ==
  \E id \in Wallet!Ids :
    Wallet!covers(id, contract) /\ Controller \notin rules[id].policies

(* Wrong variant: the account does not ask and takes it that nothing pends. *)
live_answers_unasked == IF recovery_controller = Controller THEN {FALSE} ELSE BOOLEAN

(* What the account's recovery controller may answer to has_pending. *)
live_answers == IF recovery_controller = Controller THEN {has_pending(Self)} ELSE BOOLEAN

-----------------------------------------------------------------------------
(* Calls of the account.                                                   *)

(* add_context_rule without the controller among the policies: an ordinary
   change, or the completion of a recovery. *)
AddContextRule ==
  \E id \in Wallet!Ids, type \in ContextTypes, valid_until \in ValidUntils,
     signers \in SUBSET PubKeys, policies \in SUBSET {OtherPolicy} :
    /\ authorise(id, [contract |-> Self, fn_name |-> "add_context_rule",
                      signers |-> signers, policies |-> policies])
    /\ Controller \notin rules[id].policies => next_rule_id < MaxRules
    /\ Wallet!add_context_rule(type, valid_until, signers, policies)

(* Every other entry point that installs no controller. *)
ChangeRules ==
  \E id \in Wallet!Ids, live \in live_answers :
    /\ authorise(id, [contract |-> Self, fn_name |-> "other", signers |-> {}, policies |-> {}])
    /\ \/ Wallet!Guarded(live)
       \/ Wallet!AddSigner
       \/ \E r \in Wallet!Ids : Wallet!add_policy(r, OtherPolicy, live)
       \/ next_rule_id < MaxRules /\ Wallet!enroll_zk_recovery(OtherPolicy)

(* The entry points that install the controller, which may refuse. *)
AddRuleWithController ==
  \E type \in ContextTypes, valid_until \in ValidUntils, signers \in SUBSET PubKeys :
    /\ next_rule_id < MaxRules
    /\ authorised(Self)
    /\ Wallet!add_context_rule(type, valid_until, signers, {Controller})
    /\ install(Self, [id |-> next_rule_id, context_type |-> type, signers |-> signers])

AddController ==
  \E id \in Wallet!Ids, live \in live_answers :
    /\ authorised(Self)
    /\ Wallet!add_policy(id, Controller, live)
    /\ install(Self, [id |-> id, context_type |-> rules[id].context_type,
                      signers |-> rules[id].signers])

Enroll ==
  /\ next_rule_id < MaxRules
  /\ authorised(Self)
  /\ Wallet!enroll_zk_recovery(Controller)
  /\ install(Self, [id |-> next_rule_id, context_type |-> Self, signers |-> {}])

-----------------------------------------------------------------------------
(* Calls of the controller.                                                *)

(* Those an account authorises with a rule for the controller's address.  A
   rule id, a rule or a call given to install or enforce is taken as it is. *)
AccountCallsController ==
  /\ authorised(Controller)
  /\ UNCHANGED account_vars
  /\ \/ \E n \in Nonces, r \in Roots, nullifier \in Nullifiers :
          cancel_recovery(Self, n, r, nullifier) \/ burn_nullifier(Self, n, r, nullifier)
     \/ \E c \in Secrets : insert_for(Self, c)
     \/ \E rule \in ContextRules : install(Self, rule)

(* enforce called as an entry point, outside the account's authorisation of a
   call: its require_auth is met by any rule that covers the controller. *)
AccountCallsEnforce ==
  /\ authorised(Controller)
  /\ UNCHANGED account_vars
  /\ \E id \in RuleIds, call \in Calls : enforce(Self, id, call)

(* Permissionless. *)
AnyoneInitiates ==
  /\ UNCHANGED account_vars
  /\ \E k \in PubKeys, n \in Nonces, t \in Timelocks, r \in Roots, nullifier \in Nullifiers :
       initiate_recovery(Self, k, n, t, r, nullifier)

-----------------------------------------------------------------------------
(* Deployment.                                                             *)

(* The factory deploys the account, whose constructor installs the controller,
   and inserts the leaf, in one transaction. *)
CreateAccount ==
  \E key \in PubKeys, commitment \in Secrets \cup {NonCanonical} :
    /\ Wallet!constructor({key}, Controller)
    /\ installable(Self, [id |-> 1, context_type |-> Self, signers |-> {}])
    /\ Installed' = [Installed EXCEPT ![Self] = 1]
    /\ require_canonical(commitment)
    /\ insert_leaf(Self, commitment)
    /\ UNCHANGED <<Nullifier, Pending, completed, account_state>>

(* A deployment without a recovery controller. *)
CreateBareAccount ==
  /\ \E key \in PubKeys : Wallet!constructor_without_recovery({key})
  /\ UNCHANGED zk_vars

LedgerCloses == Tick /\ UNCHANGED account_vars

SystemInit == Init /\ Wallet!Init

SystemNext ==
  \/ CreateAccount \/ CreateBareAccount
  \/ AddContextRule \/ ChangeRules \/ AddRuleWithController \/ AddController \/ Enroll
  \/ AccountCallsController \/ AccountCallsEnforce \/ AnyoneInitiates
  \/ LedgerCloses

SystemSpec == SystemInit /\ [][SystemNext]_system_vars

-----------------------------------------------------------------------------
(* Properties.                                                             *)

(* The account and the controller agree on which rule completes a recovery, so
   neither a direct install nor an uninstall separates them. *)
ControllerAgrees ==
  recovery_controller = Controller => Installed[Self] = recovery_rule_id

(* A matured, unexpired recovery of an account enrolled with the controller can
   be completed right now, by anyone, whatever the account was made to do
   before or since. *)
RecoveryCanComplete ==
  has_pending(Self) /\ now >= Pending[Self].executable_after
  /\ recovery_controller = Controller =>
    ENABLED (AddContextRule /\ Pending'[Self] = None)

(* While a recovery of an enrolled account is live, no step takes anything away
   from the account: every rule stays, keeps its signers, policies and expiry,
   and recovery stays enrolled. *)
NothingRemovedWhilePending ==
  [][has_pending(Self) /\ recovery_controller = Controller =>
       /\ recovery_rule_id' = recovery_rule_id
       /\ \A id \in Wallet!Ids : rules[id] # None =>
            /\ rules'[id] # None
            /\ rules[id].signers \subseteq rules'[id].signers
            /\ rules'[id] = [rules[id] EXCEPT !.signers = rules'[id].signers]]_system_vars

(* The step adds one rule, whose only signer is the key being recovered to. *)
AddsProvenKey ==
  \E id \in Wallet!Ids :
    /\ rules[id] = None /\ rules'[id] # None
    /\ rules'[id].signers = {Pending[Self].new_pubkey}
    /\ rules'[id].policies = {}
    /\ rules' = [rules EXCEPT ![id] = rules'[id]]

(* Once only the recovery rule still covers the account, the one change it can
   authorise is the proven key's rule: it is not a universal authoriser of
   calls to the account. *)
RecoveryRuleOnlyCompletes ==
  [][Wallet!deployed /\ ~authorised(Self) /\ rules' # rules =>
       has_pending(Self) /\ AddsProvenKey /\ Pending'[Self] = None]_system_vars
=============================================================================
