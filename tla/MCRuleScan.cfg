CONSTANTS
  k1 = k1 k2 = k2 c1 = c1 v1 = v1
  policy_limit = policy_limit policy_old_limit = policy_old_limit policy_multisig = policy_multisig
  friend1 = friend1 friend2 = friend2
  Every = Every
  Forms <- MCForms
  Contracts = {c1}
  Keys = {k2}
  MultisigPolicies = {policy_multisig}
  LimitPolicies = {policy_limit, policy_old_limit}
  Slack = 1
  MaxRules = 4
SPECIFICATION Spec
INVARIANTS
  ScanSound
  SessionKeysAreShown
CHECK_DEADLOCK FALSE
