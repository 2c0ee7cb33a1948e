\* One account with one credential; the removal delay is shorter than the
\* recovery delay, as in production.
SPECIFICATION SystemSpec
CONSTANTS
  Self = Self
  Accounts = {Self}
  Secrets = {s1}
  NonCanonical = NonCanonical
  PubKeys = {k1, k2}
  ZeroKey = ZeroKey
  Proofs <- MCProofs
  Unused = Unused
  Spent = Spent
  None = None
  Default = Default
  Controller = Controller
  OtherPolicy = OtherPolicy
  Expiries = {1}
  RECOVERY_REMOVAL_DELAY_SECS = 1
  MaxRules = 2
  delay_secs = 2
  completion_window_secs = 1
  timelock_floor_secs = 1
  max_cancels = 2
  RATE_WINDOW_SECS = 5
  RATE_LIMIT_MAX = 3
  CANCEL_COOLDOWN_SECS = 1
  RING_SIZE = 2
  MAX_LEAVES = 1
  Timelocks = {2}
  ContextRules <- MCContextRules
  RuleIds <- MCRuleIds
  Calls <- MCCalls
  MaxTime = 3
  MaxNonce = 2
SYMMETRY Symmetry
INVARIANTS
  ControllerAgrees
  RecoveryCanComplete
PROPERTIES
  NothingRemovedWhilePending
  RecoveryRuleOnlyCompletes
CHECK_DEADLOCK FALSE
