\* One account with two credentials, over a time long enough for two expiries,
\* the rate window and the cancel cooldown.
SPECIFICATION Spec
CONSTANTS
  Accounts = {a1, a2}
  Provers = {a1}
  Secrets = {s1, s2}
  NonCanonical = NonCanonical
  PubKeys = {k1, k2}
  UnprovedKey = k2
  ZeroKey = ZeroKey
  Proofs <- MCProofs
  Unused = Unused
  Spent = Spent
  None = None
  Default = Default
  delay_secs = 2
  completion_window_secs = 1
  timelock_floor_secs = 1
  max_cancels = 2
  RATE_WINDOW_SECS = 1
  RATE_LIMIT_MAX = 2
  CANCEL_COOLDOWN_SECS = 1
  RING_SIZE = 1
  MAX_LEAVES = 2
  Timelocks = {1, 2}
  ContextRules <- MCContextRules
  RuleIds = {1}
  Calls <- MCCalls
  MaxTime = 5
  MaxNonce = 6
  RootsProved = {2}
INVARIANTS
  UnspentCredentialsUsable
  PendingWasProved
  AcceptedOnce
  RollingRateLimit
  ReservationsMatchPendings
SYMMETRY Symmetry

  
CHECK_DEADLOCK FALSE
