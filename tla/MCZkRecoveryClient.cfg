CONSTANTS
  a1 = a1
  a2 = a2
  s1 = s1
  s2 = s2
  k1 = k1
  k2 = k2
  d1 = d1
  d2 = d2
  w1 = w1
  w2 = w2
  w3 = w3
  MaxNonce = 2
  Accounts = {a1, a2}
  Secrets = {s1}
  NonCanonical = NonCanonical
  PubKeys = {k1, k2}
  ZeroKey = ZeroKey
  Proofs <- MCProofs
  Unused = Unused
  Spent = Spent
  None = None
  delay_secs = 1
  completion_window_secs = 1
  timelock_floor_secs = 1
  max_cancels = 1
  RATE_WINDOW_SECS = 9
  RATE_LIMIT_MAX = 2
  CANCEL_COOLDOWN_SECS = 0
  RING_SIZE = 1
  MAX_LEAVES = 2
  Timelocks = {1}
  ContextRules <- MCContextRules
  RuleIds = {1}
  Calls <- MCCalls
  MaxTime = 2
  Devices = {d1}
  Owner = Owner
  Account = a1
  KeyOf <- MCKeyOf
  Sources = {w1}
  Signings <- MCSignings
  Sep53 = {w1}
  Rule <- MCRule
  Plans = {"enroll", "cancel", "burn"}
  GivesUp = TRUE
  Patient = FALSE
SPECIFICATION ClientSpec
CHECK_DEADLOCK FALSE
PROPERTY CancelStopsWhatWasSeen
