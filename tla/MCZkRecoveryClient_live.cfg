CONSTANTS
  a1 = a1
  a2 = a2
  s1 = s1
  s2 = s2
  k1 = k1
  k2 = k2
  d1 = d1
  d2 = d2
  w1 = w1
  w2 = w2
  w3 = w3
  MaxNonce = 3
  Accounts = {a1, a2}
  Secrets = {s1, s2}
  NonCanonical = NonCanonical
  PubKeys = {k1, k2}
  ZeroKey = ZeroKey
  Proofs <- MCProofs
  Unused = Unused
  Spent = Spent
  None = None
  delay_secs = 1
  completion_window_secs = 2
  timelock_floor_secs = 1
  max_cancels = 1
  RATE_WINDOW_SECS = 9
  RATE_LIMIT_MAX = 2
  CANCEL_COOLDOWN_SECS = 0
  RING_SIZE = 1
  MAX_LEAVES = 2
  Timelocks = {1}
  ContextRules <- MCContextRules
  RuleIds = {1}
  Calls <- MCCalls
  MaxTime = 2
  Devices = {d1}
  Owner = Owner
  Account = a1
  KeyOf <- MCKeyOf
  Sources = {w1, w2, w3}
  Signings <- MCSignings
  Sep53 = {w1, w2}
  Rule <- MCRule
  Plans = {"enroll", "cancel"}
  GivesUp = TRUE
  Patient = TRUE
SPECIFICATION FairSpec
CHECK_DEADLOCK FALSE
INVARIANT EnrolledIsReproducible
PROPERTIES  EnrollmentFinishes
