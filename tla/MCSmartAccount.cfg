\* One account, two keys, two policies that may both be controllers, and a
\* controller that answers has_pending as it likes.
SPECIFICATION Spec
CONSTANTS
  self = self
  Keys = {k1, k2}
  Policies = {p1, p2}
  Default = Default
  Contracts = {self}
  None = None
  Expiries = {1}
  RECOVERY_REMOVAL_DELAY_SECS = 2
  MaxRules = 2
  MaxTime = 3
SYMMETRY Symmetry
INVARIANTS
  RecoveryRuleIntact
PROPERTIES
  EnrolmentOutlastsDelay
CHECK_DEADLOCK FALSE
