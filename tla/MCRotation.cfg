\* The settings are described in the module.
SPECIFICATION FairSpec
CONSTANTS
  Friends = {f1, f2}
  Passkeys = {old, new}
  FirstSigners = {old}
  None = None
  HashAtSubmit = FALSE
  Unreliable = TRUE
  MaxOffset = 2
  Ttl = 2
  Settings <- MCSettings
  MaxStagings = 2
  MaxJobs = 3
  MaxLedger = 2
INVARIANTS
  DigestsAgree
PROPERTIES
  
  
  RecoveryPromise
  
CONSTRAINT Explored
CHECK_DEADLOCK FALSE
