CONSTANTS
  k1 = k1 k2 = k2 a1 = a1 a2 = a2
  None = None
  Keys = {k1, k2}
  cred = k1
  Forms <- MCForms
  MaxChanges = 1
  MaxAttempts = 2
  Accounts = {a1, a2}
  Registered = {a1}
  Extension = "G"
SPECIFICATION Spec
 
PROPERTIES
  PreflightIsExact
  SwitchIsHonoured
  SignOutSticks
CHECK_DEADLOCK FALSE
