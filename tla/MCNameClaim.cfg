\* One account of this browser and one of another person, two names.
SPECIFICATION FairClaimSpec
CONSTANTS
  Names = {n1, n2}
  Addresses = {a1, b1}
  Mine = {a1}
  None = None
  MaxChanges = 2
INVARIANTS
  VerdictsAreTrue
  SavedOnceHeld
PROPERTY ClaimIsAnswered
