CONSTANTS
  apex = apex
  s1 = s1
  s2 = s2
  c1 = c1
  c2 = c2
  n1 = n1
  none = none
  Apex = apex
  None = none
  Subdomains = {s1}
  Contracts = {c1}
  Names = {n1}
  Deploys = TRUE
  MaxVisits = 0
SPECIFICATION VisitSpec
CHECK_DEADLOCK FALSE
PROPERTIES NeverForgotten KnownEverywhere
