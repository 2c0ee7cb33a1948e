CONSTANTS
  t1 = t1
  k1 = k1
  k2 = k2
  Tabs = {t1}
  Keys = {k1, k2}
  Absent = Absent
  Status = Status
  Sac = Sac
  MaxConnects = 1
  MaxJobs = 2
SPECIFICATION FairSpec
CHECK_DEADLOCK FALSE
INVARIANTS NoRedirectLoop 
PROPERTIES  StaleIsPurged
