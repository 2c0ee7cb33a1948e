SPECIFICATION FairSpec
CONSTANTS
  Leaves = {l1, l2}
  MyLeaf = l1
  EmptyLeaf = EmptyLeaf
  None = None
  Scans = {s1, s2}
  PAGE_LIMIT = 2
  KvLags = TRUE
  SourceErrs = FALSE
  IndexerErrs = TRUE
  LongOutages = FALSE
  MaxLeaves = 2
  MaxDeaths = 1
  DEPTH = 3
  RING_SIZE = 3
INVARIANTS
  CursorNeverAhead
  NoGap
  WitnessSound
 
CHECK_DEADLOCK FALSE
