CONSTANTS
  a = a
  b = b
  Tags = {a, b}
  Stationary = {}
  MaxInField = 2
  TagTtl = 1
  EpTimeout = 1
  MaxLag = 1
  NFCC_MAX_ERROR_COUNT = 0
  Tasks = {"EP_READ", "EP_CLEAN"}
  Faults = TRUE
SPECIFICATION FairSpec
INVARIANTS TypeOK OneEntryPerTag UserViewMatchesCache RemovalLatency
PROPERTIES SelectionEnds RemovedAfterLeaving
