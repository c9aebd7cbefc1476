CONSTANTS
  a = a
  b = b
  Tags = {a, b}
  Stationary = {}
  MaxInField = 2
  TagTtl = 2
  EpTimeout = 1
  MaxLag = 1
  NFCC_MAX_ERROR_COUNT = 1
  Tasks = {"EP_READ", "EP_CLEAN"}
  Faults = TRUE
SPECIFICATION Spec
SYMMETRY Symmetry
PROPERTY RemovedOnlyIfReported
