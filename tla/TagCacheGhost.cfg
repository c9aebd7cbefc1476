CONSTANTS
  a = a
  b = b
  Tags = {a, b}
  Stationary = {a}
  MaxInField = 2
  TagTtl = 6
  EpTimeout = 3
  MaxLag = 1
  NFCC_MAX_ERROR_COUNT = 1
  Tasks = {"EP_READ", "EP_CLEAN"}
  Faults = FALSE
SPECIFICATION Spec
PROPERTY NoGhostRemoval
