CONSTANTS
  NFCC_MAX_ERROR_COUNT = 4
  HighSensitivity = TRUE
  OwnConfig = FALSE
  FaultKinds = {"late"}
  MaxFaults = 1
  MaxQueue = 2
SPECIFICATION Spec
INVARIANT NeverFailsForGood
