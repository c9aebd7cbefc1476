CONSTANTS
  NFCC_MAX_ERROR_COUNT = 4
  HighSensitivity = TRUE
  OwnConfig = TRUE
  FaultKinds = {"unsent", "lost", "late", "dropped"}
  MaxFaults = 1
  MaxQueue = 3
SPECIFICATION FairSpec
INVARIANTS TypeOK NoMutualWait ConfigInForce FatalOnlyInBoot
PROPERTY ComesToRest
