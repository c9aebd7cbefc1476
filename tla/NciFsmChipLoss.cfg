CONSTANTS
  NFCC_MAX_ERROR_COUNT = 1
  EpTimeout = 1
  HealthInterval = 4
  MaxFailedChecks = 2
  HealthEnabled = TRUE
  AutoReset = TRUE
  MaxLag = 1
  AgeCap = 5
  Api = {}
SPECIFICATION FairSpec
PROPERTY ChipLossNoticed
