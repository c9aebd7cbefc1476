CONSTANTS
  NFCC_MAX_ERROR_COUNT = 1
  EpTimeout = 1
  HealthInterval = 2
  MaxFailedChecks = 2
  HealthEnabled = TRUE
  AutoReset = TRUE
  MaxLag = 1
  AgeCap = 4
  Api = {"polling", "test"}
SPECIFICATION FairSpec
PROPERTIES RecoversWhenLinkUp SwitchTakesEffect
