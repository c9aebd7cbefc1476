CONSTANTS
  NFCC_MAX_ERROR_COUNT = 2
  EpTimeout = 2
  HealthInterval = 10
  MaxFailedChecks = 2
  HealthEnabled = TRUE
  AutoReset = TRUE
  MaxLag = 2
  AgeCap = 11
  Api = {"emulation", "polling"}
SPECIFICATION Spec
INVARIANTS TypeOK ErrorBelongsToState EpStateBounded ConfigCoherent PollActiveTransient InitNeverStuck
PROPERTIES GivesUpOnlyInBoot Supervised
