CONSTANTS
  c = c
  u = u
  Sectors = 3
  BYTE = 16
  Classic = {c}
  Ultralight = {u}
  Messages = {5, 50}
  Capacities = {24, 64}
  MaxFaults = 1
  MaxCalls = 3
SPECIFICATION Spec
INVARIANTS TypeOK WriteModeHasMessage OneTagPerRequest OkMeansDone NoLockout ReadBack WriteLeavesPrefix
PROPERTY DroppedOnlyWritten
