CONSTANTS
  Dirs <- MCDirs
  Platform = "linux"
  Dates <- MCDates
  Settings <- MCSettings
  SaveEvery = 1
  IOErrors = FALSE
  PowerLoss = FALSE
  IfaceLoss = FALSE
  MaxEver = 1
  MaxBoots = 2
  MaxStarts = 2
  MaxEdits = 1
  MaxUncounted = 0
  Capacity = 1
  FakeNum = 3
  FakeDen = 2
  MaxTroubles = 2
SPECIFICATION SystemFairSpec
INVARIANTS
  SystemTypeOK
  ShownHonest
  CalibrationEndsInOneRun
PROPERTIES
  ShownMonotone
  FileCatchesUp
  HotReload
  ServerShowsTraffic
\* The exploration ends when every bound is reached.
CHECK_DEADLOCK FALSE
