CONSTANTS
  Dirs <- MCDirs
  Platform = "linux"
  Dates <- MCDates
  Settings <- MCCalibrated
  SaveEvery = 2
  IOErrors = FALSE
  PowerLoss = FALSE
  IfaceLoss = FALSE
  MaxEver = 2
  MaxBoots = 1
  MaxStarts = 2
  MaxEdits = 0
  MaxUncounted = 0
SPECIFICATION Spec
INVARIANTS
  ConfigWrittenWhole
\* The exploration ends when every bound is reached.
CHECK_DEADLOCK FALSE
