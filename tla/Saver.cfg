CONSTANTS
  Dirs <- MCDirs
  Platform = "linux"
  Dates <- MCDates
  Settings <- MCCalibrated
  SaveEvery = 2
  IOErrors = TRUE
  PowerLoss = TRUE
  IfaceLoss = TRUE
  MaxEver = 2
  MaxBoots = 2
  MaxStarts = 3
  MaxEdits = 1
  MaxUncounted = 1
SPECIFICATION Spec
INVARIANTS
  TypeOK
  OvercountNeedsLostRecord
  MeterInv
  NothingLostWithinBoot
  PeriodStaysClosed
PROPERTIES
  DisplayMonotone
\* The exploration ends when every bound is reached.
CHECK_DEADLOCK FALSE
