CONSTANTS
  Years <- MCYears
  ConfiguredDays <- MCConfiguredDays
  WakeDays <- MCWakeDays
  MaxAway <- MCMaxAway
SPECIFICATION Spec
INVARIANTS
  TypeOK
  AgreesWithSchedule
PROPERTIES
  OneResetPerMonth
  NoMonthMissedWhileUp
\* The clock stops at the end of the last year.
CHECK_DEADLOCK FALSE
