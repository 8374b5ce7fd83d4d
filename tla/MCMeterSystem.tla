---------------------------- MODULE MCMeterSystem ----------------------------
(***************************************************************************)
(* The meter of MCNetworkSaver, with reports.  The settings differ in the  *)
(* calibration, which a reset clears, and in one more field.               *)
(***************************************************************************)
EXTENDS MeterSystem

OnDate(y, m, d) == [year |-> y, month |-> m, day |-> d]
Calibrated(c, mode) ==
  [reset_day |-> 31, calibration |-> [d \in Dirs |-> c], traffic_mode |-> mode]

MCDirs == {"tx"}
MCDates == {OnDate(2023, 1, 31), OnDate(2023, 2, 28)}
MCSettings == {Calibrated(1, Dirs), Calibrated(1, {})}
=============================================================================
