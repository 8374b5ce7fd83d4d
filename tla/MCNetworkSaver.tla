--------------------------- MODULE MCNetworkSaver ---------------------------
(***************************************************************************)
(* One direction of traffic and two dates, so that one monthly reset comes *)
(* due on the way (a fresh record made on January 31 belongs to January).  *)
(***************************************************************************)
EXTENDS NetworkSaver

OnDate(y, m, d) == [year |-> y, month |-> m, day |-> d]
Calibrated(c) ==
  [reset_day |-> 31, calibration |-> [d \in Dirs |-> c], traffic_mode |-> Dirs]

MCDirs == {"tx"}
MCDates == {OnDate(2023, 1, 31), OnDate(2023, 2, 28)}

MCPlain == {Calibrated(0)}
MCCalibrated == {Calibrated(1)}
MCSettings == {Calibrated(0), Calibrated(1)}
=============================================================================
