-------------------------- MODULE MCResetSchedule --------------------------
(***************************************************************************)
(* Two years around a turn of the year, the second one a leap year.        *)
(***************************************************************************)
EXTENDS ResetSchedule

MCYears == {2023, 2024}
MCConfiguredDays == {1, 15, 29, 30, 31}
MCWakeDays == {1, 15, 28, 30}
MCMaxAway == 11
=============================================================================
