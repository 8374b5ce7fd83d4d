--------------------------- MODULE ResetCalendar ---------------------------
(***************************************************************************)
(* The calendar arithmetic of network_saver.rs: when is the monthly        *)
(* traffic reset due?  The program keeps one thing about the past, the     *)
(* number (1..12) of the month of the last reset, with no year; everything *)
(* else is read from the clock each time.                                  *)
(*                                                                         *)
(* A date is a record of year, month and day.  AbsMonth numbers the months *)
(* consecutively, so that the reference definition ScheduledReset can      *)
(* speak of real months where the code only has the number 1..12.          *)
(***************************************************************************)
EXTENDS Integers

Months == 1..12

\* The days a configuration can ask for: UserConfig::decode clamps to 1..31.
ResetDays == 1..31

IsLeap(year) == (year % 4 = 0 /\ year % 100 # 0) \/ year % 400 = 0

\* get_days_in_current_month
DaysInMonth(year, month) ==
  IF month = 2 THEN IF IsLeap(year) THEN 29 ELSE 28
  ELSE IF month \in {4, 6, 9, 11} THEN 30
  ELSE 31

Date == [year: Nat, month: Months, day: 1..31]

IsDate(date) == date \in Date /\ date.day <= DaysInMonth(date.year, date.month)

\* Mutant: the configured day is used without the month's length.
UnclampedResetDay(reset_day, date) == reset_day

\* get_effective_reset_day: a day the month does not have is its last day.
EffectiveResetDay(reset_day, date) ==
  IF reset_day <= DaysInMonth(date.year, date.month)
    THEN reset_day
    ELSE DaysInMonth(date.year, date.month)

\* Mutant: January has no month before it.
PreviousMonthNoWrap(month) == month - 1

PreviousMonth(month) == IF month = 1 THEN 12 ELSE month - 1

\* calculate_initial_last_reset_month: what a fresh runtime file records.
InitialLastResetMonth(reset_day, date) ==
  IF date.day >= EffectiveResetDay(reset_day, date)
    THEN date.month
    ELSE PreviousMonth(date.month)

\* Mutant: one month is lost at the turn of the year.
MonthsDiffOffByOne(month, last_reset_month) ==
  IF month > last_reset_month
    THEN month - last_reset_month
    ELSE 11 - last_reset_month + month

\* The months from the last reset to now, as should_reset_traffic counts them.
MonthsDiff(month, last_reset_month) ==
  IF month > last_reset_month
    THEN month - last_reset_month
    ELSE 12 - last_reset_month + month

\* Mutant: the early return for a month already reset is missing.
ShouldResetAgain(last_reset_month, reset_day, date) ==
  \/ MonthsDiff(date.month, last_reset_month) > 1
  \/ date.day >= EffectiveResetDay(reset_day, date)

\* should_reset_traffic, from the month, the day and the effective day that it
\* reads from the clock one after the other.
ResetDecision(last_reset_month, month, day, effective_reset_day) ==
  /\ month # last_reset_month
  /\ \/ MonthsDiff(month, last_reset_month) > 1
     \/ day >= effective_reset_day

\* The same when no midnight falls between these reads.
ShouldReset(last_reset_month, reset_day, date) ==
  ResetDecision(last_reset_month, date.month, date.day, EffectiveResetDay(reset_day, date))

-----------------------------------------------------------------------------
(***************************************************************************)
(* The reference: a reset is scheduled once in every calendar month, on    *)
(* the effective day of that month.                                        *)
(***************************************************************************)
AbsMonth(date) == 12 * date.year + date.month - 1

MonthOf(abs) == (abs % 12) + 1

\* The reset scheduled for the absolute month abs has come by `date'.
ScheduledReset(abs, reset_day, date) ==
  \/ abs < AbsMonth(date)
  \/ abs = AbsMonth(date) /\ date.day >= EffectiveResetDay(reset_day, date)

\* A scheduled reset later than the one of month `last' has come by `date'.
ResetIsDue(last, reset_day, date) ==
  \E abs \in last + 1 .. AbsMonth(date) : ScheduledReset(abs, reset_day, date)

Earlier(d1, d2) ==
  \/ AbsMonth(d1) < AbsMonth(d2)
  \/ AbsMonth(d1) = AbsMonth(d2) /\ d1.day < d2.day

=============================================================================
