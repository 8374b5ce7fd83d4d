--------------------------- MODULE ResetSchedule ---------------------------
(***************************************************************************)
(* The monthly reset over the years: the part of network_saver's loop that *)
(* only looks at the clock.  The agent asks should_reset_traffic at every  *)
(* sample; here one question per day of uptime stands for all of them, the *)
(* answer being the same for a whole day, and one more for a sample into   *)
(* which midnight falls: the clock is read four times.  While the agent is *)
(* down the clock jumps, and the configured day may be edited at any time. *)
(***************************************************************************)
EXTENDS ResetCalendar

CONSTANTS Years,          \* the years the clock runs through
          ConfiguredDays, \* the values of reset_day a user may write
          WakeDays,       \* the days of a month the agent may come back on
          MaxAway         \* longest time away since the last reset, in months

ASSUME YearsAssumption == Years \subseteq Nat /\ Years # {}
ASSUME DaysAssumption  == ConfiguredDays \subseteq ResetDays /\ WakeDays \subseteq 1..31
ASSUME AwayAssumption  == MaxAway \in Nat

VARIABLES today,            \* the clock
          reset_day,        \* UserConfig.reset_day
          last_reset_month, \* RuntimeData.last_reset_month
          last_reset,       \* history: the absolute month of that reset
          polled,           \* the agent has sampled today
          away,             \* the agent was down since its last sample
          torn              \* history: midnight fell into the last sample

vars == <<today, reset_day, last_reset_month, last_reset, polled, away, torn>>

DatesOf(years, days) ==
  {date \in [year: years, month: Months, day: days] : IsDate(date)}

TypeOK ==
  /\ IsDate(today)
  /\ reset_day \in ConfiguredDays
  /\ last_reset_month \in Months
  /\ last_reset \in Int
  /\ polled \in BOOLEAN
  /\ away \in BOOLEAN /\ torn \in BOOLEAN

NextDate(date) ==
  IF date.day < DaysInMonth(date.year, date.month)
    THEN [date EXCEPT !.day = @ + 1]
    ELSE [year  |-> IF date.month = 12 THEN date.year + 1 ELSE date.year,
          month |-> IF date.month = 12 THEN 1 ELSE date.month + 1,
          day   |-> 1]

\* A fresh installation: get_or_init_runtime_data writes the initial month.
Init ==
  /\ today \in DatesOf(Years, WakeDays)
  /\ reset_day \in ConfiguredDays
  /\ last_reset_month = InitialLastResetMonth(reset_day, today)
  /\ last_reset = IF today.day >= EffectiveResetDay(reset_day, today)
                    THEN AbsMonth(today) ELSE AbsMonth(today) - 1
  /\ polled = FALSE
  /\ away = TRUE /\ torn = FALSE

\* A sample finds a reset due and starts a new period.
Reset ==
  /\ ~polled
  /\ ShouldReset(last_reset_month, reset_day, today)
  /\ last_reset_month' = today.month
  /\ last_reset' = AbsMonth(today)
  /\ polled' = TRUE
  /\ away' = FALSE /\ torn' = FALSE
  /\ UNCHANGED <<today, reset_day>>

\* A sample finds none due.
Keep ==
  /\ ~polled
  /\ ~ShouldReset(last_reset_month, reset_day, today)
  /\ polled' = TRUE
  /\ away' = FALSE /\ torn' = FALSE
  /\ UNCHANGED <<today, reset_day, last_reset_month, last_reset>>

\* Midnight falls into a sample, between any two of its four looks at the clock:
\* the month and the day of should_reset_traffic, the length of the month for
\* the effective day, and the month to be recorded.
Midnight ==
  /\ NextDate(today).year \in Years
  /\ AbsMonth(NextDate(today)) <= last_reset + MaxAway
  /\ \E month, day, length \in {today, NextDate(today)} :
       /\ month = NextDate(today) => day = NextDate(today)
       /\ day = NextDate(today) => length = NextDate(today)
       /\ IF ResetDecision(last_reset_month, month.month, day.day,
                           EffectiveResetDay(reset_day, length))
            THEN /\ last_reset_month' = NextDate(today).month
                 /\ last_reset' = AbsMonth(NextDate(today))
            ELSE UNCHANGED <<last_reset_month, last_reset>>
  /\ today' = NextDate(today)
  /\ polled' = FALSE
  /\ away' = FALSE /\ torn' = TRUE
  /\ UNCHANGED reset_day

\* Midnight passes between two samples of a running agent.
NextDay ==
  /\ polled
  /\ NextDate(today).year \in Years
  /\ today' = NextDate(today)
  /\ polled' = FALSE
  /\ UNCHANGED <<reset_day, last_reset_month, last_reset, away, torn>>

\* The agent is down until some later date.
Sleep ==
  /\ \E date \in DatesOf(Years, WakeDays) :
       /\ Earlier(today, date)
       /\ AbsMonth(date) <= last_reset + MaxAway
       /\ today' = date
  /\ polled' = FALSE
  /\ away' = TRUE
  /\ UNCHANGED <<reset_day, last_reset_month, last_reset, torn>>

\* The user edits reset_day; the next sample reads it.
SetResetDay ==
  /\ polled
  /\ reset_day' \in ConfiguredDays \ {reset_day}
  /\ polled' = FALSE
  /\ UNCHANGED <<today, last_reset_month, last_reset, away, torn>>

Next == Reset \/ Keep \/ Midnight \/ NextDay \/ Sleep \/ SetResetDay

Spec == Init /\ [][Next]_vars

-----------------------------------------------------------------------------
(***************************************************************************)
(* should_reset_traffic, which has only a month number to go by, answers   *)
(* as the schedule of real months does, whatever the configured day, the   *)
(* length of the month, the turn of the year or the time spent away.       *)
(***************************************************************************)
AgreesWithSchedule ==
  ShouldReset(last_reset_month, reset_day, today)
    <=> ResetIsDue(last_reset, reset_day, today)

(***************************************************************************)
(* The inductive invariant of the two properties below.  The month number  *)
(* stands for the right month, which is less than a year back; a sample    *)
(* leaves no reset due; and an agent that stays up never falls behind by   *)
(* more than the month that has just ended, or by one more on the first    *)
(* day after a sample torn by midnight.  It holds while nobody stays away  *)
(* for a year.                                                             *)
(***************************************************************************)
Behind == AbsMonth(today) - last_reset

ScheduleInv ==
  /\ TypeOK
  /\ last_reset_month = MonthOf(last_reset)
  /\ Behind \in 0..11
  /\ polled => ~ShouldReset(last_reset_month, reset_day, today)
  /\ \/ away
     \/ Behind <= 1
     \/ torn /\ Behind = 2 /\ today.day = 1

(***************************************************************************)
(* No month is ever reset twice, even when the user moves reset_day to a   *)
(* later day of a month whose reset has been done: every reset belongs to  *)
(* a later calendar month than the one before it.                          *)
(***************************************************************************)
OneResetPerMonth == [][Reset \/ last_reset' # last_reset => last_reset' > last_reset]_vars

(***************************************************************************)
(* An agent that stays up resets in every month: each reset belongs to the *)
(* month right after the previous one.  One month can be passed over, when *)
(* midnight at its end falls into the sample that was to reset it: then    *)
(* the reset is put down to the month that begins, which has none of its   *)
(* own any more.                                                           *)
(***************************************************************************)
NoMonthMissedWhileUp ==
  [][last_reset' # last_reset =>
       \/ away
       \/ last_reset' = last_reset + 1
       \/ (torn \/ torn') /\ last_reset' = last_reset + 2]_vars

=============================================================================
