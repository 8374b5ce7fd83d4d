------------------------ MODULE ResetCalendarProofs ------------------------
(***************************************************************************)
(* What the calendar arithmetic of network_saver.rs computes, for every    *)
(* date and every configured reset day, and what the monthly reset built   *)
(* on it does over any span of years.                                      *)
(***************************************************************************)
EXTENDS ResetSchedule, TLAPS

LEMMA DaysInMonthRange ==
  ASSUME NEW year \in Nat, NEW month \in Months
  PROVE  DaysInMonth(year, month) \in 28..31
BY DEF DaysInMonth, Months

LEMMA EffectiveResetDayRange ==
  ASSUME NEW chosen \in ResetDays, NEW date \in Date
  PROVE  /\ EffectiveResetDay(chosen, date) \in 1..31
         /\ EffectiveResetDay(chosen, date) <= DaysInMonth(date.year, date.month)
         /\ EffectiveResetDay(chosen, date) <= chosen
<1>1. DaysInMonth(date.year, date.month) \in 28..31
  BY DaysInMonthRange DEF Date
<1> QED BY <1>1 DEF EffectiveResetDay, ResetDays

LEMMA MonthOfAbsMonth ==
  ASSUME NEW date \in Date
  PROVE  MonthOf(AbsMonth(date)) = date.month
BY DEF MonthOf, AbsMonth, Date, Months

\* The month number that PreviousMonth returns is that of the month before.
LEMMA MonthOfPrevious ==
  ASSUME NEW date \in Date
  PROVE  MonthOf(AbsMonth(date) - 1) = PreviousMonth(date.month)
BY DEF MonthOf, AbsMonth, PreviousMonth, Date, Months

(***************************************************************************)
(* While less than a year has passed since the month of the last reset,    *)
(* MonthsDiff is the real distance although the program forgets the year.  *)
(***************************************************************************)
LEMMA MonthsDiffIsDistance ==
  ASSUME NEW date \in Date, NEW last \in Int,
         last < AbsMonth(date), AbsMonth(date) < last + 12
  PROVE  /\ date.month # MonthOf(last)
         /\ MonthsDiff(date.month, MonthOf(last)) = AbsMonth(date) - last
BY DEF MonthsDiff, MonthOf, AbsMonth, Date, Months

(***************************************************************************)
(* should_reset_traffic answers exactly when a scheduled reset has come    *)
(* since the last one, provided the agent was away for less than a year.   *)
(***************************************************************************)
THEOREM ShouldResetIsDue ==
  ASSUME NEW date \in Date, NEW chosen \in ResetDays, NEW last \in Int,
         last <= AbsMonth(date), AbsMonth(date) < last + 12
  PROVE  ShouldReset(MonthOf(last), chosen, date)
           <=> ResetIsDue(last, chosen, date)
<1> DEFINE now == AbsMonth(date)
<1>0. now \in Nat
  BY DEF AbsMonth, Date, Months
<1>1. CASE last = now
  <2>1. ~ ShouldReset(MonthOf(last), chosen, date)
    BY <1>1, MonthOfAbsMonth DEF ShouldReset, ResetDecision
  <2>2. ~ ResetIsDue(last, chosen, date)
    BY <1>0, <1>1 DEF ResetIsDue
  <2> QED BY <2>1, <2>2
<1>2. CASE last + 1 = now
  <2>1. ShouldReset(MonthOf(last), chosen, date)
          <=> date.day >= EffectiveResetDay(chosen, date)
    BY <1>0, <1>2, MonthsDiffIsDistance DEF ShouldReset, ResetDecision
  <2>2. ResetIsDue(last, chosen, date)
          <=> date.day >= EffectiveResetDay(chosen, date)
    BY <1>0, <1>2 DEF ResetIsDue, ScheduledReset
  <2> QED BY <2>1, <2>2
<1>3. CASE last + 1 < now
  <2>1. ShouldReset(MonthOf(last), chosen, date)
    BY <1>0, <1>3, MonthsDiffIsDistance DEF ShouldReset, ResetDecision
  <2>2. last + 1 \in last + 1 .. now /\ ScheduledReset(last + 1, chosen, date)
    BY <1>0, <1>3 DEF ScheduledReset
  <2>3. ResetIsDue(last, chosen, date)
    BY <2>2 DEF ResetIsDue
  <2> QED BY <2>1, <2>3
<1> QED BY <1>0, <1>1, <1>2, <1>3

(***************************************************************************)
(* A fresh runtime file never makes a reset due at once, and the month it  *)
(* records is the one whose scheduled reset was the last to come:          *)
(* calculate_initial_last_reset_month agrees with should_reset_traffic.    *)
(***************************************************************************)
THEOREM InitialMonthNotDue ==
  ASSUME NEW date \in Date, NEW chosen \in ResetDays
  PROVE  ~ ShouldReset(InitialLastResetMonth(chosen, date), chosen, date)
<1>1. CASE date.day >= EffectiveResetDay(chosen, date)
  BY <1>1 DEF InitialLastResetMonth, ShouldReset, ResetDecision
<1>2. CASE ~ (date.day >= EffectiveResetDay(chosen, date))
  <2>1. MonthsDiff(date.month, PreviousMonth(date.month)) = 1
    BY DEF MonthsDiff, PreviousMonth, Date, Months
  <2> QED BY <1>2, <2>1 DEF InitialLastResetMonth, ShouldReset, ResetDecision
<1> QED BY <1>1, <1>2

-----------------------------------------------------------------------------
(***************************************************************************)
(* One decision, made from a month and a day that may have been read on    *)
(* either side of midnight: only the distance from the last reset counts.  *)
(***************************************************************************)
LEMMA DecisionByDistance ==
  ASSUME NEW date \in Date, NEW last \in Int, NEW day \in Int, NEW effective \in Int,
         last <= AbsMonth(date), AbsMonth(date) < last + 12
  PROVE  ResetDecision(MonthOf(last), date.month, day, effective)
           <=> \/ AbsMonth(date) > last + 1
               \/ AbsMonth(date) = last + 1 /\ day >= effective
<1>0. AbsMonth(date) \in Nat
  BY DEF AbsMonth, Date, Months
<1>1. CASE last = AbsMonth(date)
  BY <1>0, <1>1, MonthOfAbsMonth DEF ResetDecision
<1>2. CASE last < AbsMonth(date)
  BY <1>0, <1>2, MonthsDiffIsDistance DEF ResetDecision
<1> QED BY <1>0, <1>1, <1>2

\* Tomorrow is the next day of the month or the first of the next one.
LEMMA Tomorrow ==
  ASSUME NEW date, IsDate(date)
  PROVE  /\ IsDate(NextDate(date))
         /\ \/ /\ AbsMonth(NextDate(date)) = AbsMonth(date)
               /\ NextDate(date).day = date.day + 1
            \/ /\ AbsMonth(NextDate(date)) = AbsMonth(date) + 1
               /\ NextDate(date).day = 1
               /\ date.day = DaysInMonth(date.year, date.month)
<1> DEFINE length == DaysInMonth(date.year, date.month)
<1>0. date \in Date /\ date.day <= length /\ length \in 28..31
  BY DaysInMonthRange DEF IsDate, Date
<1>1. CASE date.day < length
  <2>1. NextDate(date) = [year |-> date.year, month |-> date.month, day |-> date.day + 1]
    BY <1>0, <1>1 DEF NextDate, Date
  <2>2. NextDate(date) \in Date /\ AbsMonth(NextDate(date)) = AbsMonth(date)
    BY <1>0, <1>1, <2>1 DEF Date, AbsMonth
  <2>3. NextDate(date).day = date.day + 1 /\ NextDate(date).day <= length
    BY <1>0, <1>1, <2>1 DEF Date
  <2>4. DaysInMonth(NextDate(date).year, NextDate(date).month) = length
    BY <2>1
  <2> QED BY <2>2, <2>3, <2>4 DEF IsDate
<1>2. CASE ~(date.day < length)
  <2>1. NextDate(date) = [year  |-> IF date.month = 12 THEN date.year + 1 ELSE date.year,
                          month |-> IF date.month = 12 THEN 1 ELSE date.month + 1,
                          day   |-> 1]
    BY <1>2 DEF NextDate
  <2>2. /\ NextDate(date) \in Date
        /\ AbsMonth(NextDate(date)) = AbsMonth(date) + 1
        /\ NextDate(date).day = 1
    BY <1>0, <2>1 DEF Date, Months, AbsMonth
  <2>3. DaysInMonth(NextDate(date).year, NextDate(date).month) \in 28..31
    BY <2>2, DaysInMonthRange DEF Date
  <2>4. date.day = length
    BY <1>0, <1>2 DEF Date
  <2> QED BY <2>2, <2>3, <2>4 DEF IsDate
<1> QED BY <1>1, <1>2

-----------------------------------------------------------------------------
(***************************************************************************)
(* The reset over the years.  The agent is assumed to be back before a     *)
(* year has passed since its last reset: the month number it keeps cannot  *)
(* tell a year from the next.                                              *)
(***************************************************************************)
BackInTime == MaxAway <= 11

LEMMA Facts ==
  ASSUME TypeOK
  PROVE  /\ today \in Date /\ IsDate(today)
         /\ AbsMonth(today) \in Nat /\ last_reset \in Int
         /\ today.day \in 1..31
         /\ reset_day \in ResetDays
         /\ EffectiveResetDay(reset_day, today) \in 1..31
         /\ EffectiveResetDay(reset_day, today) <= DaysInMonth(today.year, today.month)
<1>1. today \in Date /\ IsDate(today) /\ last_reset \in Int
  BY DEF TypeOK, IsDate
<1>2. AbsMonth(today) \in Nat /\ today.day \in 1..31
  BY <1>1 DEF AbsMonth, Date, Months
<1>3. reset_day \in ResetDays
  BY DaysAssumption DEF TypeOK
<1> QED BY <1>1, <1>2, <1>3, EffectiveResetDayRange

\* What a sample that midnight leaves alone finds.
LEMMA DueByDistance ==
  ASSUME ScheduleInv
  PROVE  ShouldReset(last_reset_month, reset_day, today)
           <=> \/ Behind > 1
               \/ Behind = 1 /\ today.day >= EffectiveResetDay(reset_day, today)
<1>1. /\ last_reset <= AbsMonth(today) /\ AbsMonth(today) < last_reset + 12
      /\ last_reset_month = MonthOf(last_reset)
  BY Facts DEF ScheduleInv, Behind
<1> DEFINE effective == EffectiveResetDay(reset_day, today)
<1>a. today \in Date /\ last_reset \in Int /\ today.day \in Int /\ effective \in Int
  BY Facts DEF ScheduleInv
<1>b. ResetDecision(MonthOf(last_reset), today.month, today.day, effective)
        <=> \/ AbsMonth(today) > last_reset + 1
            \/ AbsMonth(today) = last_reset + 1 /\ today.day >= effective
  <2> HIDE DEF effective
  <2> QED BY <1>1, <1>a, DecisionByDistance
<1>2. ShouldReset(last_reset_month, reset_day, today)
        <=> \/ AbsMonth(today) > last_reset + 1
            \/ AbsMonth(today) = last_reset + 1 /\ today.day >= effective
  BY <1>1, <1>b DEF ShouldReset
<1>3. /\ Behind > 1 <=> AbsMonth(today) > last_reset + 1
      /\ Behind = 1 <=> AbsMonth(today) = last_reset + 1
  BY Facts DEF ScheduleInv, Behind
<1> QED BY <1>2, <1>3

(***************************************************************************)
(* A sample torn by midnight either resets, and the month it records is    *)
(* new, or leaves everything alone, having been at most one month behind.  *)
(***************************************************************************)
LEMMA MidnightEffect ==
  ASSUME ScheduleInv, Midnight, BackInTime
  PROVE  \/ /\ last_reset' = AbsMonth(today')
            /\ last_reset_month' = today'.month
            /\ last_reset' > last_reset
         \/ /\ UNCHANGED <<last_reset, last_reset_month>>
            /\ Behind <= 1
<1>1. /\ today \in Date /\ IsDate(today) /\ AbsMonth(today) \in Nat /\ last_reset \in Int
      /\ last_reset <= AbsMonth(today) /\ AbsMonth(today) < last_reset + 12
      /\ last_reset_month = MonthOf(last_reset)
  BY Facts DEF ScheduleInv, Behind
<1> DEFINE next == NextDate(today)
<1>2. /\ next \in Date /\ IsDate(next) /\ AbsMonth(next) \in Int
      /\ AbsMonth(today) <= AbsMonth(next) /\ AbsMonth(next) <= AbsMonth(today) + 1
  BY <1>1, Tomorrow DEF IsDate
<1>3. AbsMonth(next) < last_reset + 12
  BY <1>1, <1>2, AwayAssumption DEF Midnight, BackInTime
<1>4. today' = next
  BY DEF Midnight
<1>5. PICK month \in {today, next}, day \in {today, next}, length \in {today, next} :
        IF ResetDecision(last_reset_month, month.month, day.day,
                         EffectiveResetDay(reset_day, length))
          THEN /\ last_reset_month' = next.month
               /\ last_reset' = AbsMonth(next)
          ELSE UNCHANGED <<last_reset_month, last_reset>>
  BY DEF Midnight
<1>6. /\ month \in Date /\ day \in Date /\ length \in Date /\ day.day \in Int
      /\ last_reset <= AbsMonth(month) /\ AbsMonth(month) < last_reset + 12
      /\ AbsMonth(month) \in Int
      /\ AbsMonth(today) <= AbsMonth(month) /\ AbsMonth(month) <= AbsMonth(next)
  BY <1>1, <1>2, <1>3 DEF Date
<1>7. EffectiveResetDay(reset_day, length) \in Int
  BY <1>6, Facts, EffectiveResetDayRange DEF ScheduleInv
<1> DEFINE decided == ResetDecision(last_reset_month, month.month, day.day,
                                    EffectiveResetDay(reset_day, length))
<1>8. decided <=> \/ AbsMonth(month) > last_reset + 1
                  \/ /\ AbsMonth(month) = last_reset + 1
                     /\ day.day >= EffectiveResetDay(reset_day, length)
  BY <1>1, <1>6, <1>7, DecisionByDistance
<1>9. CASE decided
  <2>1. AbsMonth(month) > last_reset
    BY <1>1, <1>6, <1>8, <1>9
  <2>2. last_reset_month' = next.month /\ last_reset' = AbsMonth(next)
    BY <1>5, <1>9
  <2> HIDE DEF decided
  <2> QED BY <1>1, <1>2, <1>4, <1>6, <2>1, <2>2
<1>10. CASE ~decided
  <2>1. ~(AbsMonth(month) > last_reset + 1)
    BY <1>8, <1>10
  <2>2. UNCHANGED <<last_reset, last_reset_month>>
    BY <1>5, <1>10
  <2> HIDE DEF decided
  <2> QED BY <1>1, <1>6, <2>1, <2>2 DEF Behind
<1> QED BY <1>9, <1>10

LEMMA ScheduleInit ==
  ASSUME Init
  PROVE  ScheduleInv
<1>1. today \in Date /\ IsDate(today) /\ reset_day \in ConfiguredDays
  BY DEF Init, DatesOf, IsDate
<1>2. /\ AbsMonth(today) \in Nat /\ today.month \in Months
      /\ last_reset \in Int /\ Behind \in 0..1
  BY <1>1 DEF Init, Behind, AbsMonth, Date, Months
<1>3. last_reset_month = MonthOf(last_reset)
  BY <1>1, MonthOfAbsMonth, MonthOfPrevious DEF Init, InitialLastResetMonth
<1>4. last_reset_month \in Months
  BY <1>2, <1>3 DEF MonthOf, Months
<1>5. TypeOK
  BY <1>1, <1>2, <1>4 DEF TypeOK, Init
<1> QED BY <1>2, <1>3, <1>5 DEF ScheduleInv, Init

LEMMA ResetStep ==
  ASSUME ScheduleInv, Reset
  PROVE  ScheduleInv' /\ last_reset' > last_reset /\ Behind' = 0
<1>1. today \in Date /\ AbsMonth(today) \in Nat /\ last_reset \in Int
  BY Facts DEF ScheduleInv
<1>2. /\ last_reset' = AbsMonth(today') /\ last_reset_month' = today'.month
      /\ today' = today /\ polled' /\ ~away'
  BY DEF Reset
<1>3. last_reset' > last_reset
  BY <1>1, <1>2, DueByDistance DEF Reset, Behind
<1>4. Behind' = 0
  BY <1>1, <1>2 DEF Behind
<1>5. last_reset_month' = MonthOf(last_reset') /\ last_reset_month' \in Months
  BY <1>1, <1>2, MonthOfAbsMonth DEF Date
<1>6. TypeOK'
  <2>1. last_reset' \in Int
    BY <1>1, <1>2
  <2> QED BY <1>2, <1>5, <2>1 DEF TypeOK, ScheduleInv, Reset
<1>7. ~ShouldReset(last_reset_month, reset_day, today)'
  BY <1>2 DEF ShouldReset, ResetDecision
<1> QED BY <1>2, <1>3, <1>4, <1>5, <1>6, <1>7 DEF ScheduleInv

LEMMA KeepStep ==
  ASSUME ScheduleInv, Keep
  PROVE  ScheduleInv'
<1>1. TypeOK'
  BY DEF TypeOK, ScheduleInv, Keep
<1>2. Behind' = Behind /\ ~ShouldReset(last_reset_month, reset_day, today)'
  BY DEF Keep, Behind
<1>3. Behind <= 1
  BY DueByDistance DEF Keep, ScheduleInv
<1> QED BY <1>1, <1>2, <1>3 DEF ScheduleInv, Keep

LEMMA MidnightStep ==
  ASSUME ScheduleInv, Midnight, BackInTime
  PROVE  ScheduleInv'
<1>1. /\ today \in Date /\ IsDate(today) /\ AbsMonth(today) \in Nat /\ last_reset \in Int
      /\ Behind \in 0..11 /\ Behind = AbsMonth(today) - last_reset
      /\ last_reset_month \in Months /\ last_reset_month = MonthOf(last_reset)
  BY Facts DEF ScheduleInv, Behind, TypeOK
<1>2. /\ today' = NextDate(today) /\ polled' = FALSE /\ away' = FALSE /\ torn' = TRUE
      /\ reset_day' = reset_day
  BY DEF Midnight
<1>3. /\ IsDate(today') /\ today' \in Date
      /\ \/ AbsMonth(today') = AbsMonth(today)
         \/ AbsMonth(today') = AbsMonth(today) + 1 /\ today'.day = 1
  BY <1>1, <1>2, Tomorrow DEF IsDate
<1>4. CASE /\ last_reset' = AbsMonth(today')
           /\ last_reset_month' = today'.month
  <2>1. last_reset_month' = MonthOf(last_reset') /\ last_reset_month' \in Months
    BY <1>3, <1>4, MonthOfAbsMonth DEF Date
  <2>2. Behind' = 0 /\ last_reset' \in Int
    BY <1>1, <1>3, <1>4 DEF Behind
  <2>3. TypeOK'
    BY <1>2, <1>3, <2>1, <2>2 DEF TypeOK, ScheduleInv
  <2> QED BY <1>2, <2>1, <2>2, <2>3 DEF ScheduleInv
<1>5. CASE UNCHANGED <<last_reset, last_reset_month>> /\ Behind <= 1
  <2>1. Behind' \in 0..11 /\ (Behind' <= 1 \/ (Behind' = 2 /\ today'.day = 1))
    <3>1. Behind' = AbsMonth(today') - last_reset /\ Behind \in 0..1
      BY <1>1, <1>5 DEF Behind
    <3>2. \/ Behind' = Behind
          \/ Behind' = Behind + 1 /\ today'.day = 1
      BY <1>1, <1>3, <3>1
    <3> QED BY <3>1, <3>2
  <2>2. TypeOK'
    BY <1>2, <1>3, <1>5 DEF TypeOK, ScheduleInv
  <2> QED BY <1>1, <1>2, <1>5, <2>1, <2>2 DEF ScheduleInv
<1> QED BY <1>4, <1>5, MidnightEffect

(***************************************************************************)
(* A running agent takes a month's end at most one month behind: the       *)
(* effective reset day lies in the month, so the last sample of the month  *)
(* has found the reset due unless it was done.                             *)
(***************************************************************************)
LEMMA NextDayStep ==
  ASSUME ScheduleInv, NextDay
  PROVE  ScheduleInv'
<1>1. /\ today \in Date /\ IsDate(today) /\ AbsMonth(today) \in Nat /\ last_reset \in Int
      /\ Behind \in 0..11 /\ Behind = AbsMonth(today) - last_reset
      /\ today.day \in 1..31
      /\ EffectiveResetDay(reset_day, today) \in 1..31
      /\ EffectiveResetDay(reset_day, today) <= DaysInMonth(today.year, today.month)
      /\ DaysInMonth(today.year, today.month) \in 28..31
  BY Facts, DaysInMonthRange DEF ScheduleInv, Behind, Date
<1>2. /\ today' = NextDate(today) /\ ~polled'
      /\ UNCHANGED <<reset_day, last_reset_month, last_reset, away, torn>>
  BY DEF NextDay
<1>3. /\ IsDate(today')
      /\ \/ AbsMonth(today') = AbsMonth(today)
         \/ /\ AbsMonth(today') = AbsMonth(today) + 1
            /\ today.day = DaysInMonth(today.year, today.month)
  BY <1>1, <1>2, Tomorrow
<1>4. Behind = 0 \/ (Behind = 1 /\ ~(today.day >= EffectiveResetDay(reset_day, today)))
  <2>1. ~ShouldReset(last_reset_month, reset_day, today)
    BY DEF NextDay, ScheduleInv
  <2>2. ~(Behind > 1) /\ ~(Behind = 1 /\ today.day >= EffectiveResetDay(reset_day, today))
    BY <2>1, DueByDistance
  <2>3. Behind \in 0..11
    BY <1>1
  <2> HIDE DEF Behind
  <2> QED BY <2>2, <2>3
<1>5. Behind' \in 0..1
  BY <1>1, <1>2, <1>3, <1>4 DEF Behind
<1>6. TypeOK'
  BY <1>2, <1>3 DEF TypeOK, ScheduleInv, NextDay
<1> QED BY <1>2, <1>5, <1>6 DEF ScheduleInv

LEMMA SleepStep ==
  ASSUME ScheduleInv, Sleep, BackInTime
  PROVE  ScheduleInv'
<1>1. AbsMonth(today) \in Nat /\ last_reset \in Int /\ Behind \in 0..11
  BY Facts DEF ScheduleInv
<1>2. /\ IsDate(today') /\ today' \in Date /\ Earlier(today, today')
      /\ AbsMonth(today') <= last_reset + MaxAway
  BY DEF Sleep, DatesOf, IsDate
<1>3. /\ ~polled' /\ away'
      /\ UNCHANGED <<reset_day, last_reset_month, last_reset, torn>>
  BY DEF Sleep
<1>4. AbsMonth(today') \in Nat
  BY <1>2 DEF AbsMonth, Date, Months
<1>5. Behind' \in 0..11
  BY <1>1, <1>2, <1>3, <1>4, AwayAssumption DEF Behind, Earlier, BackInTime
<1>6. TypeOK'
  BY <1>2, <1>3 DEF TypeOK, ScheduleInv, Sleep
<1> QED BY <1>3, <1>5, <1>6 DEF ScheduleInv

LEMMA SetResetDayStep ==
  ASSUME ScheduleInv, SetResetDay
  PROVE  ScheduleInv'
<1>1. Behind' = Behind /\ ~polled'
  BY DEF SetResetDay, Behind
<1>2. TypeOK'
  BY DEF TypeOK, ScheduleInv, SetResetDay
<1> QED BY <1>1, <1>2 DEF ScheduleInv, SetResetDay

LEMMA ScheduleNext ==
  ASSUME ScheduleInv, [Next]_vars, BackInTime
  PROVE  ScheduleInv'
<1>1. CASE UNCHANGED vars
  BY <1>1 DEF ScheduleInv, TypeOK, Behind, vars
<1>2. CASE Next
  BY <1>2, ResetStep, KeepStep, MidnightStep, NextDayStep, SleepStep, SetResetDayStep
     DEF Next
<1> QED BY <1>1, <1>2

LEMMA ScheduleAlways ==
  ASSUME BackInTime
  PROVE  Spec => []ScheduleInv
<1>1. Init => ScheduleInv
  BY ScheduleInit
<1>2. ScheduleInv /\ [Next]_vars => ScheduleInv'
  BY ScheduleNext
<1> QED BY <1>1, <1>2, PTL DEF Spec

(***************************************************************************)
(* The monthly reset keeps sane records: dates are dates and the recorded  *)
(* month is a month.                                                       *)
(***************************************************************************)
THEOREM ScheduleTypeOK ==
  ASSUME BackInTime
  PROVE  Spec => []TypeOK
<1>1. ScheduleInv => TypeOK
  BY DEF ScheduleInv
<1> QED BY <1>1, ScheduleAlways, PTL

(***************************************************************************)
(* AgreesWithSchedule: in every state the agent can be in,                 *)
(* should_reset_traffic answers as the schedule of real months does,       *)
(* although it only has the number of a month to go by.                    *)
(***************************************************************************)
THEOREM AgreesWithScheduleAlways ==
  ASSUME BackInTime
  PROVE  Spec => []AgreesWithSchedule
<1>1. ASSUME ScheduleInv
      PROVE  AgreesWithSchedule
  <2>1. /\ today \in Date /\ reset_day \in ResetDays /\ last_reset \in Int
        /\ AbsMonth(today) \in Nat
    BY <1>1, Facts DEF ScheduleInv
  <2>2. last_reset <= AbsMonth(today) /\ AbsMonth(today) < last_reset + 12
    BY <1>1, <2>1 DEF ScheduleInv, Behind
  <2>3. last_reset_month = MonthOf(last_reset)
    BY <1>1 DEF ScheduleInv
  <2> QED BY <2>1, <2>2, <2>3, ShouldResetIsDue DEF AgreesWithSchedule
<1> QED BY <1>1, ScheduleAlways, PTL

(***************************************************************************)
(* OneResetPerMonth: no month is reset twice, in whatever way the clock,   *)
(* the configured day and the midnights within a sample fall.              *)
(***************************************************************************)
THEOREM OneResetPerMonthAlways ==
  ASSUME BackInTime
  PROVE  Spec => OneResetPerMonth
<1>1. ASSUME ScheduleInv, [Next]_vars
      PROVE  [Reset \/ last_reset' # last_reset => last_reset' > last_reset]_vars
  <2>1. CASE UNCHANGED vars
    BY <2>1
  <2>2. CASE Reset
    BY <1>1, <2>2, ResetStep
  <2>3. CASE Midnight /\ ~Reset
    BY <1>1, <2>3, MidnightEffect
  <2>4. CASE (Keep \/ NextDay \/ Sleep \/ SetResetDay) /\ ~Reset
    BY <2>4 DEF Keep, NextDay, Sleep, SetResetDay
  <2> QED BY <1>1, <2>1, <2>2, <2>3, <2>4 DEF Next
<1> QED BY <1>1, ScheduleAlways, PTL DEF Spec, OneResetPerMonth

(***************************************************************************)
(* NoMonthMissedWhileUp: an agent that stays up resets in every month, and *)
(* passes one over only when midnight at its end tears the sample.         *)
(***************************************************************************)
THEOREM NoMonthMissedWhileUpAlways ==
  ASSUME BackInTime
  PROVE  Spec => NoMonthMissedWhileUp
<1> DEFINE Kept == last_reset' # last_reset =>
                     \/ away
                     \/ last_reset' = last_reset + 1
                     \/ (torn \/ torn') /\ last_reset' = last_reset + 2
<1>1. ASSUME ScheduleInv, [Next]_vars
      PROVE  [Kept]_vars
  <2>0. /\ AbsMonth(today) \in Nat /\ last_reset \in Int
        /\ Behind = AbsMonth(today) - last_reset /\ Behind \in 0..11
        /\ away \/ Behind <= 1 \/ (torn /\ Behind = 2 /\ today.day = 1)
    <3>1. TypeOK
      BY <1>1 DEF ScheduleInv
    <3>2. AbsMonth(today) \in Nat /\ last_reset \in Int
      BY <3>1, Facts
    <3> QED BY <1>1, <3>2 DEF ScheduleInv, Behind
  <2>1. CASE UNCHANGED vars
    BY <2>1
  <2>2. CASE Reset
    <3>1. last_reset' = AbsMonth(today) /\ last_reset' > last_reset
      BY <1>1, <2>2, ResetStep DEF Reset
    <3> QED BY <2>0, <3>1
  <2>3. CASE Midnight
    <3>1. SUFFICES ASSUME last_reset' # last_reset, ~away
                   PROVE  \/ last_reset' = last_reset + 1
                          \/ (torn \/ torn') /\ last_reset' = last_reset + 2
      OBVIOUS
    <3>2. /\ last_reset' = AbsMonth(NextDate(today)) /\ last_reset' > last_reset /\ torn'
      BY <1>1, <2>3, <3>1, MidnightEffect DEF Midnight
    <3>3. /\ IsDate(today) /\ DaysInMonth(today.year, today.month) \in 28..31
      BY <1>1, Facts, DaysInMonthRange DEF ScheduleInv, Date
    <3>4. \/ AbsMonth(NextDate(today)) = AbsMonth(today)
          \/ AbsMonth(NextDate(today)) = AbsMonth(today) + 1 /\ today.day >= 28
      BY <3>3, Tomorrow
    <3> QED BY <2>0, <3>1, <3>2, <3>4
  <2>4. CASE Keep \/ NextDay \/ Sleep \/ SetResetDay
    BY <2>4 DEF Keep, NextDay, Sleep, SetResetDay
  <2> QED BY <1>1, <2>1, <2>2, <2>3, <2>4 DEF Next
<1> QED BY <1>1, ScheduleAlways, PTL DEF Spec, NoMonthMissedWhileUp

=============================================================================
